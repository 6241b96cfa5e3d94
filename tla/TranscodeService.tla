-------------------------- MODULE TranscodeService --------------------------
(***************************************************************************)
(* TranscodeServiceImpl: the calls of CheckAndQueueTranscode,              *)
(* RetryTranscode, CancelTranscode and RequeueTranscode for the torrent,   *)
(* each split at its database statements and at its Send. A call starts in *)
(* a request handler, in the processor's TriggerTranscodeCheck goroutine   *)
(* or at startup, any time. Cloud storage is disabled here: files that     *)
(* need no transcoding are then skipped.                                   *)
(***************************************************************************)
EXTENDS TranscodeState

Goto(q, pc) == request' = [request EXCEPT ![q].pc = pc]
Return(q) == request' = [request EXCEPT ![q] = [IdleRequest EXCEPT !.pc = "returned"]]

\* What follows the iteration of the loop for one file; RetryTranscode handles
\* one file and returns.
NextFile(q) ==
  IF request[q].kind = "retry"
  THEN Return(q)
  ELSE Goto(q, IF request[q].todo = {} THEN "aggregate" ELSE "create")

\* CheckAndQueueTranscode reads the torrent with its files. The statuses it
\* reads decide which files it visits, whatever happens to the rows afterwards.
Load(q) ==
  /\ request[q].pc \in {"idle", "load"}
  /\ LET todo == {f \in Files : file[f] \in {"None", "Failed"}}
     IN IF todo = {}
        THEN Return(q)
        ELSE request' = [request EXCEPT ![q].pc = "create", ![q].todo = todo]
  /\ UNCHANGED <<database, queues, worker, consumer, reaper, history, faults>>

CreateJob(q) ==
  /\ request[q].pc = "create"
  /\ Len(jobs) < MaxJobs
  /\ \E f \in request[q].todo :
       /\ \A g \in request[q].todo : f <= g
       /\ jobs' = Append(jobs, [file |-> f, status |-> "Pending"])
       /\ request' = [request EXCEPT ![q].pc = "send",
                                     ![q].todo = @ \ {f},
                                     ![q].job = Len(jobs) + 1]
  /\ UNCHANGED <<file, stale, torrent, derived, queues, worker, consumer, reaper,
                 history, faults>>

\* The job row cannot be inserted: the loop skips the file, a retry returns.
CreateJobFails(q) ==
  /\ request[q].pc = "create"
  /\ Fault("database")
  /\ \E f \in request[q].todo :
       LET rest == request[q].todo \ {f}
       IN /\ \A g \in rest : f <= g
          /\ IF request[q].kind = "retry"
             THEN Return(q)
             ELSE request' = [request EXCEPT
                                ![q].pc = IF rest = {} THEN "aggregate" ELSE "create",
                                ![q].todo = rest]
  /\ UNCHANGED <<database, queues, worker, consumer, reaper, history>>

Send(q) ==
  /\ request[q].pc = "send"
  /\ Publish(jobQueue, jobQueue', request[q].job)
  /\ sent' = sent \cup {request[q].job}
  /\ Goto(q, "mark")
  /\ UNCHANGED <<database, eventQueue, seen, worker, consumer, reaper, runs, encoded>>

\* Mutant of SendFails: the error of Send is not looked at.
SendErrorIgnored(q) ==
  /\ request[q].pc = "send"
  /\ Fault("send")
  /\ jobQueue' \in {jobQueue, Append(jobQueue, request[q].job)}
  /\ Goto(q, "mark")
  /\ UNCHANGED <<database, eventQueue, seen, worker, consumer, reaper, history>>

\* Send gave up; its last attempt may have reached the broker all the same.
SendFails(q) ==
  /\ request[q].pc = "send"
  /\ Fault("send")
  /\ jobQueue' \in {jobQueue, Append(jobQueue, request[q].job)}
  /\ Goto(q, "sendFailed")
  /\ UNCHANGED <<database, eventQueue, seen, worker, consumer, reaper, history>>

\* The job row is failed, the file row is left alone.
MarkJobFailed(q) ==
  /\ request[q].pc = "sendFailed"
  /\ SetJob(request[q].job, "Failed")
  /\ NextFile(q)
  /\ UNCHANGED <<file, stale, torrent, derived, queues, worker, consumer, reaper,
                 history, faults>>

\* The message is sent: only now does the file row become Pending.
MarkPending(q) ==
  /\ request[q].pc = "mark"
  /\ SetFile(jobs[request[q].job].file, "Pending")
  /\ IF request[q].kind = "retry" THEN Goto(q, "aggregate") ELSE NextFile(q)
  /\ UNCHANGED <<jobs, torrent, derived, queues, worker, consumer, reaper,
                 history, faults>>

\* The last statement of both methods, on the torrents row.
MarkTorrent(q) ==
  /\ request[q].pc = "aggregate"
  /\ torrent' = IF request[q].kind = "retry"
                THEN [torrent EXCEPT !.status = "Pending"]
                ELSE [status |-> "Pending", progress |-> 0]
  /\ Return(q)
  /\ UNCHANGED <<file, stale, jobs, derived, queues, worker, consumer, reaper,
                 history, faults>>

\* RetryTranscode reads a failed job and continues with a new one for its file.
Retry(q) ==
  /\ request[q].pc = "idle"
  /\ \E j \in 1 .. Len(jobs) :
       /\ jobs[j].status = "Failed"
       /\ request' = [request EXCEPT ![q] = [pc |-> "create", kind |-> "retry",
                                             todo |-> {jobs[j].file}, job |-> 0]]
  /\ UNCHANGED <<database, queues, worker, consumer, reaper, history, faults>>

\* CancelTranscode reads a job, then updates it, then its file row. Nothing
\* tells the worker.
Cancel(q) ==
  /\ request[q].pc = "idle"
  /\ \E j \in 1 .. Len(jobs) :
       /\ jobs[j].status \in {"Pending", "Processing"}
       /\ request' = [request EXCEPT ![q] = [pc |-> "cancelJob", kind |-> "cancel",
                                             todo |-> {}, job |-> j]]
  /\ UNCHANGED <<database, queues, worker, consumer, reaper, history, faults>>

CancelJob(q) ==
  /\ request[q].pc = "cancelJob"
  /\ SetJob(request[q].job, "Failed")
  /\ Goto(q, "cancelFile")
  /\ UNCHANGED <<file, stale, torrent, derived, queues, worker, consumer, reaper,
                 history, faults>>

CancelFile(q) ==
  /\ request[q].pc = "cancelFile"
  /\ SetFile(jobs[request[q].job].file, "Failed")
  /\ Return(q)
  /\ UNCHANGED <<jobs, torrent, derived, queues, worker, consumer, reaper,
                 history, faults>>

\* RequeueTranscode chooses the rows to reset, among all or one by its index.
Requeue(q) ==
  /\ request[q].pc = "idle"
  /\ \E force \in BOOLEAN, scope \in {Files} \cup {{f} : f \in Files} :
       LET eligible == {"Failed"} \cup (IF force THEN MidStates \cup {"None"} ELSE {})
           reset == {f \in scope : file[f] \in eligible}
       IN request' = [request EXCEPT
                        ![q].pc = IF reset = {} THEN "resetTorrent" ELSE "resetFiles",
                        ![q].todo = reset]
  /\ UNCHANGED <<database, queues, worker, consumer, reaper, history, faults>>

ResetFiles(q) ==
  /\ request[q].pc = "resetFiles"
  /\ file' = [f \in Files |-> IF f \in request[q].todo THEN "None" ELSE file[f]]
  /\ stale' = [f \in Files |-> stale[f] /\ f \notin request[q].todo]
  /\ request' = [request EXCEPT ![q].pc = "resetTorrent", ![q].todo = {}]
  /\ UNCHANGED <<jobs, torrent, derived, queues, worker, consumer, reaper,
                 history, faults>>

\* After the reset RequeueTranscode calls CheckAndQueueTranscode.
ResetTorrent(q) ==
  /\ request[q].pc = "resetTorrent"
  /\ torrent' = NoAggregate
  /\ Goto(q, "load")
  /\ UNCHANGED <<file, stale, jobs, derived, queues, worker, consumer, reaper,
                 history, faults>>

\* A statement fails whose error is returned, or is ignored as the last one.
LastStatementFails(q) ==
  /\ request[q].pc \in {"resetFiles", "resetTorrent", "load", "aggregate",
                        "cancelJob", "cancelFile"}
  /\ Fault("database")
  /\ Return(q)
  /\ UNCHANGED <<database, queues, worker, consumer, reaper, history>>

\* The update of the job or file row fails and the method goes on.
UpdateFails(q) ==
  /\ Fault("database")
  /\ \/ request[q].pc = "sendFailed" /\ NextFile(q)
     \/ request[q].pc = "mark" /\ request[q].kind = "retry" /\ Goto(q, "aggregate")
     \/ request[q].pc = "mark" /\ request[q].kind = "check" /\ NextFile(q)
  /\ UNCHANGED <<database, queues, worker, consumer, reaper, history>>

RequestStep(q) ==
  \/ Load(q) \/ CreateJob(q) \/ CreateJobFails(q) \/ Send(q) \/ SendFails(q)
  \/ MarkJobFailed(q) \/ MarkPending(q) \/ MarkTorrent(q)
  \/ Retry(q) \/ Cancel(q) \/ CancelJob(q) \/ CancelFile(q)
  \/ Requeue(q) \/ ResetFiles(q) \/ ResetTorrent(q)
  \/ LastStatementFails(q) \/ UpdateFails(q)

=============================================================================

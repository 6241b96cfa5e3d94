--------------------------- MODULE TranscodeProofs ---------------------------
(***************************************************************************)
(* Theorems about TranscodePipeline, for any sets of files, calls, workers *)
(* and replicas, any combination of faults and any bounds.                 *)
(***************************************************************************)
EXTENDS TranscodePipeline, SequenceTheorems, FiniteSetTheorems, TLAPS

(* The helpers of the actions *)

\* A publication leaves the queue as it was, or adds the message to its end.
LEMMA PublishType ==
  ASSUME NEW T, NEW q \in Seq(T), NEW m \in T, NEW next,
         faults \in 0 .. MaxFaults, Publish(q, next, m)
  PROVE  /\ next \in Seq(T)
         /\ faults' \in 0 .. MaxFaults
         /\ \A i \in 1 .. Len(next) :
              next[i] = m \/ \E j \in 1 .. Len(q) : next[i] = q[j]
<1>1. CASE next = Append(q, m) /\ UNCHANGED faults
  <2>1. next \in Seq(T)
    BY <1>1
  <2>2. \A i \in 1 .. Len(next) : next[i] = m \/ \E j \in 1 .. Len(q) : next[i] = q[j]
    BY <1>1
  <2> QED BY <1>1, <2>1, <2>2
<1>2. CASE Fault("lost") /\ next = q
  BY <1>2, BoundsAssumption DEF Fault
<1>3. CASE Fault("duplicated") /\ next = q \o <<m, m>>
  <2>1. next \in Seq(T)
    BY <1>3
  <2>2. \A i \in 1 .. Len(next) : next[i] = m \/ \E j \in 1 .. Len(q) : next[i] = q[j]
    BY <1>3
  <2>3. faults' \in 0 .. MaxFaults
    BY <1>3, BoundsAssumption DEF Fault
  <2> QED BY <2>1, <2>2, <2>3
<1> QED BY <1>1, <1>2, <1>3 DEF Publish

\* The count of faults stays within its bound (the budget of MaxFaults).
LEMMA FaultType ==
  ASSUME faults \in 0 .. MaxFaults, NEW kind, Fault(kind)
  PROVE  faults' \in 0 .. MaxFaults
BY BoundsAssumption DEF Fault

\* An update of a job's status keeps the rows and the file of each.
LEMMA SetJobType ==
  ASSUME NEW j \in 1 .. Len(jobs),
         NEW s \in {"Pending", "Processing", "Completed", "Failed"},
         jobs \in Seq(Job), SetJob(j, s)
  PROVE  /\ jobs' \in Seq(Job)
         /\ Len(jobs') = Len(jobs)
         /\ \A k \in 1 .. Len(jobs) : jobs'[k].file = jobs[k].file
<1>1. jobs' = [jobs EXCEPT ![j] = [jobs[j] EXCEPT !.status = s]] /\ jobs[j] \in Job
  BY DEF SetJob
<1>2. [jobs[j] EXCEPT !.status = s] \in Job /\ [jobs[j] EXCEPT !.status = s].file = jobs[j].file
  BY <1>1 DEF Job
<1> HIDE DEF Job
<1>3. jobs' \in Seq(Job) /\ Len(jobs') = Len(jobs)
  BY <1>1, <1>2
<1>4. ASSUME NEW k \in 1 .. Len(jobs) PROVE jobs'[k].file = jobs[k].file
  BY <1>1, <1>2
<1> QED BY <1>3, <1>4

(* Type correctness *)

\* The empty database, the empty queues and the idle goroutines are well typed.
LEMMA TypeInit == Init => TypeOK
BY BoundsAssumption
   DEF Init, TypeOK, NoAggregate, Aggregate, FileStatus, Request, RequestPc, IdleRequest,
       Idle, Reaper, IdleReaper

\* Moving a call of the service to its next statement keeps its record a Request.
LEMMA GotoType ==
  ASSUME TypeOK, NEW q \in Requests, NEW pc \in RequestPc, Goto(q, pc)
  PROVE  request' \in [Requests -> Request]
<1>1. [request[q] EXCEPT !.pc = pc] \in Request
  BY DEF TypeOK, Request
<1> QED BY <1>1 DEF TypeOK, Goto

\* A call that returns is a Request.
LEMMA ReturnType ==
  ASSUME TypeOK, NEW q \in Requests, Return(q)
  PROVE  request' \in [Requests -> Request]
<1>1. [IdleRequest EXCEPT !.pc = "returned"] \in Request
  BY BoundsAssumption DEF Request, RequestPc, IdleRequest
<1> QED BY <1>1 DEF TypeOK, Return

\* So is one that goes on with the next file of its loop.
LEMMA NextFileType ==
  ASSUME TypeOK, NEW q \in Requests, NextFile(q)
  PROVE  request' \in [Requests -> Request]
BY GotoType, ReturnType DEF NextFile, RequestPc

\* Steps of a request that write no row but its own state.
LEMMA RequestOnlyType ==
  ASSUME TypeOK, request' \in [Requests -> Request], faults' \in 0 .. MaxFaults,
         UNCHANGED <<database, queues, worker, consumer, reaper, history>>
  PROVE  TypeOK'
BY DEF TypeOK, database, queues, history

\* Every statement of the service's methods preserves the type invariant.
LEMMA RequestType ==
  ASSUME TypeOK, JobAllocated, NEW q \in Requests, RequestStep(q)
  PROVE  TypeOK'
<1> USE DEF database, queues, history, actors
<1>a. request[q] \in Request /\ faults \in 0 .. MaxFaults
  BY DEF TypeOK
<1>b. ASSUME NEW j \in 1 .. Len(jobs) PROVE jobs[j].file \in Files
  <2>1. jobs[j] \in Job
    BY DEF TypeOK
  <2> QED BY <2>1 DEF Job
<1>1. CASE Load(q)
  <2> DEFINE todo == {f \in Files : file[f] \in {"None", "Failed"}}
             r == [request[q] EXCEPT !.pc = "create", !.todo = todo]
  <2>1. r \in Request
    BY <1>a DEF Request, RequestPc
  <2>2. Return(q) \/ request' = [request EXCEPT ![q] = r]
    BY <1>1 DEF Load
  <2>3. request' \in [Requests -> Request]
    BY <2>1, <2>2, ReturnType DEF TypeOK
  <2> QED BY <1>1, <2>3, <1>a, RequestOnlyType DEF Load
<1>2. CASE CreateJob(q)
  <2>1. PICK f \in request[q].todo :
          /\ jobs' = Append(jobs, [file |-> f, status |-> "Pending"])
          /\ request' = [request EXCEPT ![q].pc = "send",
                                        ![q].todo = @ \ {f},
                                        ![q].job = Len(jobs) + 1]
    BY <1>2 DEF CreateJob
  <2> DEFINE r == [request[q] EXCEPT !.pc = "send", !.todo = request[q].todo \ {f},
                                 !.job = Len(jobs) + 1]
  <2>2. f \in Files /\ Len(jobs) + 1 \in 1 .. MaxJobs
    BY <1>2, <1>a, BoundsAssumption DEF CreateJob, TypeOK, Request
  <2>3. r \in Request
    <3>1. Len(jobs) + 1 \in 0 .. MaxJobs /\ request[q].todo \ {f} \in SUBSET Files
      BY <1>a, <2>2, BoundsAssumption DEF Request
    <3> QED BY <1>a, <3>1 DEF Request, RequestPc
  <2>4. request' \in [Requests -> Request]
    BY <2>1, <2>3 DEF TypeOK
  <2>5. [file |-> f, status |-> "Pending"] \in Job
    BY <2>2 DEF Job
  <2>6. jobs' \in Seq(Job) /\ Len(jobs') = Len(jobs) + 1
    BY <2>1, <2>5 DEF TypeOK
  <2>7. /\ jobQueue' \in Seq(1 .. Len(jobs')) /\ runs' \in Seq(1 .. Len(jobs'))
        /\ sent' \subseteq 1 .. Len(jobs')
    <3>1. 1 .. Len(jobs) \subseteq 1 .. Len(jobs')
      BY <2>6 DEF TypeOK
    <3>2. \A s \in Seq(1 .. Len(jobs)) : s \in Seq(1 .. Len(jobs'))
      BY <3>1, SeqMonotonic
    <3> QED BY <1>2, <3>1, <3>2 DEF CreateJob, TypeOK
  <2> QED BY <1>2, <2>2, <2>4, <2>6, <2>7 DEF CreateJob, TypeOK
<1>3. CASE CreateJobFails(q)
  <2>1. PICK f \in request[q].todo :
          Return(q) \/ \E pc \in {"aggregate", "create"} :
                         request' = [request EXCEPT ![q].pc = pc,
                                                    ![q].todo = request[q].todo \ {f}]
    BY <1>3 DEF CreateJobFails
  <2>2. ASSUME NEW pc \in {"aggregate", "create"},
               request' = [request EXCEPT ![q].pc = pc, ![q].todo = request[q].todo \ {f}]
        PROVE  request' \in [Requests -> Request]
    <3>1. [request[q] EXCEPT !.pc = pc, !.todo = request[q].todo \ {f}] \in Request
      BY <1>a DEF Request, RequestPc
    <3> QED BY <2>2, <3>1 DEF TypeOK
  <2>3. request' \in [Requests -> Request]
    BY <2>1, <2>2, ReturnType
  <2> QED BY <1>3, <2>3, <1>a, FaultType, RequestOnlyType DEF CreateJobFails
<1>4. CASE Send(q)
  <2>1. request[q].job \in 1 .. Len(jobs) /\ jobQueue \in Seq(1 .. Len(jobs))
    BY <1>4 DEF Send, TypeOK, JobAllocated
  <2>2. jobQueue' \in Seq(1 .. Len(jobs)) /\ faults' \in 0 .. MaxFaults
    BY <1>4, <1>a, <2>1, PublishType DEF Send
  <2>3. request' \in [Requests -> Request]
    BY <1>4, GotoType DEF Send, RequestPc
  <2> QED BY <1>4, <2>1, <2>2, <2>3 DEF Send, TypeOK
<1>5. CASE SendFails(q)
  <2>1. request[q].job \in 1 .. Len(jobs) /\ jobQueue \in Seq(1 .. Len(jobs))
    BY <1>5 DEF SendFails, TypeOK, JobAllocated
  <2>2. jobQueue' \in Seq(1 .. Len(jobs))
    BY <1>5, <2>1 DEF SendFails
  <2>3. request' \in [Requests -> Request]
    BY <1>5, GotoType DEF SendFails, RequestPc
  <2> QED BY <1>5, <1>a, <2>2, <2>3, FaultType DEF SendFails, TypeOK
<1>6. CASE MarkJobFailed(q)
  <2>1. jobs' \in Seq(Job) /\ Len(jobs') = Len(jobs)
    BY <1>6, SetJobType DEF MarkJobFailed, TypeOK, JobAllocated
  <2>2. request' \in [Requests -> Request]
    BY <1>6, NextFileType DEF MarkJobFailed
  <2> QED BY <1>6, <2>1, <2>2 DEF MarkJobFailed, TypeOK
<1>7. CASE MarkPending(q)
  <2>1. jobs[request[q].job].file \in Files
    BY <1>7, <1>b DEF MarkPending, JobAllocated
  <2>2. file' \in [Files -> FileStatus] /\ stale' \in [Files -> BOOLEAN]
    BY <1>7, <2>1 DEF MarkPending, SetFile, TypeOK, FileStatus
  <2>3. request' \in [Requests -> Request]
    BY <1>7, GotoType, NextFileType DEF MarkPending, RequestPc
  <2> QED BY <1>7, <2>2, <2>3 DEF MarkPending, TypeOK
<1>8. CASE MarkTorrent(q)
  <2>1. torrent' \in Aggregate
    <3>1. [status |-> "Pending", progress |-> 0] \in Aggregate
      BY DEF Aggregate, FileStatus
    <3>2. torrent \in Aggregate /\ [torrent EXCEPT !.status = "Pending"] \in Aggregate
      BY DEF TypeOK, Aggregate, FileStatus
    <3> QED BY <1>8, <3>1, <3>2 DEF MarkTorrent
  <2>2. request' \in [Requests -> Request]
    BY <1>8, ReturnType DEF MarkTorrent
  <2> QED BY <1>8, <2>1, <2>2 DEF MarkTorrent, TypeOK
<1>9. CASE Retry(q)
  <2>1. PICK j \in 1 .. Len(jobs) :
          request' = [request EXCEPT ![q] = [pc |-> "create", kind |-> "retry",
                                             todo |-> {jobs[j].file}, job |-> 0]]
    BY <1>9 DEF Retry
  <2>2. [pc |-> "create", kind |-> "retry", todo |-> {jobs[j].file}, job |-> 0] \in Request
    BY <1>b, BoundsAssumption DEF Request, RequestPc
  <2>3. request' \in [Requests -> Request]
    BY <2>1, <2>2 DEF TypeOK
  <2> QED BY <1>9, <1>a, <2>3, RequestOnlyType DEF Retry
<1>10. CASE Cancel(q)
  <2>1. PICK j \in 1 .. Len(jobs) :
          request' = [request EXCEPT ![q] = [pc |-> "cancelJob", kind |-> "cancel",
                                             todo |-> {}, job |-> j]]
    BY <1>10 DEF Cancel
  <2>2. [pc |-> "cancelJob", kind |-> "cancel", todo |-> {}, job |-> j] \in Request
    BY BoundsAssumption DEF TypeOK, Request, RequestPc
  <2>3. request' \in [Requests -> Request]
    BY <2>1, <2>2 DEF TypeOK
  <2> QED BY <1>10, <1>a, <2>3, RequestOnlyType DEF Cancel
<1>11. CASE CancelJob(q)
  <2>1. jobs' \in Seq(Job) /\ Len(jobs') = Len(jobs)
    BY <1>11, SetJobType DEF CancelJob, TypeOK, JobAllocated
  <2>2. request' \in [Requests -> Request]
    BY <1>11, GotoType DEF CancelJob, RequestPc
  <2> QED BY <1>11, <2>1, <2>2 DEF CancelJob, TypeOK
<1>12. CASE CancelFile(q)
  <2>1. jobs[request[q].job].file \in Files
    BY <1>12, <1>b DEF CancelFile, JobAllocated
  <2>2. file' \in [Files -> FileStatus] /\ stale' \in [Files -> BOOLEAN]
    BY <1>12, <2>1 DEF CancelFile, SetFile, TypeOK, FileStatus
  <2>3. request' \in [Requests -> Request]
    BY <1>12, ReturnType DEF CancelFile
  <2> QED BY <1>12, <2>2, <2>3 DEF CancelFile, TypeOK
<1>13. CASE Requeue(q)
  <2>1. PICK pc \in {"resetTorrent", "resetFiles"}, reset \in SUBSET Files :
          request' = [request EXCEPT ![q].pc = pc, ![q].todo = reset]
    <3>1. PICK force \in BOOLEAN, scope \in {Files} \cup {{f} : f \in Files} :
            LET eligible == {"Failed"} \cup (IF force THEN MidStates \cup {"None"} ELSE {})
                rows == {f \in scope : file[f] \in eligible}
            IN request' = [request EXCEPT
                             ![q].pc = IF rows = {} THEN "resetTorrent" ELSE "resetFiles",
                             ![q].todo = rows]
      BY <1>13 DEF Requeue
    <3> DEFINE eligible == {"Failed"} \cup (IF force THEN MidStates \cup {"None"} ELSE {})
               rows == {f \in scope : file[f] \in eligible}
               next == IF rows = {} THEN "resetTorrent" ELSE "resetFiles"
    <3>2. scope \subseteq Files
      OBVIOUS
    <3>3. rows \in SUBSET Files /\ next \in {"resetTorrent", "resetFiles"}
      BY <3>2
    <3>4. request' = [request EXCEPT ![q].pc = next, ![q].todo = rows]
      BY <3>1
    <3> HIDE DEF rows, next
    <3> QED BY <3>3, <3>4
  <2>2. [request[q] EXCEPT !.pc = pc, !.todo = reset] \in Request
    BY <1>a DEF Request, RequestPc
  <2>3. request' \in [Requests -> Request]
    BY <2>1, <2>2 DEF TypeOK
  <2> QED BY <1>13, <1>a, <2>3, RequestOnlyType DEF Requeue
<1>14. CASE ResetFiles(q)
  <2>1. [request[q] EXCEPT !.pc = "resetTorrent", !.todo = {}] \in Request
    BY <1>a DEF Request, RequestPc
  <2>2. request' \in [Requests -> Request]
    BY <1>14, <2>1 DEF ResetFiles, TypeOK
  <2>3. file' \in [Files -> FileStatus] /\ stale' \in [Files -> BOOLEAN]
    BY <1>14 DEF ResetFiles, TypeOK, FileStatus
  <2> QED BY <1>14, <2>2, <2>3 DEF ResetFiles, TypeOK
<1>15. CASE ResetTorrent(q)
  <2>1. NoAggregate \in Aggregate
    BY DEF NoAggregate, Aggregate, FileStatus
  <2>2. request' \in [Requests -> Request]
    BY <1>15, GotoType DEF ResetTorrent, RequestPc
  <2> QED BY <1>15, <2>1, <2>2 DEF ResetTorrent, TypeOK
<1>16. CASE LastStatementFails(q)
  BY <1>16, <1>a, FaultType, ReturnType, RequestOnlyType DEF LastStatementFails
<1>17. CASE UpdateFails(q)
  <2>1. request' \in [Requests -> Request]
    BY <1>17, GotoType, NextFileType DEF UpdateFails, RequestPc
  <2> QED BY <1>17, <1>a, <2>1, FaultType, RequestOnlyType DEF UpdateFails
<1> QED
  BY <1>1, <1>2, <1>3, <1>4, <1>5, <1>6, <1>7, <1>8, <1>9, <1>10, <1>11, <1>12,
     <1>13, <1>14, <1>15, <1>16, <1>17 DEF RequestStep

\* Steps of a worker or a consumer that write their own state and the queues.
LEMMA WorkerType ==
  ASSUME TypeOK, RunAllocated, NEW w \in Workers, WorkerStep(w)
  PROVE  TypeOK'
<1> USE DEF database, queues, history, actors
<1>a. faults \in 0 .. MaxFaults /\ eventQueue \in Seq(Event) /\ Len(runs) \in 0 .. MaxRuns
  BY BoundsAssumption DEF TypeOK
<1>b. ASSUME worker[w].pc # "idle" PROVE worker[w] \in Worker
  BY <1>b DEF TypeOK, Idle
<1>c. ASSUME NEW type \in {"started", "failed", "completed"}, NEW r \in 1 .. MaxRuns
      PROVE  [type |-> type, run |-> r, percent |-> 0] \in Event
  BY DEF Event
<1>d. ASSUME NEW pc \in {"running", "encoded", "done"}, worker[w].pc # "idle",
             worker' = [worker EXCEPT ![w].pc = pc]
      PROVE  worker' \in [Workers -> Worker \cup {Idle}]
  <2>1. [worker[w] EXCEPT !.pc = pc] \in Worker
    BY <1>b, <1>d DEF Worker
  <2> QED BY <2>1, <1>d DEF TypeOK
<1>e. ASSUME worker' = [worker EXCEPT ![w] = Idle]
      PROVE  worker' \in [Workers -> Worker \cup {Idle}]
  BY <1>e DEF TypeOK
<1>1. CASE TakeJob(w)
  <2> DEFINE r == [pc |-> "running", run |-> Len(runs) + 1, left |-> Percents, held |-> TRUE]
             e == [type |-> "started", run |-> Len(runs) + 1, percent |-> 0]
  <2>1. Len(runs) + 1 \in 1 .. MaxRuns
    BY <1>1, <1>a, BoundsAssumption DEF TakeJob
  <2>2. r \in Worker
    BY <2>1 DEF Worker
  <2>3. e \in Event
    BY <2>1, <1>c
  <2>4. eventQueue' \in Seq(Event) /\ faults' \in 0 .. MaxFaults
    <3>1. Publish(eventQueue, eventQueue', e)
      BY <1>1 DEF TakeJob
    <3> HIDE DEF e
    <3> QED BY <3>1, <2>3, <1>a, PublishType
  <2>5. worker' \in [Workers -> Worker \cup {Idle}]
    BY <1>1, <2>2 DEF TakeJob, TypeOK
  <2>6. Head(jobQueue) \in 1 .. Len(jobs) /\ Tail(jobQueue) \in Seq(1 .. Len(jobs))
    BY <1>1 DEF TakeJob, TypeOK
  <2>7. /\ runs' \in Seq(1 .. Len(jobs)) /\ Len(runs') = Len(runs) + 1
        /\ encoded' \subseteq 1 .. Len(runs')
    BY <1>1, <2>6 DEF TakeJob, TypeOK
  <2>8. /\ jobQueue' \in Seq(1 .. Len(jobs)) /\ Len(runs') <= MaxRuns
        /\ UNCHANGED <<database, seen, request, consumer, reaper, sent>>
    BY <1>1, <2>1, <2>6, <2>7 DEF TakeJob
  <2> HIDE DEF r, e
  <2> QED BY <2>4, <2>5, <2>7, <2>8 DEF TypeOK, database
<1>2. CASE ReportProgress(w)
  <2>1. PICK p \in worker[w].left :
          /\ worker' = [worker EXCEPT ![w].left = {x \in @ : x > p}]
          /\ Publish(eventQueue, eventQueue', WorkerEvent(w, "progress", p))
    BY <1>2 DEF ReportProgress
  <2>2. worker[w] \in Worker
    BY <1>2, <1>b DEF ReportProgress
  <2>3. WorkerEvent(w, "progress", p) \in Event
    BY <2>2, PercentsAssumption DEF WorkerEvent, Event, Worker
  <2>4. eventQueue' \in Seq(Event) /\ faults' \in 0 .. MaxFaults
    BY <2>1, <2>3, <1>a, PublishType
  <2>5. [worker[w] EXCEPT !.left = {x \in worker[w].left : x > p}] \in Worker
    BY <2>2 DEF Worker
  <2>6. worker' \in [Workers -> Worker \cup {Idle}]
    BY <2>1, <2>5 DEF TypeOK
  <2> QED BY <1>2, <2>4, <2>6 DEF ReportProgress, TypeOK
<1>3. CASE RunFails(w)
  <2>1. WorkerEvent(w, "failed", 0) \in Event
    BY <1>3, <1>b, <1>c DEF RunFails, WorkerEvent, Worker
  <2>2. eventQueue' \in Seq(Event) /\ faults' \in 0 .. MaxFaults
    BY <1>3, <2>1, <1>a, PublishType DEF RunFails
  <2> QED BY <1>3, <2>2, <1>d DEF RunFails, TypeOK
<1>4. CASE RunSucceeds(w)
  <2>1. worker[w].run \in 1 .. Len(runs)
    BY <1>4 DEF RunSucceeds, RunAllocated
  <2> QED BY <1>4, <2>1, <1>d DEF RunSucceeds, TypeOK
<1>5. CASE PublishCompleted(w)
  <2>1. WorkerEvent(w, "completed", 0) \in Event
    BY <1>5, <1>b, <1>c DEF PublishCompleted, WorkerEvent, Worker
  <2>2. eventQueue' \in Seq(Event) /\ faults' \in 0 .. MaxFaults
    BY <1>5, <2>1, <1>a, PublishType DEF PublishCompleted
  <2> QED BY <1>5, <2>2, <1>d DEF PublishCompleted, TypeOK
<1>6. CASE AckJob(w)
  BY <1>6, <1>e DEF AckJob, TypeOK
<1>7. CASE LoseJob(w)
  <2>1. [worker[w] EXCEPT !.held = FALSE] \in Worker
    BY <1>7, <1>b DEF LoseJob, Worker
  <2>2. worker' \in [Workers -> Worker \cup {Idle}]
    BY <1>7, <2>1 DEF LoseJob, TypeOK
  <2>3. runs[worker[w].run] \in 1 .. Len(jobs)
    BY <1>7 DEF LoseJob, RunAllocated, TypeOK
  <2>4. jobQueue' \in Seq(1 .. Len(jobs))
    BY <1>7, <2>3 DEF LoseJob, TypeOK
  <2> QED BY <1>7, <2>2, <2>4, <1>a, FaultType DEF LoseJob, TypeOK
<1>8. CASE CrashWorker(w)
  BY <1>8, <1>e DEF CrashWorker, TypeOK
<1> QED BY <1>1, <1>2, <1>3, <1>4, <1>5, <1>6, <1>7, <1>8 DEF WorkerStep

\* What the two aggregations compute is a row of the torrents table.
LEMMA RecomputedType == Recomputed \in Aggregate
<1> DEFINE status == CASE Some("Processing") -> "Processing"
                       [] ~ Some("Processing") /\ Some("Pending") -> "Pending"
                       [] ~ Some("Processing") /\ ~ Some("Pending")
                            /\ Some("Failed") /\ ~ Some("Completed") -> "Failed"
                       [] OTHER -> "Completed"
<1>1. status \in FileStatus
  BY DEF FileStatus
<1>2. Recomputed = [status |-> status, progress |-> IF status = "Completed" THEN 100 ELSE 0]
  BY DEF Recomputed
<1> HIDE DEF status
<1> QED BY <1>1, <1>2 DEF Aggregate

\* recomputeTranscodeProgress computes a percentage as long as some file waits or is at work,
\* and at most 200 when none does and a late event's own percentage is added.
LEMMA OverallProgressType ==
  ASSUME NEW percent \in 0 .. 100
  PROVE  /\ OverallProgress(percent) \in 0 .. 200
         /\ Some("Pending") \/ Some("Processing") => OverallProgress(percent) <= 100
<1>1. ASSUME NEW s PROVE Number(s) \in Nat /\ (Some(s) => Number(s) > 0)
  <2>1. PICK S : S = {f \in Files : file[f] = s}
    OBVIOUS
  <2>2. IsFiniteSet(S)
    BY <2>1, FilesAssumption, FS_Subset
  <2>3. Cardinality(S) \in Nat /\ (Cardinality(S) = 0 <=> S = {})
    BY <2>2, FS_CardinalityType, FS_EmptySet
  <2>4. Some(s) => S # {}
    BY <2>1 DEF Some
  <2>5. Number(s) = Cardinality(S)
    BY <2>1 DEF Number
  <2> QED BY <2>3, <2>4, <2>5
<1>2. PICK done \in Nat : done = Number("Completed")
  BY <1>1
<1>3. PICK open \in Nat : open = Number("Processing") + Number("Pending")
  BY <1>1
<1> DEFINE total == done + open
           q == (100 * done + percent) \div total
<1>4. OverallProgress(percent) = IF total > 0 THEN q ELSE 0
  BY <1>1, <1>2, <1>3 DEF OverallProgress
<1>5. Some("Pending") \/ Some("Processing") => open > 0
  BY <1>1, <1>3
<1>6. ASSUME total > 0
      PROVE  q \in 0 .. 200 /\ (open > 0 => q <= 100)
  <2>1. q \in Nat /\ total * q <= 100 * done + percent
    BY <1>6
  <2>2. ASSUME q > 200 PROVE FALSE
    <3>1. total * q >= total * 201
      BY <2>1, <2>2
    <3> QED BY <1>6, <2>1, <3>1
  <2>3. ASSUME open > 0, q > 100 PROVE FALSE
    <3>1. total * q >= total * 101
      BY <2>1, <2>3
    <3> QED BY <2>1, <2>3, <3>1
  <2> QED BY <2>1, <2>2, <2>3
<1> HIDE DEF total, q
<1> QED BY <1>4, <1>5, <1>6

\* Every step of the event processor preserves the type invariant.
LEMMA ConsumerType ==
  ASSUME TypeOK, RunAllocated, EventsTruthful, Working, NEW c \in Consumers, ConsumerStep(c)
  PROVE  TypeOK'
<1> USE DEF database, queues, history, actors
<1>a. faults \in 0 .. MaxFaults /\ eventQueue \in Seq(Event)
  BY DEF TypeOK
<1>b. ASSUME consumer[c].pc # "idle"
      PROVE  /\ consumer[c] \in Consumer /\ consumer[c].event \in Event
             /\ consumer[c].event.run \in 1 .. Len(runs)
             /\ runs[consumer[c].event.run] \in 1 .. Len(jobs)
             /\ Row(consumer[c].event.run) \in Files
  <2>1. consumer[c] \in Consumer
    BY <1>b DEF TypeOK, Idle
  <2>2. consumer[c].event \in Event
    BY <2>1 DEF Consumer
  <2>3. consumer[c].event.run \in 1 .. Len(runs)
    BY <1>b DEF EventsTruthful, Truthful
  <2>4. runs[consumer[c].event.run] \in 1 .. Len(jobs)
    BY <2>3 DEF TypeOK
  <2>5. jobs[runs[consumer[c].event.run]] \in Job
    BY <2>4 DEF TypeOK
  <2> QED BY <2>1, <2>2, <2>3, <2>4, <2>5 DEF Row, Job
<1>c. ASSUME NEW pc \in {"job", "file", "row", "recompute", "write"},
             consumer[c].pc # "idle", Continue(c, pc)
      PROVE  consumer' \in [Consumers -> Consumer \cup {Idle}]
  <2>1. [consumer[c] EXCEPT !.pc = pc] \in Consumer
    BY <1>b, <1>c DEF Consumer
  <2> QED BY <2>1, <1>c DEF TypeOK, Continue
<1>d. ASSUME Finish(c) PROVE consumer' \in [Consumers -> Consumer \cup {Idle}]
  BY <1>d DEF TypeOK, Finish
<1>e. ASSUME NEW e \in Event, Start(c, e)
      PROVE  consumer' \in [Consumers -> Consumer \cup {Idle}]
  <2> DEFINE r == [pc |-> IF e.type = "progress" THEN "recompute" ELSE "job",
                   event |-> e, agg |-> NoAggregate, held |-> TRUE]
  <2>1. r \in Consumer
    BY DEF Consumer, NoAggregate, Aggregate, FileStatus
  <2> QED BY <2>1, <1>e DEF TypeOK, Start
<1>f. ASSUME eventQueue # <<>>
      PROVE  Head(eventQueue) \in Event /\ Tail(eventQueue) \in Seq(Event)
  BY <1>f, <1>a
<1>g. ASSUME NEW e \in Event, e.type # "progress"
      PROVE  StatusOf(e) \in {"Pending", "Processing", "Completed", "Failed"}
  BY <1>g DEF Event, StatusOf
<1>1. CASE TakeEvent(c)
  BY <1>1, <1>e, <1>f DEF TakeEvent, TypeOK
<1>2. CASE DropDuplicate(c)
  BY <1>2, <1>f DEF DropDuplicate, TypeOK
<1>3. CASE TakeUnchecked(c)
  BY <1>3, <1>a, <1>e, <1>f, FaultType DEF TakeUnchecked, TypeOK
<1>4. CASE UpdateJob(c)
  <2>1. consumer' \in [Consumers -> Consumer \cup {Idle}]
    BY <1>4, <1>c DEF UpdateJob
  <2>2. consumer[c].event.type # "progress"
    BY <1>4 DEF UpdateJob, Working
  <2>3. jobs' \in Seq(Job) /\ Len(jobs') = Len(jobs)
    BY <1>4, <2>2, <1>b, <1>g, SetJobType DEF UpdateJob, TypeOK
  <2> QED BY <1>4, <2>1, <2>3 DEF UpdateJob, TypeOK
<1>5. CASE UpdateFile(c)
  <2>1. consumer' \in [Consumers -> Consumer \cup {Idle}]
    BY <1>5, <1>c DEF UpdateFile
  <2>2. consumer[c].event.type # "progress"
    BY <1>5 DEF UpdateFile, Working
  <2>3. Row(consumer[c].event.run) \in Files /\ StatusOf(consumer[c].event) \in FileStatus
    BY <1>5, <2>2, <1>b, <1>g DEF UpdateFile, FileStatus
  <2>4. file' \in [Files -> FileStatus] /\ stale' \in [Files -> BOOLEAN]
    BY <1>5, <2>3 DEF UpdateFile, SetFile, TypeOK
  <2> QED BY <1>5, <2>1, <2>4 DEF UpdateFile, TypeOK
<1>6. CASE CreateRow(c)
  <2>1. consumer[c].event.run \in 1 .. MaxRuns
    BY <1>6, <1>b DEF CreateRow, Event
  <2>2. derived' \in [1 .. MaxRuns -> Nat]
    BY <1>6, <2>1 DEF CreateRow, TypeOK
  <2>3. consumer' \in [Consumers -> Consumer \cup {Idle}]
    BY <1>6, <1>c DEF CreateRow
  <2> QED BY <1>6, <2>2, <2>3 DEF CreateRow, TypeOK
<1>7. CASE Recompute(c)
  <2> DEFINE a == IF consumer[c].event.type = "progress"
                  THEN [NoAggregate EXCEPT
                          !.progress = OverallProgress(consumer[c].event.percent)]
                  ELSE Recomputed
  <2>1. consumer[c].event.percent \in 0 .. 100
    BY <1>7, <1>b DEF Recompute, Event
  <2>2. a \in Aggregate
    BY <2>1, RecomputedType, OverallProgressType
       DEF NoAggregate, Aggregate, FileStatus
  <2>3. consumer' = [consumer EXCEPT ![c].pc = "write", ![c].agg = a]
    BY <1>7 DEF Recompute
  <2> HIDE DEF a
  <2>4. [consumer[c] EXCEPT !.pc = "write", !.agg = a] \in Consumer
    BY <1>7, <2>2, <1>b DEF Recompute, Consumer
  <2>5. consumer' \in [Consumers -> Consumer \cup {Idle}]
    BY <2>3, <2>4 DEF TypeOK
  <2> QED BY <1>7, <2>5 DEF Recompute, TypeOK
<1>8. CASE WriteAggregate(c)
  <2>1. consumer[c].agg \in Aggregate
    BY <1>8, <1>b DEF WriteAggregate, Consumer
  <2>2. torrent' \in Aggregate
    BY <1>8, <2>1 DEF WriteAggregate, TypeOK, Aggregate
  <2> QED BY <1>8, <2>2, <1>d DEF WriteAggregate, TypeOK
<1>9. CASE StatementFails(c)
  <2>1. consumer' \in [Consumers -> Consumer \cup {Idle}]
    BY <1>9, <1>c, <1>d DEF StatementFails, IgnoredFailure, ReturnedFailure
  <2> QED BY <1>9, <2>1, <1>a, FaultType DEF StatementFails, TypeOK
<1>10. CASE LoseEvent(c)
  <2>1. [consumer[c] EXCEPT !.held = FALSE] \in Consumer
    BY <1>10, <1>b DEF LoseEvent, Consumer
  <2>2. consumer' \in [Consumers -> Consumer \cup {Idle}]
    BY <1>10, <2>1 DEF LoseEvent, TypeOK
  <2>3. eventQueue' \in Seq(Event)
    BY <1>10, <1>a, <1>b DEF LoseEvent
  <2> QED BY <1>10, <2>2, <2>3, <1>a, FaultType DEF LoseEvent, TypeOK
<1>11. CASE CrashConsumer(c)
  BY <1>11, <1>d DEF CrashConsumer, TypeOK
<1> QED
  BY <1>1, <1>2, <1>3, <1>4, <1>5, <1>6, <1>7, <1>8, <1>9, <1>10, <1>11 DEF ConsumerStep

\* Every step of a pass of the reaper preserves the type invariant.
LEMMA ReaperType ==
  ASSUME TypeOK, ReaperStep
  PROVE  TypeOK'
<1> USE DEF database, queues, history, actors
<1>a. /\ faults \in 0 .. MaxFaults /\ reaper \in Reaper
      /\ \A s : StaleRows(s) \in SUBSET Files
  BY DEF TypeOK, StaleRows
<1>b. IdleReaper \in Reaper
  BY DEF IdleReaper, Reaper, NoAggregate, Aggregate, FileStatus
<1>1. CASE ScanPending
  <2>1. [IdleReaper EXCEPT !.pc = "Pending", !.stuck = StaleRows("Pending")] \in Reaper
    BY <1>a, <1>b DEF Reaper
  <2> QED BY <1>1, <2>1 DEF ScanPending, TypeOK
<1>2. CASE Demote
  <2>1. PICK f \in reaper.stuck :
          \/ /\ SetFile(f, "Failed")
             /\ reaper' = [reaper EXCEPT !.stuck = @ \ {f}, !.affected = TRUE]
          \/ /\ reaper' = [reaper EXCEPT !.stuck = @ \ {f}]
             /\ UNCHANGED <<file, stale>>
    BY <1>2 DEF Demote
  <2>2. f \in Files
    BY <1>a DEF Reaper
  <2>3. reaper' \in Reaper
    BY <1>a, <2>1 DEF Reaper
  <2>4. file' \in [Files -> FileStatus] /\ stale' \in [Files -> BOOLEAN]
    BY <2>1, <2>2 DEF SetFile, TypeOK, FileStatus
  <2> QED BY <1>2, <2>3, <2>4 DEF Demote, TypeOK
<1>3. CASE DemoteFails
  <2>1. reaper' \in Reaper
    BY <1>3, <1>a DEF DemoteFails, Reaper
  <2> QED BY <1>3, <2>1, <1>a, FaultType DEF DemoteFails, TypeOK
<1>4. CASE ScanProcessing
  <2>1. reaper' \in Reaper
    BY <1>4, <1>a DEF ScanProcessing, Reaper
  <2> QED BY <1>4, <2>1 DEF ScanProcessing, TypeOK
<1>5. CASE ReaperRecompute
  <2>1. [IdleReaper EXCEPT !.pc = "write", !.agg = Recomputed] \in Reaper
    BY <1>b, RecomputedType DEF Reaper
  <2> QED BY <1>5, <1>b, <2>1 DEF ReaperRecompute, TypeOK
<1>6. CASE ReaperWrite
  <2>1. reaper.agg \in Aggregate
    BY <1>a DEF Reaper
  <2> QED BY <1>6, <1>b, <2>1 DEF ReaperWrite, TypeOK
<1>7. CASE PassFails
  BY <1>7, <1>a, <1>b, FaultType DEF PassFails, TypeOK
<1> QED BY <1>1, <1>2, <1>3, <1>4, <1>5, <1>6, <1>7 DEF ReaperStep

\* Every step of the pipeline preserves the type invariant.
LEMMA TypeNext ==
  ASSUME TypeOK, JobAllocated, RunAllocated, EventsTruthful, Working, [Next]_vars
  PROVE  TypeOK'
<1>1. ASSUME NEW f \in Files, Age(f) PROVE TypeOK'
  BY <1>1 DEF Age, TypeOK, queues, actors, history
<1>2. CASE UNCHANGED vars
  BY <1>2 DEF vars, TypeOK
<1> QED BY <1>1, <1>2, RequestType, WorkerType, ConsumerType, ReaperType DEF Next

(* What a step does to the rows and the history *)

\* Jobs, runs and their outcomes are only added: a job keeps its file, a run keeps
\* its job.
Grows ==
  /\ Len(jobs) <= Len(jobs')
  /\ \A k \in 1 .. Len(jobs) : jobs'[k].file = jobs[k].file
  /\ Len(runs) <= Len(runs')
  /\ \A r \in 1 .. Len(runs) : runs'[r] = runs[r]
  /\ sent \subseteq sent'
  /\ encoded \subseteq encoded'

\* No step takes back a job's Send, a delivery or an encoded output, and none moves a
\* job row to another file: facts about the past stay true.
LEMMA HistoryGrows ==
  ASSUME Inductive, [Next]_vars
  PROVE  Grows
<1> USE DEF database, queues, history, actors, Inductive
<1>a. /\ Len(jobs) \in Nat /\ Len(runs) \in Nat
      /\ jobs \in Seq(Job) /\ runs \in Seq(1 .. Len(jobs))
  BY DEF TypeOK
<1>1. ASSUME NEW q \in Requests, RequestStep(q) PROVE Grows
  <2>1. CASE UNCHANGED jobs /\ UNCHANGED runs /\ sent \subseteq sent' /\ UNCHANGED encoded
    BY <2>1, <1>a DEF Grows
  <2>2. ASSUME CreateJob(q) PROVE Grows
    <3>1. PICK f \in request[q].todo :
            jobs' = Append(jobs, [file |-> f, status |-> "Pending"])
      BY <2>2 DEF CreateJob
    <3>2. request[q] \in Request
      BY DEF TypeOK
    <3>3. [file |-> f, status |-> "Pending"] \in Job
      BY <3>2 DEF Request, Job
    <3>4. /\ Len(jobs) <= Len(jobs')
          /\ \A k \in 1 .. Len(jobs) : jobs'[k] = jobs[k]
      BY <1>a, <3>1, <3>3
    <3> QED BY <2>2, <3>4, <1>a DEF CreateJob, Grows
  <2>3. ASSUME MarkJobFailed(q) PROVE Grows
    BY <2>3, <1>a, SetJobType DEF MarkJobFailed, JobAllocated, Grows
  <2>4. ASSUME CancelJob(q) PROVE Grows
    BY <2>4, <1>a, SetJobType DEF CancelJob, JobAllocated, Grows
  <2> QED
    BY <1>1, <2>1, <2>2, <2>3, <2>4
       DEF RequestStep, Load, CreateJobFails, Send, SendFails, MarkPending, MarkTorrent,
           Retry, Cancel, CancelFile, Requeue, ResetFiles, ResetTorrent,
           LastStatementFails, UpdateFails
<1>2. ASSUME NEW w \in Workers, WorkerStep(w) PROVE Grows
  <2>1. CASE UNCHANGED jobs /\ UNCHANGED runs /\ UNCHANGED sent /\ encoded \subseteq encoded'
    BY <2>1, <1>a DEF Grows
  <2>2. ASSUME TakeJob(w) PROVE Grows
    <3>1. Head(jobQueue) \in 1 .. Len(jobs)
      BY <2>2 DEF TakeJob, TypeOK
    <3>2. Len(runs) <= Len(runs') /\ \A r \in 1 .. Len(runs) : runs'[r] = runs[r]
      BY <2>2, <3>1, <1>a DEF TakeJob
    <3> QED BY <2>2, <3>2, <1>a DEF TakeJob, Grows
  <2> QED
    BY <1>2, <2>1, <2>2
       DEF WorkerStep, ReportProgress, RunFails, RunSucceeds, PublishCompleted, AckJob,
           LoseJob, CrashWorker
<1>3. ASSUME NEW c \in Consumers, ConsumerStep(c) PROVE Grows
  <2>1. CASE UNCHANGED jobs /\ UNCHANGED <<runs, sent, encoded>>
    BY <2>1, <1>a DEF Grows
  <2>2. ASSUME UpdateJob(c) PROVE Grows
    <3> DEFINE e == consumer[c].event
    <3>1. e.run \in 1 .. Len(runs) /\ e.type # "progress" /\ e \in Event
      BY <2>2 DEF UpdateJob, EventsTruthful, Truthful, Working, TypeOK, Idle, Consumer
    <3>2. runs[e.run] \in 1 .. Len(jobs)
      BY <3>1, <1>a
    <3>3. StatusOf(e) \in {"Pending", "Processing", "Completed", "Failed"}
      BY <3>1 DEF StatusOf, Event
    <3>4. SetJob(runs[e.run], StatusOf(e))
      BY <2>2 DEF UpdateJob
    <3> HIDE DEF e
    <3> QED BY <2>2, <3>2, <3>3, <3>4, <1>a, SetJobType DEF UpdateJob, Grows
  <2> QED
    BY <1>3, <2>1, <2>2
       DEF ConsumerStep, TakeEvent, DropDuplicate, TakeUnchecked, UpdateFile, CreateRow,
           Recompute, WriteAggregate, StatementFails, LoseEvent, CrashConsumer
<1>4. CASE UNCHANGED jobs /\ UNCHANGED <<runs, sent, encoded>>
  BY <1>4, <1>a DEF Grows
<1> QED
  BY <1>1, <1>2, <1>3, <1>4
     DEF Next, Age, ReaperStep, ScanPending, Demote, DemoteFails, ScanProcessing,
         ReaperRecompute, ReaperWrite, PassFails, vars

\* Which status a step may give to a file row.
LEMMA FileWrites ==
  ASSUME Inductive, [Next]_vars, NEW f \in Files, file'[f] # file[f]
  PROVE  \/ file'[f] \in {"None", "Processing", "Failed"}
         \/ file'[f] = "Pending" /\ \E j \in sent : jobs[j].file = f
         \/ file'[f] = "Completed" /\ \E r \in encoded : Row(r) = f
<1> USE DEF database, queues, history, actors, Inductive
<1> DEFINE Goal == \/ file'[f] \in {"None", "Processing", "Failed"}
                   \/ file'[f] = "Pending" /\ \E j \in sent : jobs[j].file = f
                   \/ file'[f] = "Completed" /\ \E r \in encoded : Row(r) = f
<1>a. file \in [Files -> FileStatus]
  BY DEF TypeOK
<1>1. ASSUME NEW q \in Requests, RequestStep(q) PROVE Goal
  <2>1. CASE MarkPending(q)
    BY <2>1, <1>a DEF MarkPending, SetFile, MarkedWasSent
  <2>2. CASE CancelFile(q)
    BY <2>2, <1>a DEF CancelFile, SetFile
  <2>3. CASE ResetFiles(q)
    BY <2>3, <1>a DEF ResetFiles
  <2>4. CASE UNCHANGED file
    BY <2>4
  <2> QED
    BY <1>1, <2>1, <2>2, <2>3, <2>4
       DEF RequestStep, Load, CreateJob, CreateJobFails, Send, SendFails, MarkJobFailed,
           MarkTorrent, Retry, Cancel, CancelJob, Requeue, ResetTorrent,
           LastStatementFails, UpdateFails
<1>2. ASSUME NEW w \in Workers, WorkerStep(w) PROVE UNCHANGED file
  BY <1>2
     DEF WorkerStep, TakeJob, ReportProgress, RunFails, RunSucceeds, PublishCompleted,
         AckJob, LoseJob, CrashWorker
<1>3. ASSUME NEW c \in Consumers, ConsumerStep(c) PROVE Goal
  <2>1. CASE UpdateFile(c)
    <3> DEFINE e == consumer[c].event
    <3>1. e \in Event /\ e.type # "progress" /\ (e.type = "completed" => e.run \in encoded)
      BY <2>1 DEF UpdateFile, EventsTruthful, Truthful, Working, TypeOK, Idle, Consumer
    <3>2. \/ StatusOf(e) \in {"Processing", "Failed"}
          \/ StatusOf(e) = "Completed" /\ e.run \in encoded
      BY <3>1 DEF StatusOf, Event
    <3>3. SetFile(Row(e.run), StatusOf(e))
      BY <2>1 DEF UpdateFile
    <3> HIDE DEF e
    <3> QED BY <3>2, <3>3, <1>a DEF SetFile
  <2>2. CASE UNCHANGED file
    BY <2>2
  <2> QED
    BY <1>3, <2>1, <2>2
       DEF ConsumerStep, TakeEvent, DropDuplicate, TakeUnchecked, UpdateJob, CreateRow,
           Recompute, WriteAggregate, StatementFails, LoseEvent, CrashConsumer
<1>4. ASSUME ReaperStep PROVE Goal
  BY <1>4, <1>a
     DEF ReaperStep, ScanPending, Demote, DemoteFails, ScanProcessing, ReaperRecompute,
         ReaperWrite, PassFails, SetFile
<1>5. CASE UNCHANGED file
  BY <1>5
<1> QED BY <1>1, <1>2, <1>3, <1>4, <1>5 DEF Next, Age, vars

(* The inductive invariant *)

\* A call that works on a job row has created or read it, and a call that marks a file
\* has sent its job; the idle, the new and the returned calls claim nothing.
LEMMA RequestsKeepJobs ==
  ASSUME Inductive, [Next]_vars
  PROVE  JobAllocated' /\ MarkedWasSent'
<1> USE DEF database, queues, history, actors, Inductive
<1> DEFINE Holding == {"send", "sendFailed", "mark", "cancelJob", "cancelFile"}
           Ok(q) == /\ request[q].pc \in Holding => request[q].job \in 1 .. Len(jobs)
                    /\ request[q].pc = "mark" => request[q].job \in sent
<1>a. Grows /\ Len(jobs) \in Nat
  BY HistoryGrows DEF TypeOK
<1>b. ASSUME NEW q \in Requests, request'[q] = request[q]
      PROVE  Ok(q)'
  BY <1>a, <1>b DEF Grows, JobAllocated, MarkedWasSent, TypeOK
<1>c. ASSUME NEW q \in Requests, request'[q].pc \notin Holding
      PROVE  Ok(q)'
  BY <1>c
<1>d. ASSUME NEW q \in Requests, request[q].pc \in Holding,
             request'[q].job = request[q].job, request'[q].pc # "mark"
      PROVE  Ok(q)'
  BY <1>a, <1>d DEF Grows, JobAllocated, TypeOK
<1>1. ASSUME NEW q \in Requests, RequestStep(q), NEW p \in Requests PROVE Ok(p)'
  <2>a. request \in [Requests -> Request] /\ request[q] \in Request
    BY DEF TypeOK
  <2>1. CASE p # q
    <3>1. request'[p] = request[p]
      BY <1>1, <2>1, <2>a
         DEF RequestStep, Load, CreateJob, CreateJobFails, Send, SendFails, MarkJobFailed,
             MarkPending, MarkTorrent, Retry, Cancel, CancelJob, CancelFile, Requeue,
             ResetFiles, ResetTorrent, LastStatementFails, UpdateFails, Goto, Return,
             NextFile
    <3> QED BY <3>1, <1>b
  <2>2. CASE p = q
    <3>1. CASE \/ Load(q) \/ CreateJobFails(q) \/ MarkJobFailed(q) \/ MarkPending(q)
               \/ MarkTorrent(q) \/ Retry(q) \/ CancelFile(q) \/ Requeue(q)
               \/ ResetFiles(q) \/ ResetTorrent(q) \/ LastStatementFails(q) \/ UpdateFails(q)
      <4>1. request'[q].pc \notin Holding
        BY <3>1, <2>a
           DEF Load, CreateJobFails, MarkJobFailed, MarkPending, MarkTorrent, Retry,
               CancelFile, Requeue, ResetFiles, ResetTorrent, LastStatementFails,
               UpdateFails, Goto, Return, NextFile, IdleRequest, Request
      <4> QED BY <4>1, <2>2, <1>c
    <3>2. CASE CreateJob(q)
      <4>1. /\ request'[q].pc = "send" /\ request'[q].job = Len(jobs) + 1
            /\ Len(jobs') = Len(jobs) + 1
        BY <3>2, <2>a DEF CreateJob, Request, TypeOK
      <4> QED BY <4>1, <2>2, <1>a
    <3>3. CASE Send(q)
      <4>1. /\ request'[q].pc = "mark" /\ request'[q].job = request[q].job
            /\ sent' = sent \cup {request[q].job} /\ jobs' = jobs
        BY <3>3, <2>a DEF Send, Goto, Request
      <4> QED BY <4>1, <2>2, <3>3 DEF Send, JobAllocated
    <3>4. CASE SendFails(q)
      <4>1. request'[q].pc = "sendFailed" /\ request'[q].job = request[q].job
        BY <3>4, <2>a DEF SendFails, Goto, Request
      <4> QED BY <4>1, <2>2, <3>4, <1>d DEF SendFails
    <3>5. CASE CancelJob(q)
      <4>1. request'[q].pc = "cancelFile" /\ request'[q].job = request[q].job
        BY <3>5, <2>a DEF CancelJob, Goto, Request
      <4> QED BY <4>1, <2>2, <3>5, <1>d DEF CancelJob
    <3>6. CASE Cancel(q)
      <4>1. request'[q].pc = "cancelJob" /\ request'[q].job \in 1 .. Len(jobs)
            /\ jobs' = jobs
        BY <3>6, <2>a DEF Cancel, Request
      <4> QED BY <4>1, <2>2
    <3> QED BY <1>1, <3>1, <3>2, <3>3, <3>4, <3>5, <3>6 DEF RequestStep
  <2> QED BY <2>1, <2>2
<1>2. ASSUME UNCHANGED request, NEW p \in Requests PROVE Ok(p)'
  BY <1>2, <1>b
<1>3. (\E q \in Requests : RequestStep(q)) \/ UNCHANGED request
  BY DEF Next, vars, Age, WorkerStep, TakeJob, ReportProgress, RunFails, RunSucceeds,
         PublishCompleted, AckJob, LoseJob, CrashWorker, ConsumerStep, TakeEvent,
         DropDuplicate, TakeUnchecked, UpdateJob, UpdateFile, CreateRow, Recompute,
         WriteAggregate, StatementFails, LoseEvent, CrashConsumer, ReaperStep,
         ScanPending, Demote, DemoteFails, ScanProcessing, ReaperRecompute, ReaperWrite,
         PassFails
<1>4. ASSUME NEW p \in Requests PROVE Ok(p)'
  BY <1>1, <1>2, <1>3
<1> QED BY <1>4 DEF JobAllocated, MarkedWasSent

\* The events a worker publishes are true, and the broker only repeats, loses or
\* delays them.
LEMMA EventsStayTruthful ==
  ASSUME Inductive, [Next]_vars
  PROVE  RunAllocated' /\ EventsTruthful' /\ Working'
<1> USE DEF database, queues, history, actors, Inductive
<1> DEFINE Queue == \A i \in 1 .. Len(eventQueue) : Truthful(eventQueue[i])
           Held == \A c \in Consumers :
                     consumer[c].pc # "idle" => Truthful(consumer[c].event)
<1>a. /\ Grows /\ Len(runs) \in Nat /\ eventQueue \in Seq(Event)
      /\ faults \in 0 .. MaxFaults
  BY HistoryGrows DEF TypeOK
<1>b. ASSUME NEW e, Truthful(e) PROVE Truthful(e)'
  BY <1>a, <1>b DEF Truthful, Grows
<1>c. ASSUME UNCHANGED worker PROVE RunAllocated'
  BY <1>a, <1>c DEF RunAllocated, Grows
<1>d. ASSUME UNCHANGED consumer PROVE Held' /\ Working'
  BY <1>b, <1>d DEF EventsTruthful, Working
<1>e. ASSUME UNCHANGED eventQueue PROVE Queue'
  BY <1>b, <1>e DEF EventsTruthful
<1>1. ASSUME NEW w \in Workers, WorkerStep(w)
      PROVE  RunAllocated' /\ EventsTruthful' /\ Working'
  <2>a. worker \in [Workers -> Worker \cup {Idle}]
    BY DEF TypeOK
  <2>1. UNCHANGED consumer
    BY <1>1 DEF WorkerStep, TakeJob, ReportProgress, RunFails, RunSucceeds,
                PublishCompleted, AckJob, LoseJob, CrashWorker
  <2>2. ASSUME NEW e \in Event, Truthful(e)', Publish(eventQueue, eventQueue', e)
        PROVE  Queue'
    <3>1. \A i \in 1 .. Len(eventQueue') :
            eventQueue'[i] = e \/ \E j \in 1 .. Len(eventQueue) : eventQueue'[i] = eventQueue[j]
      BY <2>2, <1>a, PublishType
    <3> QED BY <3>1, <2>2, <1>b DEF EventsTruthful
  <2>3. ASSUME worker[w].pc # "idle"
        PROVE  /\ worker[w] \in Worker
               /\ worker[w].run \in 1 .. Len(runs)
               /\ worker[w].pc = "encoded" => worker[w].run \in encoded
    BY <2>3, <2>a DEF RunAllocated, Idle
  <2>4. Queue'
    <3>1. CASE TakeJob(w)
      <4>0. PICK e : e = [type |-> "started", run |-> Len(runs) + 1, percent |-> 0]
        OBVIOUS
      <4>1. Len(runs') = Len(runs) + 1 /\ Len(runs) + 1 \in 1 .. MaxRuns
        BY <3>1, <1>a, BoundsAssumption DEF TakeJob, TypeOK
      <4>2. e \in Event /\ Truthful(e)'
        BY <4>0, <4>1, <1>a DEF Event, Truthful
      <4>3. Publish(eventQueue, eventQueue', e)
        BY <3>1, <4>0 DEF TakeJob
      <4> QED BY <4>2, <4>3, <2>2
    <3>2. CASE ReportProgress(w)
      <4>1. PICK p \in worker[w].left :
              Publish(eventQueue, eventQueue', WorkerEvent(w, "progress", p))
        BY <3>2 DEF ReportProgress
      <4>2. WorkerEvent(w, "progress", p) \in Event
        BY <3>2, <2>3, PercentsAssumption DEF ReportProgress, WorkerEvent, Event, Worker
      <4>3. Truthful(WorkerEvent(w, "progress", p))
        BY <3>2, <2>3 DEF ReportProgress, WorkerEvent, Truthful
      <4> QED BY <4>1, <4>2, <4>3, <1>b, <2>2
    <3>3. CASE RunFails(w)
      <4>1. WorkerEvent(w, "failed", 0) \in Event /\ Truthful(WorkerEvent(w, "failed", 0))
        BY <3>3, <2>3 DEF RunFails, WorkerEvent, Event, Worker, Truthful
      <4> QED BY <3>3, <4>1, <1>b, <2>2 DEF RunFails
    <3>4. CASE PublishCompleted(w)
      <4>1. /\ WorkerEvent(w, "completed", 0) \in Event
            /\ Truthful(WorkerEvent(w, "completed", 0))
        BY <3>4, <2>3 DEF PublishCompleted, WorkerEvent, Event, Worker, Truthful
      <4> QED BY <3>4, <4>1, <1>b, <2>2 DEF PublishCompleted
    <3>5. CASE UNCHANGED eventQueue
      BY <3>5, <1>e
    <3> QED
      BY <1>1, <3>1, <3>2, <3>3, <3>4, <3>5
         DEF WorkerStep, RunSucceeds, AckJob, LoseJob, CrashWorker
  <2>5. ASSUME NEW v \in Workers, worker'[v].pc # "idle"
        PROVE  /\ worker'[v].run \in 1 .. Len(runs')
               /\ worker'[v].pc = "encoded" => worker'[v].run \in encoded'
    <3>1. CASE v # w
      <4>1. worker'[v] = worker[v]
        BY <1>1, <3>1, <2>a
           DEF WorkerStep, TakeJob, ReportProgress, RunFails, RunSucceeds,
               PublishCompleted, AckJob, LoseJob, CrashWorker
      <4> QED BY <4>1, <2>5, <1>a DEF RunAllocated, Grows
    <3>2. CASE v = w /\ TakeJob(w)
      <4>1. /\ worker'[w].run = Len(runs) + 1 /\ worker'[w].pc = "running"
            /\ Len(runs') = Len(runs) + 1
        BY <3>2, <2>a DEF TakeJob, TypeOK
      <4> QED BY <4>1, <3>2, <1>a
    <3>3. CASE v = w /\ RunSucceeds(w)
      <4>1. worker'[w].run = worker[w].run /\ worker'[w].run \in encoded'
        BY <3>3, <2>a, <2>3 DEF RunSucceeds, Worker
      <4> QED BY <4>1, <3>3, <2>3 DEF RunSucceeds
    <3>4. CASE v = w /\ (AckJob(w) \/ CrashWorker(w))
      BY <3>4, <2>5, <2>a DEF AckJob, CrashWorker, Idle
    <3>5. CASE v = w /\ (ReportProgress(w) \/ RunFails(w) \/ PublishCompleted(w) \/ LoseJob(w))
      <4>1. worker[w].pc # "idle"
        BY <3>5 DEF ReportProgress, RunFails, PublishCompleted, LoseJob
      <4>2. /\ worker'[w].run = worker[w].run
            /\ worker'[w].pc = "encoded" => worker[w].pc = "encoded"
        BY <3>5, <4>1, <2>a, <2>3
           DEF ReportProgress, RunFails, PublishCompleted, LoseJob, Worker
      <4> QED BY <4>1, <4>2, <3>5, <2>3, <1>a DEF Grows
    <3> QED BY <1>1, <3>1, <3>2, <3>3, <3>4, <3>5 DEF WorkerStep
  <2> QED BY <2>1, <2>4, <2>5, <1>d DEF EventsTruthful, RunAllocated
<1>2. ASSUME NEW c \in Consumers, ConsumerStep(c)
      PROVE  RunAllocated' /\ EventsTruthful' /\ Working'
  <2>a. consumer \in [Consumers -> Consumer \cup {Idle}]
    BY DEF TypeOK
  <2>b. ASSUME eventQueue # <<>>
        PROVE  /\ Head(eventQueue) \in Event /\ Truthful(Head(eventQueue))
               /\ \A i \in 1 .. Len(Tail(eventQueue)) : Truthful(Tail(eventQueue)[i])
    <3>1. Head(eventQueue) = eventQueue[1] /\ 1 \in 1 .. Len(eventQueue)
      BY <2>b, <1>a
    <3>2. \A i \in 1 .. Len(Tail(eventQueue)) :
            i + 1 \in 1 .. Len(eventQueue) /\ Tail(eventQueue)[i] = eventQueue[i + 1]
      BY <2>b, <1>a
    <3> QED BY <3>1, <3>2, <1>a DEF EventsTruthful
  <2>c. ASSUME consumer[c].pc # "idle"
        PROVE  consumer[c] \in Consumer /\ Truthful(consumer[c].event)
    BY <2>c, <2>a DEF EventsTruthful, Idle
  <2>1. UNCHANGED worker
    BY <1>2 DEF ConsumerStep, TakeEvent, DropDuplicate, TakeUnchecked, UpdateJob,
                UpdateFile, CreateRow, Recompute, WriteAggregate, StatementFails,
                LoseEvent, CrashConsumer
  <2>2. Queue'
    <3>1. CASE TakeEvent(c) \/ DropDuplicate(c) \/ TakeUnchecked(c)
      BY <3>1, <2>b, <1>b DEF TakeEvent, DropDuplicate, TakeUnchecked
    <3>2. CASE LoseEvent(c)
      <4>1. consumer[c].event \in Event /\ Truthful(consumer[c].event)
        BY <3>2, <2>c DEF LoseEvent, Consumer
      <4>2. PICK e \in Event : e = consumer[c].event
        BY <4>1
      <4>3. eventQueue' = <<e>> \o eventQueue /\ <<e>> \in Seq(Event) /\ Len(<<e>>) = 1
        BY <3>2, <4>2 DEF LoseEvent
      <4>4. \A i \in 1 .. Len(eventQueue') :
              eventQueue'[i] = e
                \/ \E j \in 1 .. Len(eventQueue) : eventQueue'[i] = eventQueue[j]
        <5>1. /\ Len(eventQueue') = 1 + Len(eventQueue)
              /\ \A i \in 1 .. 1 + Len(eventQueue) :
                   eventQueue'[i] = IF i <= 1 THEN <<e>>[i] ELSE eventQueue[i - 1]
          BY <4>3, <1>a, ConcatProperties
        <5> SUFFICES ASSUME NEW i \in 1 .. Len(eventQueue')
                     PROVE  eventQueue'[i] = e
                              \/ \E j \in 1 .. Len(eventQueue) : eventQueue'[i] = eventQueue[j]
          OBVIOUS
        <5>2. CASE i = 1
          BY <5>1, <5>2, <1>a
        <5>3. CASE i # 1
          <6>1. i - 1 \in 1 .. Len(eventQueue) /\ eventQueue'[i] = eventQueue[i - 1]
            BY <5>1, <5>3, <1>a
          <6> QED BY <6>1
        <5> QED BY <5>2, <5>3
      <4> QED BY <4>1, <4>2, <4>4, <1>b DEF EventsTruthful
    <3>3. CASE UNCHANGED eventQueue
      BY <3>3, <1>e
    <3> QED
      BY <1>2, <3>1, <3>2, <3>3
         DEF ConsumerStep, UpdateJob, UpdateFile, CreateRow, Recompute, WriteAggregate,
             StatementFails, CrashConsumer
  <2> DEFINE Sound(d) ==
               /\ consumer[d].pc # "idle" => Truthful(consumer[d].event)
               /\ consumer[d].pc \in {"job", "file", "row"} => consumer[d].event.type # "progress"
               /\ consumer[d].pc = "row" => consumer[d].event.type = "completed"
  <2>3. ASSUME NEW d \in Consumers PROVE Sound(d)'
    <3>1. CASE consumer'[d] = consumer[d]
      BY <3>1, <1>b DEF EventsTruthful, Working
    <3>2. CASE consumer'[d].pc = "idle"
      BY <3>2
    <3>3. CASE d = c /\ (TakeEvent(c) \/ TakeUnchecked(c))
      <4>0. PICK e : e = Head(eventQueue)
        OBVIOUS
      <4>1. /\ consumer'[c].event = e
            /\ consumer'[c].pc = IF e.type = "progress" THEN "recompute" ELSE "job"
        BY <3>3, <4>0, <2>a DEF TakeEvent, TakeUnchecked, Start
      <4>2. Truthful(e)'
        BY <3>3, <4>0, <2>b, <1>b DEF TakeEvent, TakeUnchecked
      <4> QED BY <4>1, <4>2, <3>3
    <3>4. CASE d = c /\ consumer[c].pc # "idle" /\ consumer'[c].event = consumer[c].event
               /\ \/ consumer'[c].pc \in {"recompute", "write", consumer[c].pc}
                  \/ consumer'[c].pc = "file" /\ consumer[c].pc = "job"
                  \/ /\ consumer'[c].pc = "row" /\ consumer[c].pc = "file"
                     /\ consumer[c].event.type = "completed"
      BY <3>4, <2>c, <1>b DEF Working
    <3>5. ASSUME d = c, NEW pc, consumer[c].pc # "idle", Continue(c, pc)
          PROVE  consumer'[c].pc = pc /\ consumer'[c].event = consumer[c].event
      BY <3>5, <2>a, <2>c DEF Continue, Consumer
    <3>6. CASE d # c
      <4>1. consumer'[d] = consumer[d]
        BY <1>2, <3>6, <2>a
           DEF ConsumerStep, TakeEvent, DropDuplicate, TakeUnchecked, UpdateJob, UpdateFile,
               CreateRow, Recompute, WriteAggregate, StatementFails, LoseEvent,
               CrashConsumer, IgnoredFailure, ReturnedFailure, Start, Continue, Finish
      <4> QED BY <4>1, <3>1
    <3>7. CASE d = c /\ DropDuplicate(c)
      BY <3>7, <3>1 DEF DropDuplicate
    <3>8. CASE d = c /\ (UpdateJob(c) \/ UpdateFile(c) \/ CreateRow(c))
      BY <3>8, <3>4, <3>5 DEF UpdateJob, UpdateFile, CreateRow
    <3>9. CASE d = c /\ (Recompute(c) \/ LoseEvent(c))
      <4>1. consumer[c].pc # "idle"
        BY <3>9 DEF Recompute, LoseEvent
      <4>2. /\ consumer'[c].event = consumer[c].event
            /\ consumer'[c].pc \in {"write", consumer[c].pc}
        BY <3>9, <4>1, <2>a, <2>c DEF Recompute, LoseEvent, Consumer
      <4> QED BY <4>1, <4>2, <3>4, <3>9
    <3>10. CASE d = c /\ (WriteAggregate(c) \/ CrashConsumer(c))
      <4>1. consumer'[c].pc = "idle"
        BY <3>10, <2>a DEF WriteAggregate, CrashConsumer, Finish, Idle
      <4> QED BY <4>1, <3>2, <3>10
    <3>11. CASE d = c /\ StatementFails(c)
      <4>1. CASE IgnoredFailure(c)
        BY <4>1, <3>11, <3>4, <3>5 DEF IgnoredFailure
      <4>2. CASE ReturnedFailure(c)
        <5>1. consumer'[c].pc = "idle"
          BY <4>2, <2>a DEF ReturnedFailure, Finish, Idle
        <5> QED BY <5>1, <3>2, <3>11
      <4> QED BY <4>1, <4>2, <3>11 DEF StatementFails
    <3> QED
      BY <1>2, <3>3, <3>6, <3>7, <3>8, <3>9, <3>10, <3>11 DEF ConsumerStep
  <2> QED BY <2>1, <2>2, <2>3, <1>c DEF EventsTruthful, Working
<1>3. CASE UNCHANGED <<worker, consumer, eventQueue>>
  BY <1>3, <1>c, <1>d, <1>e DEF EventsTruthful
<1>4. ASSUME NEW q \in Requests, RequestStep(q) PROVE UNCHANGED <<worker, consumer, eventQueue>>
  BY <1>4
     DEF RequestStep, Load, CreateJob, CreateJobFails, Send, SendFails, MarkJobFailed,
         MarkPending, MarkTorrent, Retry, Cancel, CancelJob, CancelFile, Requeue,
         ResetFiles, ResetTorrent, LastStatementFails, UpdateFails
<1>5. ASSUME ReaperStep \/ UNCHANGED vars \/ \E f \in Files : Age(f)
      PROVE  UNCHANGED <<worker, consumer, eventQueue>>
  BY <1>5
     DEF ReaperStep, ScanPending, Demote, DemoteFails, ScanProcessing, ReaperRecompute,
         ReaperWrite, PassFails, Age, vars
<1> QED BY <1>1, <1>2, <1>3, <1>4, <1>5 DEF Next

\* The strengthening of the safety invariants: what the goroutines' local variables and
\* the events in flight say about the rows and the history holds in every state.
THEOREM InductiveInvariant == Spec => []Inductive
<1>1. Init => Inductive
  <2> SUFFICES ASSUME Init PROVE Inductive
    OBVIOUS
  <2>1. TypeOK
    BY TypeInit
  <2> QED
    BY <2>1
       DEF Init, Inductive, JobAllocated, MarkedWasSent, RunAllocated, EventsTruthful,
           Working, PendingWasSent, CompletedWasEncoded, IdleRequest, Idle
<1>2. Inductive /\ [Next]_vars => Inductive'
  <2> SUFFICES ASSUME Inductive, [Next]_vars PROVE Inductive'
    OBVIOUS
  <2>1. TypeOK'
    BY TypeNext DEF Inductive
  <2>2. JobAllocated' /\ MarkedWasSent'
    BY RequestsKeepJobs
  <2>3. RunAllocated' /\ EventsTruthful' /\ Working'
    BY EventsStayTruthful
  <2>4. PendingWasSent'
    <3> SUFFICES ASSUME NEW f \in Files, file'[f] = "Pending"
                 PROVE  \E j \in sent' : jobs'[j].file = f
      BY DEF PendingWasSent
    <3>1. \E j \in sent : jobs[j].file = f
      BY FileWrites DEF Inductive, PendingWasSent
    <3> QED BY <3>1, HistoryGrows DEF Grows, Inductive, TypeOK
  <2>5. CompletedWasEncoded'
    <3> SUFFICES ASSUME NEW f \in Files, file'[f] = "Completed"
                 PROVE  \E r \in encoded' : jobs'[runs'[r]].file = f
      BY DEF CompletedWasEncoded, Row
    <3>1. PICK r \in encoded : jobs[runs[r]].file = f
      BY FileWrites DEF Inductive, CompletedWasEncoded, Row
    <3>2. r \in 1 .. Len(runs) /\ runs[r] \in 1 .. Len(jobs)
      BY DEF Inductive, TypeOK
    <3> QED BY <3>1, <3>2, HistoryGrows DEF Grows
  <2> QED BY <2>1, <2>2, <2>3, <2>4, <2>5 DEF Inductive
<1> QED BY <1>1, <1>2, PTL DEF Spec

\* The type invariant of the pipeline.
THEOREM TypeCorrect == Spec => []TypeOK
BY InductiveInvariant, PTL DEF Inductive

\* No file row is Pending ahead of its message, for any number of concurrent calls
\* and any faults (CheckAndQueueTranscode and RetryTranscode send before they mark).
THEOREM SentBeforePending == Spec => []PendingWasSent
BY InductiveInvariant, PTL DEF Inductive

\* No file row is Completed without an encoded output of that file, whatever the
\* broker and Redis do to the events.
THEOREM EncodedBeforeCompleted == Spec => []CompletedWasEncoded
BY InductiveInvariant, PTL DEF Inductive

\* recomputeTranscodeProgress exceeds 100, against the comment on its column, only for a
\* progress event that is handled when no file is pending or being processed any more.
THEOREM OverrunIsLate ==
  Spec => [][\A c \in Consumers :
               Recompute(c) /\ consumer'[c].agg.progress > 100
                 => \A f \in Files : file[f] \notin MidStates]_vars
<1>1. ASSUME TypeOK, NEW c \in Consumers, Recompute(c), consumer'[c].agg.progress > 100
      PROVE  \A f \in Files : file[f] \notin MidStates
  <2>1. consumer[c] \in Consumer
    BY <1>1 DEF TypeOK, Recompute, Idle
  <2>2. CASE consumer[c].event.type = "progress"
    <3>1. consumer[c].event.percent \in 0 .. 100
      BY <2>1 DEF Consumer, Event
    <3>2. consumer'[c].agg.progress = OverallProgress(consumer[c].event.percent)
      BY <1>1, <2>1, <2>2 DEF Recompute, TypeOK, NoAggregate, Consumer
    <3>3. PICK p : p = OverallProgress(consumer[c].event.percent)
      OBVIOUS
    <3>4. p \in 0 .. 200 /\ (Some("Pending") \/ Some("Processing") => p <= 100)
      BY <3>1, <3>3, OverallProgressType
    <3>5. p > 100
      BY <1>1, <3>2, <3>3
    <3>6. ~ Some("Pending") /\ ~ Some("Processing")
      BY <3>4, <3>5
    <3> QED BY <3>6 DEF Some, MidStates
  <2>3. CASE consumer[c].event.type # "progress"
    <3>1. consumer'[c].agg = Recomputed
      BY <1>1, <2>1, <2>3 DEF Recompute, TypeOK, Consumer
    <3>2. Recomputed.progress \in {0, 100}
      BY DEF Recomputed
    <3> QED BY <1>1, <3>1, <3>2
  <2> QED BY <2>2, <2>3
<1>2. TypeOK /\ [Next]_vars
        => [\A c \in Consumers :
              Recompute(c) /\ consumer'[c].agg.progress > 100
                => \A f \in Files : file[f] \notin MidStates]_vars
  BY <1>1
<1> QED BY <1>2, TypeCorrect, PTL DEF Spec

\* The reaper's conditional update never overwrites a finished row.
THEOREM ReaperIsConditional == Spec => ReaperSparesFinished
<1>1. TypeOK /\ [Next]_vars
        => [ReaperStep => \A f \in Files : file[f] \notin MidStates => file'[f] = file[f]]_vars
  <2> SUFFICES ASSUME TypeOK, ReaperStep, NEW f \in Files, file[f] \notin MidStates
               PROVE  file'[f] = file[f]
    OBVIOUS
  <2>1. CASE Demote
    <3>1. PICK g \in reaper.stuck :
            \/ file[g] = reaper.pc /\ SetFile(g, "Failed")
            \/ UNCHANGED file
      BY <2>1 DEF Demote
    <3>2. reaper.pc \in MidStates
      BY <2>1 DEF Demote
    <3> QED BY <3>1, <3>2 DEF SetFile, TypeOK
  <2>2. CASE UNCHANGED file
    BY <2>2
  <2> QED
    BY <2>1, <2>2
       DEF ReaperStep, ScanPending, DemoteFails, ScanProcessing, ReaperRecompute,
           ReaperWrite, PassFails, database
<1> QED BY <1>1, TypeCorrect, PTL DEF Spec, ReaperSparesFinished

(* One row for each output, while Redis works *)

\* While Redis works, every step keeps the claim of the replica that won SETNX for a
\* completed event: it alone is on its way to the row of the output.
LEMMA RowsStayClaimed ==
  ASSUME "redis" \notin Faults, Inductive, RowClaimed, OneRowPerRun, [Next]_vars
  PROVE  RowClaimed' /\ OneRowPerRun'
<1> USE DEF database, queues, history, actors
<1>a. /\ consumer \in [Consumers -> Consumer \cup {Idle}]
      /\ derived \in [1 .. MaxRuns -> Nat] /\ encoded \subseteq encoded'
      /\ eventQueue \in Seq(Event)
  BY HistoryGrows DEF Grows, Inductive, TypeOK
\* The steps that create no row and bring no consumer closer to one.
<1>b. ASSUME UNCHANGED derived, seen \subseteq seen',
             \A c \in Consumers, r \in 1 .. MaxRuns :
               /\ Handling(c, r)' => Handling(c, r)
               /\ BeforeRow(c, r)' => BeforeRow(c, r)
      PROVE  RowClaimed' /\ OneRowPerRun'
  <2>1. RowClaimed'
    BY <1>b DEF RowClaimed, Completion
  <2> QED BY <1>a, <1>b, <2>1 DEF OneRowPerRun
<1>c. ASSUME UNCHANGED <<derived, seen, consumer>> PROVE RowClaimed' /\ OneRowPerRun'
  BY <1>b, <1>c DEF Handling, BeforeRow
<1>1. ASSUME NEW c \in Consumers, ConsumerStep(c) PROVE RowClaimed' /\ OneRowPerRun'
  <2>1. ASSUME NEW d \in Consumers, d # c PROVE consumer'[d] = consumer[d]
    BY <1>1, <2>1, <1>a
       DEF ConsumerStep, TakeEvent, DropDuplicate, TakeUnchecked, UpdateJob, UpdateFile,
           CreateRow, Recompute, WriteAggregate, StatementFails, LoseEvent, CrashConsumer,
           IgnoredFailure, ReturnedFailure, Start, Continue, Finish
  <2>a. ASSUME consumer[c].pc # "idle"
        PROVE  consumer[c] \in Consumer /\ Truthful(consumer[c].event)
    BY <2>a, <1>a DEF Inductive, EventsTruthful, Idle
  <2>2. ASSUME UNCHANGED derived, UNCHANGED seen,
               \/ consumer'[c].pc = "idle"
               \/ /\ consumer[c].pc # "idle" /\ consumer'[c].event = consumer[c].event
                  /\ \/ consumer[c].pc \in {"job", "file", "row"}
                     \/ consumer'[c].pc \notin {"job", "file", "row"}
        PROVE  RowClaimed' /\ OneRowPerRun'
    <3>1. ASSUME NEW d \in Consumers, NEW r \in 1 .. MaxRuns
          PROVE  /\ Handling(d, r)' => Handling(d, r)
                 /\ BeforeRow(d, r)' => BeforeRow(d, r)
      BY <2>1, <2>2 DEF Handling, BeforeRow
    <3> QED BY <2>2, <3>1, <1>b
  <2>3. CASE TakeEvent(c)
    <3>1. PICK e \in Event : e = Head(eventQueue)
      BY <2>3, <1>a DEF TakeEvent
    <3>2. /\ e \notin seen /\ seen' = seen \cup {e} /\ derived' = derived /\ encoded' = encoded
          /\ consumer'[c].event = e
      BY <2>3, <3>1, <1>a DEF TakeEvent, Start
    <3>3. ASSUME NEW r \in 1 .. MaxRuns, e = Completion(r)
          PROVE  derived[r] = 0 /\ \A d \in Consumers : ~ Handling(d, r)
      BY <3>2, <3>3 DEF RowClaimed
    <3>4. ASSUME NEW r \in 1 .. MaxRuns, Handling(c, r)' PROVE e = Completion(r)
      BY <3>2, <3>4 DEF Handling, Completion, Event
    <3>5. ASSUME NEW d \in Consumers, NEW r \in 1 .. MaxRuns, d # c
          PROVE  /\ Handling(d, r)' => Handling(d, r)
                 /\ BeforeRow(d, r)' => BeforeRow(d, r)
      BY <2>1, <3>5 DEF Handling, BeforeRow
    <3>6. ASSUME NEW r \in 1 .. MaxRuns
          PROVE  /\ derived'[r] # 0 => Completion(r)' \in seen'
                 /\ \A d \in Consumers : Handling(d, r)' => Completion(r)' \in seen'
      <4>1. Completion(r)' = Completion(r)
        BY DEF Completion
      <4> QED BY <4>1, <3>2, <3>4, <3>5 DEF RowClaimed
    <3>7. ASSUME NEW r \in 1 .. MaxRuns, NEW d1 \in Consumers, NEW d2 \in Consumers,
                 BeforeRow(d1, r)', BeforeRow(d2, r)'
          PROVE  d1 = d2
      <4>1. ASSUME NEW d \in Consumers, BeforeRow(d, r)', BeforeRow(c, r)' PROVE d = c
        BY <4>1, <3>3, <3>4, <3>5 DEF BeforeRow
      <4> QED BY <4>1, <3>5, <3>7 DEF RowClaimed
    <3>8. ASSUME NEW r \in 1 .. MaxRuns, NEW d \in Consumers, BeforeRow(d, r)'
          PROVE  derived'[r] = 0
      BY <3>2, <3>3, <3>4, <3>5, <3>8 DEF RowClaimed, BeforeRow
    <3>9. RowClaimed'
      BY <3>6, <3>7, <3>8 DEF RowClaimed
    <3> QED BY <3>2, <3>9 DEF OneRowPerRun
  <2>4. CASE DropDuplicate(c)
    BY <2>4, <1>c DEF DropDuplicate
  <2>5. CASE TakeUnchecked(c)
    BY <2>5 DEF TakeUnchecked, Fault
  <2>6. CASE CreateRow(c)
    <3>1. PICK r : r = consumer[c].event.run
      OBVIOUS
    <3>2. /\ r \in 1 .. MaxRuns /\ BeforeRow(c, r) /\ r \in encoded
      BY <2>6, <2>a, <3>1
         DEF CreateRow, BeforeRow, Handling, Inductive, Working, Truthful, Consumer, Event
    <3>3. /\ derived' = [derived EXCEPT ![r] = 1] /\ seen' = seen /\ encoded' = encoded
          /\ consumer'[c].pc = "recompute" /\ consumer'[c].event = consumer[c].event
      <4>1. derived[r] = 0
        BY <3>2 DEF RowClaimed
      <4>2. derived' = [derived EXCEPT ![r] = 1]
        BY <2>6, <3>1, <3>2, <4>1, <1>a DEF CreateRow
      <4> QED BY <2>6, <4>2, <2>a, <1>a DEF CreateRow, Continue, Consumer
    <3>4. ASSUME NEW d \in Consumers, NEW s \in 1 .. MaxRuns
          PROVE  /\ Handling(d, s)' => Handling(d, s)
                 /\ BeforeRow(d, s)' => BeforeRow(d, s) /\ d # c
      BY <2>1, <3>2, <3>3 DEF Handling, BeforeRow
    <3>5. ASSUME NEW d \in Consumers, BeforeRow(d, r)' PROVE FALSE
      BY <3>2, <3>4, <3>5 DEF RowClaimed
    <3>6. ASSUME NEW s \in 1 .. MaxRuns
          PROVE  /\ derived'[s] # 0 => Completion(s)' \in seen'
                 /\ \A d \in Consumers : Handling(d, s)' => Completion(s)' \in seen'
                 /\ \A d1, d2 \in Consumers : BeforeRow(d1, s)' /\ BeforeRow(d2, s)' => d1 = d2
                 /\ \A d \in Consumers : BeforeRow(d, s)' => derived'[s] = 0
      <4>1. Completion(s)' = Completion(s)
        BY DEF Completion
      <4>2. s # r => derived'[s] = derived[s]
        BY <3>2, <3>3, <1>a
      <4>3. s = r => Completion(s) \in seen
        BY <3>2 DEF RowClaimed, BeforeRow
      <4> QED BY <4>1, <4>2, <4>3, <3>3, <3>4, <3>5 DEF RowClaimed
    <3>7. RowClaimed'
      BY <3>6 DEF RowClaimed
    <3>8. OneRowPerRun'
      BY <3>2, <3>3, <1>a DEF OneRowPerRun
    <3> QED BY <3>7, <3>8
  <2>7. CASE UpdateJob(c) \/ UpdateFile(c) \/ Recompute(c) \/ LoseEvent(c)
    <3>1. consumer[c].pc # "idle"
      BY <2>7 DEF UpdateJob, UpdateFile, Recompute, LoseEvent
    <3>2. /\ consumer'[c].event = consumer[c].event
          /\ \/ consumer[c].pc \in {"job", "file", "row"}
             \/ consumer'[c].pc \notin {"job", "file", "row"}
      BY <2>7, <3>1, <2>a, <1>a
         DEF UpdateJob, UpdateFile, Recompute, LoseEvent, Continue, Consumer
    <3> QED
      BY <2>7, <3>1, <3>2, <2>2 DEF UpdateJob, UpdateFile, Recompute, LoseEvent
  <2>8. CASE WriteAggregate(c) \/ CrashConsumer(c)
    <3>1. consumer'[c].pc = "idle"
      BY <2>8, <1>a DEF WriteAggregate, CrashConsumer, Finish, Idle
    <3> QED BY <2>8, <3>1, <2>2 DEF WriteAggregate, CrashConsumer
  <2>9. CASE StatementFails(c)
    <3>1. CASE IgnoredFailure(c)
      <4>1. /\ consumer[c].pc \in {"job", "file"}
            /\ consumer'[c].event = consumer[c].event
        BY <3>1, <2>a, <1>a DEF IgnoredFailure, Continue, Consumer
      <4> QED BY <2>9, <4>1, <2>2 DEF StatementFails
    <3>2. CASE ReturnedFailure(c)
      <4>1. consumer'[c].pc = "idle"
        BY <3>2, <1>a DEF ReturnedFailure, Finish, Idle
      <4> QED BY <2>9, <4>1, <2>2 DEF StatementFails
    <3> QED BY <2>9, <3>1, <3>2 DEF StatementFails
  <2> QED
    BY <1>1, <2>3, <2>4, <2>5, <2>6, <2>7, <2>8, <2>9 DEF ConsumerStep
<1>2. (\E c \in Consumers : ConsumerStep(c)) \/ UNCHANGED <<derived, seen, consumer>>
  BY DEF Next, vars, Age, RequestStep, Load, CreateJob, CreateJobFails, Send, SendFails,
         MarkJobFailed, MarkPending, MarkTorrent, Retry, Cancel, CancelJob, CancelFile,
         Requeue, ResetFiles, ResetTorrent, LastStatementFails, UpdateFails, WorkerStep,
         TakeJob, ReportProgress, RunFails, RunSucceeds, PublishCompleted, AckJob, LoseJob,
         CrashWorker, ReaperStep, ScanPending, Demote, DemoteFails, ScanProcessing,
         ReaperRecompute, ReaperWrite, PassFails
<1> QED BY <1>1, <1>2, <1>c

\* While Redis answers and keeps the keys, a consumer is on its way to the row of a run
\* only with the event's key set, only one is, and none once the row is there.
THEOREM RowsClaimed ==
  ASSUME "redis" \notin Faults
  PROVE  Spec => [](RowClaimed /\ OneRowPerRun)
<1>1. Init => RowClaimed /\ OneRowPerRun
  BY DEF Init, RowClaimed, OneRowPerRun, Handling, BeforeRow, Idle
<1>2. Inductive /\ RowClaimed /\ OneRowPerRun /\ [Next]_vars => RowClaimed' /\ OneRowPerRun'
  BY RowsStayClaimed
<1> QED BY <1>1, <1>2, InductiveInvariant, PTL DEF Spec

\* Every output gets at most one row, for any number of replicas and workers and any
\* duplication or redelivery of its event, while Redis answers and keeps the keys.
THEOREM AtMostOneRow ==
  ASSUME "redis" \notin Faults
  PROVE  Spec => []OneRowPerRun
BY RowsClaimed, PTL

=============================================================================

---------------------------- MODULE CloudRequests ---------------------------
(***************************************************************************)
(* The requests that work on the cloud copies of a torrent:                *)
(* CheckAndQueueTranscode for the files that need no transcoding,          *)
(* RetryCloudUpload, RetryCloudUploadFile and DeleteLocalFiles, each split *)
(* at its database statements and its publications.                        *)
(***************************************************************************)
EXTENDS CloudState

Return(q) == request' = [request EXCEPT ![q] = [IdleRequest EXCEPT !.pc = "returned"]]

Call(q, kind) == request[q].pc = "idle" /\ kind \in Calls
ForceFlags == {b \in BOOLEAN : b => "force" \in Calls}

\* Every file of the torrent is sent, whatever its cloud status.
CheckTorrent(q) ==
  /\ Call(q, "check")
  /\ request' = [request EXCEPT ![q] = [IdleRequest EXCEPT !.pc = "send", !.todo = Files]]
  /\ UNCHANGED <<database, storage, queues, worker, consumer, reaper, forced, faults>>

\* shouldRetryCloudUploadFile. A row that is None has no cloud_path yet.
Retryable(force) ==
  {f \in Files : \/ status[f] \in {"None", "Failed"}
                 \/ status[f] \in MidStates /\ force}

RetryUploads(q) ==
  /\ Call(q, "retry")
  /\ \E force \in ForceFlags :
       request' = [request EXCEPT ![q] = [IdleRequest EXCEPT
                     !.pc = "send", !.kind = "retry", !.todo = Retryable(force),
                     !.copy = status, !.localDeleted = torrent.localDeleted]]
  /\ UNCHANGED <<database, storage, queues, worker, consumer, reaper, forced, faults>>

RetryOneUpload(q) ==
  /\ Call(q, "retryFile")
  /\ \E force \in ForceFlags : \E f \in Retryable(force) :
       request' = [request EXCEPT ![q] = [IdleRequest EXCEPT
                     !.pc = "send", !.kind = "retryFile", !.todo = {f},
                     !.copy = status, !.localDeleted = torrent.localDeleted]]
  /\ UNCHANGED <<database, storage, queues, worker, consumer, reaper, forced, faults>>

\* The message first; its file row only when Send succeeded.
SendUpload(q) ==
  /\ request[q].pc = "send"
  /\ \E f \in request[q].todo :
       /\ Publish(jobQueue, jobQueue', [file |-> f, retry |-> 0])
       /\ request' = [request EXCEPT ![q].pc = "mark", ![q].file = f, ![q].todo = @ \ {f}]
  /\ UNCHANGED <<database, storage, eventQueue, fileOps, backoff, worker, consumer,
                 reaper, forced>>

\* The file is skipped; the retry of one file returns the error.
SendFails(q) ==
  /\ request[q].pc = "send"
  /\ Fault("send")
  /\ \E f \in request[q].todo :
       IF request[q].kind = "retryFile"
       THEN Return(q)
       ELSE request' = [request EXCEPT ![q].todo = @ \ {f}]
  /\ UNCHANGED <<database, storage, queues, worker, consumer, reaper, forced>>

Marked(q) ==
  request' = [request EXCEPT ![q].pc = "send", ![q].retried = TRUE,
                             ![q].copy[request[q].file] = "Pending"]

MarkPending(q) ==
  /\ request[q].pc = "mark"
  /\ status' = [status EXCEPT ![request[q].file] = "Pending"]
  /\ Marked(q)
  /\ UNCHANGED <<torrent, storage, queues, worker, consumer, reaper, forced, faults>>

\* The error of the update is logged or ignored.
MarkFails(q) ==
  /\ request[q].pc = "mark"
  /\ Fault("database")
  /\ Marked(q)
  /\ UNCHANGED <<database, storage, queues, worker, consumer, reaper, forced>>

\* A retry ends with Save: the whole torrents row as it was read, except for the
\* summary, which is computed from the copy of the file rows.
SaveTorrent(q) ==
  /\ request[q].pc = "send" /\ request[q].todo = {}
  /\ Return(q)
  /\ torrent' = IF request[q].kind = "check" THEN torrent
                ELSE [cloud |-> IF request[q].retried THEN "Pending"
                                ELSE Summary(request[q].copy),
                      localDeleted |-> request[q].localDeleted]
  /\ UNCHANGED <<status, storage, queues, worker, consumer, reaper, forced, faults>>

SaveFails(q) ==
  /\ request[q].pc = "send" /\ request[q].todo = {} /\ request[q].kind # "check"
  /\ Fault("database")
  /\ Return(q)
  /\ UNCHANGED <<database, storage, queues, worker, consumer, reaper, forced>>

-----------------------------------------------------------------------------
(* DeleteLocalFiles *)

\* Mutant of SafeToDelete: an upload on its way is as good as a finished one.
SafeUnlessFailed == \A f \in Files : status[f] \notin {"None", "Failed"}

\* The statuses are read once. None and Failed are as unsafe as the mid-states.
SafeToDelete == \A f \in Files : status[f] = "Completed"

BeginDelete(q) ==
  /\ Call(q, "delete")
  /\ ~ torrent.localDeleted
  /\ \E force \in ForceFlags :
       /\ force \/ SafeToDelete
       /\ forced' = (forced \/ force)
  /\ request' = [request EXCEPT ![q] = [IdleRequest EXCEPT !.pc = "dispatch", !.kind = "delete"]]
  /\ UNCHANGED <<database, storage, queues, worker, consumer, reaper, faults>>

\* publishFileOp ignores the error of Send.
DispatchDelete(q) ==
  /\ request[q].pc = "dispatch"
  /\ request' = [request EXCEPT ![q].pc = "flag"]
  /\ \/ fileOps' = fileOps + 1 /\ UNCHANGED faults
     \/ fileOps' = fileOps /\ (Fault("lost") \/ Fault("send"))
  /\ UNCHANGED <<database, storage, jobQueue, eventQueue, backoff, worker, consumer,
                 reaper, forced>>

FlagDeleted(q) ==
  /\ request[q].pc = "flag"
  /\ torrent' = [torrent EXCEPT !.localDeleted = TRUE]
  /\ Return(q)
  /\ UNCHANGED <<status, storage, queues, worker, consumer, reaper, forced, faults>>

FlagFails(q) ==
  /\ request[q].pc = "flag"
  /\ Fault("database")
  /\ Return(q)
  /\ UNCHANGED <<database, storage, queues, worker, consumer, reaper, forced>>

RequestStep(q) ==
  \/ CheckTorrent(q) \/ RetryUploads(q) \/ RetryOneUpload(q)
  \/ SendUpload(q) \/ SendFails(q) \/ MarkPending(q) \/ MarkFails(q)
  \/ SaveTorrent(q) \/ SaveFails(q)
  \/ BeginDelete(q) \/ DispatchDelete(q) \/ FlagDeleted(q) \/ FlagFails(q)

=============================================================================

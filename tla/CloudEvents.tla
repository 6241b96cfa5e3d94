----------------------------- MODULE CloudEvents ----------------------------
(***************************************************************************)
(* The server: WorkerEventProcessor's handlers of the cloud upload events, *)
(* and the reaper's passes over cloud_upload_status.                       *)
(***************************************************************************)
EXTENDS CloudState

Start(c) == consumer' = [consumer EXCEPT
                           ![c] = [pc |-> "file", event |-> Head(eventQueue), cloud |-> "None"]]

TakeEvent(c) ==
  /\ consumer[c].pc = "idle"
  /\ eventQueue # <<>>
  /\ Start(c)
  /\ eventQueue' = Tail(eventQueue)
  /\ UNCHANGED <<database, storage, jobQueue, fileOps, backoff, request, worker,
                 reaper, forced, faults>>

\* The event is handled, and will be delivered and handled again.
TakeEventTwice(c) ==
  /\ consumer[c].pc = "idle"
  /\ eventQueue # <<>>
  /\ Fault("redis")
  /\ Start(c)
  /\ UNCHANGED <<database, storage, queues, request, worker, reaper, forced>>

StatusOf(e) == CASE e.type = "started"   -> "Uploading"
                 [] e.type = "completed" -> "Completed"
                 [] e.type = "failed"    -> "Failed"

\* The update has no condition, and its error is ignored.
UpdateFile(c) ==
  /\ consumer[c].pc = "file"
  /\ LET e == consumer[c].event
     IN \/ status' = [status EXCEPT ![e.file] = StatusOf(e)] /\ UNCHANGED faults
        \/ UNCHANGED status /\ Fault("database")
  /\ consumer' = [consumer EXCEPT ![c].pc = "recompute"]
  /\ UNCHANGED <<torrent, storage, queues, request, worker, reaper, forced>>

\* recomputeCloudStatus: the read of the file rows, then the write.
Recompute(c) ==
  /\ consumer[c].pc = "recompute"
  /\ consumer' = [consumer EXCEPT ![c].pc = "write", ![c].cloud = Summary(status)]
  /\ UNCHANGED <<database, storage, queues, request, worker, reaper, forced, faults>>

WriteSummary(c) ==
  /\ consumer[c].pc = "write"
  /\ torrent' = [torrent EXCEPT !.cloud = consumer[c].cloud]
  /\ consumer' = [consumer EXCEPT ![c] = Idle]
  /\ UNCHANGED <<status, storage, queues, request, worker, reaper, forced, faults>>

\* A crash, or a statement of recomputeCloudStatus fails.
StopConsumer(c) ==
  /\ \/ consumer[c].pc # "idle" /\ Fault("consumer")
     \/ consumer[c].pc \in {"recompute", "write"} /\ Fault("database")
  /\ consumer' = [consumer EXCEPT ![c] = Idle]
  /\ UNCHANGED <<database, storage, queues, request, worker, reaper, forced>>

ConsumerStep(c) ==
  \/ TakeEvent(c) \/ TakeEventTwice(c) \/ UpdateFile(c) \/ Recompute(c)
  \/ WriteSummary(c) \/ StopConsumer(c)

\* The reaper's conditional update of a row it found in a mid-state.
Demote(f) ==
  /\ reaper.pc \in {"idle", "demoted"}
  /\ status[f] \in MidStates
  /\ status' = [status EXCEPT ![f] = "Failed"]
  /\ reaper' = [reaper EXCEPT !.pc = "demoted"]
  /\ UNCHANGED <<torrent, storage, queues, request, worker, consumer, forced, faults>>

ReaperRecompute ==
  /\ reaper.pc = "demoted"
  /\ reaper' = [pc |-> "write", cloud |-> Summary(status)]
  /\ UNCHANGED <<database, storage, queues, request, worker, consumer, forced, faults>>

ReaperWrite ==
  /\ reaper.pc = "write"
  /\ torrent' = [torrent EXCEPT !.cloud = reaper.cloud]
  /\ reaper' = IdleReaper
  /\ UNCHANGED <<status, storage, queues, request, worker, consumer, forced, faults>>

\* A server crashes, or a later scan of the pass or a statement of
\* recomputeCloudStatus fails.
StopReaper ==
  /\ reaper.pc # "idle"
  /\ Fault("consumer") \/ Fault("database")
  /\ reaper' = IdleReaper
  /\ UNCHANGED <<database, storage, queues, request, worker, consumer, forced>>

=============================================================================

--------------------------- MODULE EventProcessor ---------------------------
(***************************************************************************)
(* WorkerEventProcessor on the server replicas: the handlers of the        *)
(* transcode events, each split at its database statements.                *)
(***************************************************************************)
EXTENDS TranscodeState

Continue(c, pc) == consumer' = [consumer EXCEPT ![c].pc = pc]
Finish(c) == consumer' = [consumer EXCEPT ![c] = Idle]

Start(c, e) ==
  consumer' = [consumer EXCEPT
                 ![c] = [pc |-> IF e.type = "progress" THEN "recompute" ELSE "job",
                         event |-> e, agg |-> NoAggregate, held |-> TRUE]]

\* Mutant of TakeEvent: the key is looked up and not set.
TakeEventWithoutKey(c) ==
  /\ consumer[c].pc = "idle"
  /\ eventQueue # <<>> /\ Head(eventQueue) \notin seen
  /\ Start(c, Head(eventQueue))
  /\ eventQueue' = Tail(eventQueue)
  /\ UNCHANGED <<database, jobQueue, seen, request, worker, reaper, history, faults>>

\* Handle sets the idempotency key of the event before it calls its handler.
TakeEvent(c) ==
  /\ consumer[c].pc = "idle"
  /\ eventQueue # <<>> /\ Head(eventQueue) \notin seen
  /\ Start(c, Head(eventQueue))
  /\ seen' = seen \cup {Head(eventQueue)}
  /\ eventQueue' = Tail(eventQueue)
  /\ UNCHANGED <<database, jobQueue, request, worker, reaper, history, faults>>

\* An event whose key is there is acknowledged and dropped.
DropDuplicate(c) ==
  /\ consumer[c].pc = "idle"
  /\ eventQueue # <<>> /\ Head(eventQueue) \in seen
  /\ eventQueue' = Tail(eventQueue)
  /\ UNCHANGED <<database, jobQueue, seen, actors, history, faults>>

\* Redis does not answer, or the key has expired: the event is handled.
TakeUnchecked(c) ==
  /\ consumer[c].pc = "idle"
  /\ eventQueue # <<>>
  /\ Fault("redis")
  /\ Start(c, Head(eventQueue))
  /\ eventQueue' = Tail(eventQueue)
  /\ UNCHANGED <<database, jobQueue, seen, request, worker, reaper, history>>

\* The status a handler gives to the job and file rows, whatever they hold.
StatusOf(e) == CASE e.type = "started"   -> "Processing"
                 [] e.type = "completed" -> "Completed"
                 [] e.type = "failed"    -> "Failed"

UpdateJob(c) ==
  /\ consumer[c].pc = "job"
  /\ SetJob(runs[consumer[c].event.run], StatusOf(consumer[c].event))
  /\ Continue(c, "file")
  /\ UNCHANGED <<file, stale, torrent, derived, queues, request, worker, reaper,
                 history, faults>>

\* Mutant of UpdateFile: the row of an output is created whatever the event.
UpdateFileAndCreate(c) ==
  /\ consumer[c].pc = "file"
  /\ LET e == consumer[c].event
     IN SetFile(Row(e.run), StatusOf(e)) /\ Continue(c, "row")
  /\ UNCHANGED <<jobs, torrent, derived, queues, request, worker, reaper,
                 history, faults>>

UpdateFile(c) ==
  /\ consumer[c].pc = "file"
  /\ LET e == consumer[c].event
     IN /\ SetFile(Row(e.run), StatusOf(e))
        /\ Continue(c, IF e.type = "completed" THEN "row" ELSE "recompute")
  /\ UNCHANGED <<jobs, torrent, derived, queues, request, worker, reaper,
                 history, faults>>

\* Mutant of CreateRow: the loop does not stop at an attempt that succeeds.
CreateRowAgain(c) ==
  /\ consumer[c].pc = "row"
  /\ derived' = [derived EXCEPT ![consumer[c].event.run] = @ + 1]
  /\ Continue(c, IF derived[consumer[c].event.run] < 4 THEN "row" ELSE "recompute")
  /\ UNCHANGED <<file, stale, jobs, torrent, queues, request, worker, reaper,
                 history, faults>>

\* createTranscodedFileWithRetry, a transaction for this module; DerivedRows
\* models the index that it chooses.
CreateRow(c) ==
  /\ consumer[c].pc = "row"
  /\ derived' = [derived EXCEPT ![consumer[c].event.run] = @ + 1]
  /\ Continue(c, "recompute")
  /\ UNCHANGED <<file, stale, jobs, torrent, queues, request, worker, reaper,
                 history, faults>>

\* The read of the file rows, then the write of the torrents row.
Recompute(c) ==
  /\ consumer[c].pc = "recompute"
  /\ consumer' = [consumer EXCEPT
                    ![c].pc = "write",
                    ![c].agg = IF consumer[c].event.type = "progress"
                               THEN [NoAggregate EXCEPT
                                       !.progress = OverallProgress(consumer[c].event.percent)]
                               ELSE Recomputed]
  /\ UNCHANGED <<database, queues, request, worker, reaper, history, faults>>

WriteAggregate(c) ==
  /\ consumer[c].pc = "write"
  /\ torrent' = IF consumer[c].event.type = "progress"
                THEN [torrent EXCEPT !.progress = consumer[c].agg.progress]
                ELSE consumer[c].agg
  /\ Finish(c)
  /\ UNCHANGED <<file, stale, jobs, derived, queues, request, worker, reaper,
                 history, faults>>

\* A statement fails. Its error is ignored in some places; in the others the
\* handler returns it, and the event is acknowledged all the same.
IgnoredFailure(c) ==
  \/ consumer[c].pc = "job" /\ consumer[c].event.type = "failed" /\ Continue(c, "file")
  \/ consumer[c].pc = "file" /\ consumer[c].event.type # "completed"
       /\ Continue(c, "recompute")

ReturnedFailure(c) ==
  /\ \/ consumer[c].pc \in {"row", "recompute", "write"}
     \/ consumer[c].pc = "job" /\ consumer[c].event.type # "failed"
     \/ consumer[c].pc = "file" /\ consumer[c].event.type = "completed"
  /\ Finish(c)

StatementFails(c) ==
  /\ Fault("database")
  /\ IgnoredFailure(c) \/ ReturnedFailure(c)
  /\ UNCHANGED <<database, queues, request, worker, reaper, history>>

\* The connection is lost: the broker returns the event to its queue while the
\* handler goes on.
LoseEvent(c) ==
  /\ consumer[c].pc # "idle" /\ consumer[c].held
  /\ Fault("connection")
  /\ consumer' = [consumer EXCEPT ![c].held = FALSE]
  /\ eventQueue' = <<consumer[c].event>> \o eventQueue
  /\ UNCHANGED <<database, jobQueue, seen, request, worker, reaper, history>>

\* A crash is a lost connection that the handler does not survive.
CrashConsumer(c) ==
  /\ consumer[c].pc # "idle" /\ ~ consumer[c].held
  /\ Finish(c)
  /\ UNCHANGED <<database, queues, request, worker, reaper, history, faults>>

ConsumerStep(c) ==
  \/ TakeEvent(c) \/ DropDuplicate(c) \/ TakeUnchecked(c)
  \/ UpdateJob(c) \/ UpdateFile(c) \/ CreateRow(c)
  \/ Recompute(c) \/ WriteAggregate(c)
  \/ StatementFails(c) \/ LoseEvent(c) \/ CrashConsumer(c)

=============================================================================

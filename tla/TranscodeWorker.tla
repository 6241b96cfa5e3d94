-------------------------- MODULE TranscodeWorker ---------------------------
(***************************************************************************)
(* TranscodeHandler on the workers: every delivery of a message is a run   *)
(* of the whole job, which publishes its events with fresh ids through the *)
(* gateway. An error of a publication is logged or ignored: for the queue  *)
(* it is a lost message.                                                   *)
(***************************************************************************)
EXTENDS TranscodeState

\* Mutant of WorkerEvent: an event of the previous run.
PreviousRunEvent(w, type, percent) ==
  [type |-> type, run |-> worker[w].run - 1, percent |-> percent]

WorkerEvent(w, type, percent) ==
  [type |-> type, run |-> worker[w].run, percent |-> percent]

\* A delivery starts, and its started event is published at once.
TakeJob(w) ==
  /\ worker[w].pc = "idle"
  /\ jobQueue # <<>>
  /\ Len(runs) < MaxRuns
  /\ jobQueue' = Tail(jobQueue)
  /\ runs' = Append(runs, Head(jobQueue))
  /\ worker' = [worker EXCEPT ![w] = [pc |-> "running", run |-> Len(runs) + 1,
                                      left |-> Percents, held |-> TRUE]]
  /\ Publish(eventQueue, eventQueue',
             [type |-> "started", run |-> Len(runs) + 1, percent |-> 0])
  /\ UNCHANGED <<database, seen, request, consumer, reaper, sent, encoded>>

\* ffmpeg's progress callback; the throttle may skip any value.
ReportProgress(w) ==
  /\ worker[w].pc = "running"
  /\ \E p \in worker[w].left :
       /\ worker' = [worker EXCEPT ![w].left = {x \in @ : x > p}]
       /\ Publish(eventQueue, eventQueue', WorkerEvent(w, "progress", p))
  /\ UNCHANGED <<database, jobQueue, seen, request, consumer, reaper, history>>

\* Mutant of RunFails: no return after failJob.
RunFailsAndGoesOn(w) ==
  /\ worker[w].pc = "running"
  /\ worker' = [worker EXCEPT ![w].pc = "done"]
  /\ eventQueue' = eventQueue \o <<WorkerEvent(w, "failed", 0), WorkerEvent(w, "completed", 0)>>
  /\ UNCHANGED <<database, jobQueue, seen, request, consumer, reaper, history, faults>>

\* The input file is missing, or ffmpeg fails.
RunFails(w) ==
  /\ worker[w].pc = "running"
  /\ worker' = [worker EXCEPT ![w].pc = "done"]
  /\ Publish(eventQueue, eventQueue', WorkerEvent(w, "failed", 0))
  /\ UNCHANGED <<database, jobQueue, seen, request, consumer, reaper, history>>

RunSucceeds(w) ==
  /\ worker[w].pc = "running"
  /\ worker' = [worker EXCEPT ![w].pc = "encoded"]
  /\ encoded' = encoded \cup {worker[w].run}
  /\ UNCHANGED <<database, queues, request, consumer, reaper, runs, sent, faults>>

PublishCompleted(w) ==
  /\ worker[w].pc = "encoded"
  /\ worker' = [worker EXCEPT ![w].pc = "done"]
  /\ Publish(eventQueue, eventQueue', WorkerEvent(w, "completed", 0))
  /\ UNCHANGED <<database, jobQueue, seen, request, consumer, reaper, history>>

\* Success and failure are both acknowledged.
AckJob(w) ==
  /\ worker[w].pc = "done"
  /\ worker' = [worker EXCEPT ![w] = Idle]
  /\ UNCHANGED <<database, queues, request, consumer, reaper, history, faults>>

\* The connection is lost: the broker returns the message to its queue while
\* the handler goes on, whose later acknowledgement has no effect.
LoseJob(w) ==
  /\ worker[w].pc # "idle" /\ worker[w].held
  /\ Fault("connection")
  /\ worker' = [worker EXCEPT ![w].held = FALSE]
  /\ jobQueue' = <<runs[worker[w].run]>> \o jobQueue
  /\ UNCHANGED <<database, eventQueue, seen, request, consumer, reaper, history>>

\* A crash is a lost connection that the handler does not survive.
CrashWorker(w) ==
  /\ worker[w].pc # "idle" /\ ~ worker[w].held
  /\ worker' = [worker EXCEPT ![w] = Idle]
  /\ UNCHANGED <<database, queues, request, consumer, reaper, history, faults>>

WorkerStep(w) ==
  \/ TakeJob(w) \/ ReportProgress(w) \/ RunFails(w) \/ RunSucceeds(w)
  \/ PublishCompleted(w) \/ AckJob(w) \/ LoseJob(w) \/ CrashWorker(w)

=============================================================================

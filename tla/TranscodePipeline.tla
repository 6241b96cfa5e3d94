------------------------- MODULE TranscodePipeline --------------------------
(***************************************************************************)
(* The transcode path of one completed torrent: the service that           *)
(* dispatches jobs, the workers that run them, the server replicas that    *)
(* apply the workers' events, and the reaper, over the shared database and *)
(* broker of TranscodeState.                                               *)
(***************************************************************************)
EXTENDS TranscodeService, TranscodeWorker, EventProcessor, Reaper

Init ==
  /\ file = [f \in Files |-> "None"]
  /\ stale = [f \in Files |-> FALSE]
  /\ jobs = <<>>
  /\ torrent = NoAggregate
  /\ derived = [r \in 1 .. MaxRuns |-> 0]
  /\ jobQueue = <<>>
  /\ eventQueue = <<>>
  /\ seen = {}
  /\ request = [q \in Requests |-> IdleRequest]
  /\ worker = [w \in Workers |-> Idle]
  /\ consumer = [c \in Consumers |-> Idle]
  /\ reaper = IdleReaper
  /\ runs = <<>>
  /\ sent = {}
  /\ encoded = {}
  /\ faults = 0

Next ==
  \/ \E q \in Requests : RequestStep(q)
  \/ \E w \in Workers : WorkerStep(w)
  \/ \E c \in Consumers : ConsumerStep(c)
  \/ \E f \in Files : Age(f)
  \/ ReaperStep

Spec == Init /\ [][Next]_vars

-----------------------------------------------------------------------------
(* Safety *)

\* A file row is Pending only if a job for it was handed to the broker before
\* (the "send first, then mark file Pending" order of CheckAndQueueTranscode and
\* RetryTranscode), whatever several calls do concurrently and whichever
\* statement or Send fails.
PendingWasSent ==
  \A f \in Files : file[f] = "Pending" => \E j \in sent : jobs[j].file = f

\* A file row says Completed only if ffmpeg wrote an output for that very file:
\* no mixture of duplicated, redelivered or late events of several jobs and runs
\* credits a success to another file, or a failed run with a success.
CompletedWasEncoded ==
  \A f \in Files : file[f] = "Completed" => \E r \in encoded : Row(r) = f

\* The output of a run gets at most one torrent_files row, and none before it
\* exists, although its completed event may be duplicated by the producer,
\* redelivered after a lost connection, and taken by two replicas: isDuplicate's
\* SETNX decides which one handles it. (While Redis answers and keeps the keys.)
OneRowPerRun ==
  \A r \in 1 .. MaxRuns : derived[r] = 0 \/ (derived[r] = 1 /\ r \in encoded)

\* The reaper never takes a success away: between its scan and its update a
\* completed event may be applied, and then the condition of scanAndDemote's
\* update leaves the row alone.
ReaperSparesFinished ==
  [][ReaperStep => \A f \in Files : file[f] \notin MidStates => file'[f] = file[f]]_vars

-----------------------------------------------------------------------------
(* The inductive invariant behind the theorems: what the messages in flight and *)
(* the goroutines' local variables say about the rows and the history.          *)

JobAllocated ==
  \A q \in Requests :
    request[q].pc \in {"send", "sendFailed", "mark", "cancelJob", "cancelFile"}
      => request[q].job \in 1 .. Len(jobs)

MarkedWasSent ==
  \A q \in Requests : request[q].pc = "mark" => request[q].job \in sent

RunAllocated ==
  \A w \in Workers :
    worker[w].pc # "idle" => /\ worker[w].run \in 1 .. Len(runs)
                             /\ worker[w].pc = "encoded" => worker[w].run \in encoded

\* A completed event speaks of an output that exists.
Truthful(e) == /\ e.run \in 1 .. Len(runs)
               /\ e.type = "completed" => e.run \in encoded

EventsTruthful ==
  /\ \A i \in 1 .. Len(eventQueue) : Truthful(eventQueue[i])
  /\ \A c \in Consumers : consumer[c].pc # "idle" => Truthful(consumer[c].event)

\* The statements of a handler are those of its event's type.
Working ==
  \A c \in Consumers :
    /\ consumer[c].pc \in {"job", "file", "row"} => consumer[c].event.type # "progress"
    /\ consumer[c].pc = "row" => consumer[c].event.type = "completed"

Handling(c, r) == /\ consumer[c].pc # "idle"
                  /\ consumer[c].event.type = "completed"
                  /\ consumer[c].event.run = r

BeforeRow(c, r) == Handling(c, r) /\ consumer[c].pc \in {"job", "file", "row"}

Completion(r) == [type |-> "completed", run |-> r, percent |-> 0]

\* One consumer at a time is on its way to the row of a run, and none once the
\* row is there.
RowClaimed ==
  \A r \in 1 .. MaxRuns :
    /\ derived[r] # 0 => Completion(r) \in seen
    /\ \A c \in Consumers : Handling(c, r) => Completion(r) \in seen
    /\ \A c, d \in Consumers : BeforeRow(c, r) /\ BeforeRow(d, r) => c = d
    /\ \A c \in Consumers : BeforeRow(c, r) => derived[r] = 0

Inductive == /\ TypeOK
             /\ JobAllocated
             /\ MarkedWasSent
             /\ RunAllocated
             /\ EventsTruthful
             /\ Working
             /\ PendingWasSent
             /\ CompletedWasEncoded

-----------------------------------------------------------------------------
(* Liveness *)

\* The reaper's goroutine runs as long as its server, and time passes.
ReaperFairness ==
  /\ \A f \in Files : WF_vars(Age(f))
  /\ WF_vars(ScanPending) /\ WF_vars(Demote) /\ WF_vars(ScanProcessing)
  /\ WF_vars(ReaperRecompute) /\ WF_vars(ReaperWrite)

FairSpec == Spec /\ ReaperFairness

\* No row stays Pending or Processing for ever, whatever crashes and whichever
\* messages are lost: workers, consumers and requests owe nothing here.
MidStatesResolve ==
  \A f \in Files : file[f] \in MidStates ~> file[f] \notin MidStates

=============================================================================

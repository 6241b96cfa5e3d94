---------------------------- MODULE DownloadState ---------------------------
(***************************************************************************)
(* The state behind the download of one torrent: its torrents row, the     *)
(* commands and events in their queues, and the local state of the         *)
(* workers and of the calls.                                               *)
(*                                                                         *)
(* A status of the torrent client is completed or not; percentages, the    *)
(* selection of files, speed, peers and the progress cached in Redis are   *)
(* left out. A worker is a machine: its files survive a restart of its     *)
(* process, which may come with a new identity.                            *)
(***************************************************************************)
EXTENDS Naturals, Sequences, FiniteSets

CONSTANTS
  Machines,    \* the workers
  Requests,    \* calls of the endpoints
  Kinds,       \* the kinds of calls that are made, a subset of AllKinds
  Faults,      \* the kinds of faults that may happen, a subset of AllFaults
  MaxFaults,   \* bound on the number of faults
  MaxCalls,    \* bound on the number of calls
  MaxCommands, \* bound on the commands in flight when a call begins
  MaxEvents,   \* bound on the events in flight when progress is reported
  StableIds,   \* WORKER_ID is configured; otherwise every process makes one up
  NoWorker     \* the empty worker id

AllKinds == {"start", "pause", "resume", "remove", "stop_seed", "resume_seed"}

AllFaults ==
  {"crash",      \* a worker stops; it is started again
   "restart",    \* the server stops and is started again, with nothing in hand
   "send",       \* Send of a command returns an error
   "event",      \* an event is not published; the error is ignored
   "connection", \* a worker loses its connection to the broker
   "database",   \* a statement of a call fails
   "redis",      \* a heartbeat is not recorded
   "parse"}      \* ParseMagnet or StartDownload fails on a worker

\* Those from which the code means to recover, and those that it logs at most.
LossyFaults == AllFaults \ {"crash", "restart", "parse"}

ASSUME FlagAssumption == StableIds \in BOOLEAN
ASSUME KindsAssumption == Kinds \subseteq AllKinds /\ Faults \subseteq AllFaults
ASSUME BoundsAssumption == {MaxCalls, MaxCommands, MaxFaults} \subseteq Nat /\ MaxEvents \in Nat
ASSUME NoWorkerAssumption == NoWorker \notin Machines \X Nat

VARIABLES
  row,       \* the torrents row
  commands,  \* download-jobs
  events,    \* worker-events
  loading,   \* RedispatchActiveTorrents that have not read the row yet: the worker
             \* of a first heartbeat, or NoWorker at the server's startup
  sending,   \* those that have: the worker the command will be for
  worker,    \* local state of the workers' processes
  disk,      \* the workers with all of the selected files on their disks
  request,   \* local state of the calls
  calls,     \* the number of calls so far
  faults,    \* the number of faults, and whether one of them was a lossy one
  crowded,   \* history: a command was sent, a call begun, or a failure written to the
             \* row, while something else was under way
  loose,     \* history: a command besides the first start, or the first start again, went
             \* to whatever worker would take it
  hollow     \* history: a call wrote Completed to the row when no worker had the files

history == <<crowded, loose, hollow>>
vars == <<row, commands, events, loading, sending, worker, disk, request, calls,
          faults, crowded, loose, hollow>>

-----------------------------------------------------------------------------
(* Types *)

\* A process is identified by its machine, and if it made its id up by a number.
Selves == IF StableIds THEN {0} ELSE 0 .. MaxFaults
Ids == Machines \X Selves
WorkerId(m) == <<m, worker[m].self>>
Owner == Ids \cup {NoWorker}

Status == {"None", "Downloading", "Completed", "Paused", "Failed", "SeedingStopped"}
Row == [status : Status, deleted : BOOLEAN, owner : Owner]
NoRow == [status |-> "None", deleted |-> FALSE, owner |-> NoWorker]

\* An UPDATE by the info hash changes nothing when there is no such row.
IfPresent(updated) == IF row.status = "None" THEN row ELSE updated

Command == [action : AllKinds, target : Owner]

Event == [type : {"progress", "completed", "failed"}, worker : Ids]

\* client: no handle; a handle without metadata; no file or the selected files
\* have a download priority. tracked: the reporter's lastStatus, "yes" unless it is
\* completed or seeding. report: the status the reporter got from GetProgress,
\* until the end of publish. busy: the handler has a command, the job.
Process == [up : BOOLEAN, fresh : BOOLEAN, self : Selves,
            client : {"absent", "fetching", "idle", "active"},
            tracked : {"no", "yes", "completed"},
            report : {"none", "downloading", "completed"},
            busy : BOOLEAN, job : Command]

NoCommand == [action |-> "start", target |-> NoWorker]
NewProcess == [up |-> TRUE, fresh |-> TRUE, self |-> 0, client |-> "absent", tracked |-> "no",
               report |-> "none", busy |-> FALSE, job |-> NoCommand]

Request == [pc : {"idle", "send", "row"}, kind : AllKinds,
            target : Owner]
IdleRequest == [pc |-> "idle", kind |-> "start", target |-> NoWorker]

TypeOK ==
  /\ row \in Row
  /\ commands \in Seq(Command)
  /\ events \in Seq(Event)
  /\ loading \subseteq Owner
  /\ sending \subseteq Owner
  /\ worker \in [Machines -> Process]
  /\ disk \subseteq Machines
  /\ request \in [Requests -> Request]
  /\ calls \in 0 .. MaxCalls
  /\ faults \in [number : 0 .. MaxFaults + 1, lossy : BOOLEAN]
  /\ crowded \in BOOLEAN
  /\ loose \in BOOLEAN
  /\ hollow \in BOOLEAN

Happens(kind) ==
  faults' = [number |-> faults.number + 1, lossy |-> faults.lossy \/ kind \in LossyFaults]

Fault(kind) == kind \in Faults /\ faults.number < MaxFaults /\ Happens(kind)

\* A recovery may fail on top of the fault it recovers from.
RecoveryFault(kind) == kind \in Faults /\ faults.number <= MaxFaults /\ Happens(kind)

-----------------------------------------------------------------------------
(* What is under way *)

Calling == \E q \in Requests : request[q].pc # "idle"
Recovering == loading # {} \/ sending # {}
Unsettled(m) == \/ ~ worker[m].up \/ worker[m].fresh
                \/ worker[m].busy
                \/ worker[m].client = "fetching"

\* Anything but reports of progress.
UnderWay == \/ commands # <<>>
            \/ \E i \in 1 .. Len(events) : events[i].type # "progress"
            \/ \E m \in Machines : Unsettled(m)

\* publishDownloadJob, from a caller whose only company is what others says. A
\* queue is durable, so a command that was sent stays until it is acknowledged.
SendCommand(action, target, others) ==
  /\ commands' = Append(commands, [action |-> action, target |-> target])
  /\ crowded' = (crowded \/ others \/ UnderWay)

=============================================================================

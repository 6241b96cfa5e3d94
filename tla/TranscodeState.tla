--------------------------- MODULE TranscodeState ---------------------------
(***************************************************************************)
(* The state shared by the parts of the transcode path of one torrent      *)
(* whose download is completed: its rows in MySQL, the transcode-jobs and  *)
(* worker-events queues of the broker, the idempotency keys in Redis, and  *)
(* the local state of the goroutines that work on them.                    *)
(*                                                                         *)
(* Every database statement and every call of the broker or of Redis is a  *)
(* step of its own in the modules that extend this one: whatever the code  *)
(* runs concurrently interleaves there.                                    *)
(***************************************************************************)
EXTENDS Naturals, Sequences, FiniteSets

CONSTANTS
  Files,     \* indexes of the selected original files that need transcoding
  Requests,  \* calls of the methods of TranscodeServiceImpl
  Workers,   \* consumers of transcode-jobs
  Consumers, \* consumers of worker-events, one in each server replica
  Percents,  \* the progress values a worker may report
  Faults,    \* the kinds of faults that may happen, a subset of AllFaults
  MaxFaults, \* bound on the number of faults
  MaxJobs,   \* bound on the job rows
  MaxRuns    \* bound on the deliveries of a job to a worker

AllFaults ==
  {"send",       \* Send returns an error
   "lost",       \* a message whose Send returned nil never reaches its queue
   "duplicated", \* Send repeats a publication that the broker had taken
   "connection", \* a consumer loses its connection, or crashes
   "database",   \* a database statement fails
   "redis"}      \* SETNX fails, or the key of an event has expired

ASSUME FilesAssumption == Files \subseteq Nat /\ IsFiniteSet(Files)
ASSUME PercentsAssumption == Percents \subseteq 0 .. 100
ASSUME FaultsAssumption == Faults \subseteq AllFaults
ASSUME BoundsAssumption == MaxFaults \in Nat /\ MaxJobs \in Nat /\ MaxRuns \in Nat

VARIABLES
  file,       \* file[f] = torrent_files.transcode_status
  stale,      \* stale[f]: updated_at of the row is past the reaper's cutoff
  jobs,       \* the transcode_jobs rows, a job's id is its position
  torrent,    \* transcode_status and transcode_progress of the torrents row
  derived,    \* derived[r] = torrent_files rows created for the output of run r
  jobQueue,   \* transcode-jobs: job ids
  eventQueue, \* worker-events
  seen,       \* the events whose idempotency key is in Redis
  request,    \* local state of the requests
  worker,     \* local state of the workers
  consumer,   \* local state of the event consumers
  reaper,     \* local state of the reaper goroutine
  runs,       \* runs[r] = the job that was delivered to a worker as run r
  sent,       \* history: the jobs whose Send returned nil
  encoded,    \* history: the runs for which ffmpeg wrote its output
  faults      \* the number of faults so far

database == <<file, stale, jobs, torrent, derived>>
queues == <<jobQueue, eventQueue, seen>>
actors == <<request, worker, consumer, reaper>>
history == <<runs, sent, encoded>>
vars == <<file, stale, jobs, torrent, derived, jobQueue, eventQueue, seen,
          request, worker, consumer, reaper, runs, sent, encoded, faults>>

-----------------------------------------------------------------------------
(* Types *)

FileStatus == {"None", "Pending", "Processing", "Completed", "Failed"}
MidStates == {"Pending", "Processing"}

Job == [file : Files, status : {"Pending", "Processing", "Completed", "Failed"}]

\* A worker event. Every publication gets a fresh event_id, and a run publishes
\* each type, and each percentage, at most once: the record stands for its id.
Event ==
  {e \in [type    : {"started", "progress", "completed", "failed"},
          run     : 1 .. MaxRuns,
          percent : 0 .. 100] : e.type # "progress" => e.percent = 0}

\* The progress column says 0-100 of itself. A late progress event adds its percentage to
\* that of a file that counts as completed: the sum is at most twice what it should be.
Aggregate == [status : FileStatus, progress : 0 .. 200]
NoAggregate == [status |-> "None", progress |-> 0]

\* The files of todo are those a request has still to visit.
RequestPc == {"idle", "resetFiles", "resetTorrent", "load", "create", "send",
              "sendFailed", "mark", "aggregate", "cancelJob", "cancelFile", "returned"}
Request == [pc   : RequestPc,
            kind : {"check", "retry", "cancel"},
            todo : SUBSET Files,
            job  : 0 .. MaxJobs]

\* The percentages of left are those a worker may still report; held says that
\* the broker waits for the acknowledgement of the delivery.
Worker == [pc   : {"running", "encoded", "done"},
           run  : 1 .. MaxRuns,
           left : SUBSET Percents,
           held : BOOLEAN]

Consumer == [pc    : {"job", "file", "row", "recompute", "write"},
             event : Event,
             agg   : Aggregate,
             held  : BOOLEAN]

Reaper == [pc       : {"idle", "Pending", "Processing", "write"},
           stuck    : SUBSET Files,
           affected : BOOLEAN,
           agg      : Aggregate]

Idle == [pc |-> "idle"]
IdleRequest == [pc |-> "idle", kind |-> "check", todo |-> {}, job |-> 0]
IdleReaper == [pc |-> "idle", stuck |-> {}, affected |-> FALSE, agg |-> NoAggregate]

TypeOK ==
  /\ file \in [Files -> FileStatus]
  /\ stale \in [Files -> BOOLEAN]
  /\ jobs \in Seq(Job)
  /\ Len(jobs) <= MaxJobs
  /\ torrent \in Aggregate
  /\ derived \in [1 .. MaxRuns -> Nat]
  /\ jobQueue \in Seq(1 .. Len(jobs))
  /\ eventQueue \in Seq(Event)
  /\ seen \subseteq Event
  /\ request \in [Requests -> Request]
  /\ worker \in [Workers -> Worker \cup {Idle}]
  /\ consumer \in [Consumers -> Consumer \cup {Idle}]
  /\ reaper \in Reaper
  /\ runs \in Seq(1 .. Len(jobs))
  /\ Len(runs) <= MaxRuns
  /\ sent \subseteq 1 .. Len(jobs)
  /\ encoded \subseteq 1 .. Len(runs)
  /\ faults \in 0 .. MaxFaults

-----------------------------------------------------------------------------
(* Rows *)

Row(r) == jobs[runs[r]].file

SetFile(f, s) == /\ file' = [file EXCEPT ![f] = s]
                 /\ stale' = [stale EXCEPT ![f] = FALSE]

SetJob(j, s) == jobs' = [jobs EXCEPT ![j].status = s]

Some(s) == \E f \in Files : file[f] = s
Number(s) == Cardinality({f \in Files : file[f] = s})

\* recomputeTranscodeStatus: what it writes in the torrents row after one read
\* of the original files.
Recomputed ==
  LET status == CASE Some("Processing") -> "Processing"
                  [] ~ Some("Processing") /\ Some("Pending") -> "Pending"
                  [] ~ Some("Processing") /\ ~ Some("Pending")
                       /\ Some("Failed") /\ ~ Some("Completed") -> "Failed"
                  [] OTHER -> "Completed"
  IN [status |-> status, progress |-> IF status = "Completed" THEN 100 ELSE 0]

\* recomputeTranscodeProgress: the same for the progress event of one file.
OverallProgress(percent) ==
  LET total == Number("Completed") + Number("Processing") + Number("Pending")
  IN IF total > 0 THEN (100 * Number("Completed") + percent) \div total ELSE 0

-----------------------------------------------------------------------------
(* Faults and the broker *)

Fault(kind) == /\ kind \in Faults
               /\ faults < MaxFaults
               /\ faults' = faults + 1

\* A publication of m that reports no error, to a queue that holds q before and
\* next after it. The producer asks for no publisher confirms, so the message may
\* be lost; when the first attempt breaks after the broker took the message, Send
\* reconnects and publishes it again.
Publish(q, next, m) ==
  \/ /\ next = Append(q, m)
     /\ UNCHANGED faults
  \/ /\ Fault("lost")
     /\ next = q
  \/ /\ Fault("duplicated")
     /\ next = q \o <<m, m>>

=============================================================================

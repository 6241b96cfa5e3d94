----------------------------- MODULE CloudState -----------------------------
(***************************************************************************)
(* The state behind the cloud copies of the files of one completed         *)
(* torrent: its rows in MySQL, the worker's disk, the cloud objects, the   *)
(* queues, and the local state of the goroutines that work on them. Cloud  *)
(* storage is enabled, and no file needs transcoding: all of them go to    *)
(* the cloud.                                                              *)
(*                                                                         *)
(* The reaper's timeouts are left out: a row may be past its timeout at    *)
(* any time. Of the summary columns of the torrents row the model keeps    *)
(* cloud_upload_status; the counters come from the same reads.             *)
(***************************************************************************)
EXTENDS Naturals, Sequences, FiniteSets

CONSTANTS
  Files,     \* the selected files, videos, of the torrent
  NoFile,    \* not a file
  Objects,   \* the cloud paths of the torrent
  ObjectOf,  \* ObjectOf[f] = the cloud path of f, named for f's base name only
  Requests,  \* calls of the endpoints
  Calls,     \* the kinds of calls that are made, a subset of AllCalls
  Workers,   \* consumers of cloud-upload-jobs
  Consumers, \* consumers of worker-events
  Faults,    \* the kinds of faults that may happen, a subset of AllFaults
  MaxFaults, \* bound on the number of faults
  MaxRetry   \* MaxRetryCount

AllCalls == {"check", "retry", "retryFile", "delete",
             "force"} \* a retry or a deletion may have force=true

AllFaults ==
  {"send",       \* Send returns an error
   "lost",       \* a message whose Send returned nil never reaches its queue
   "connection", \* a worker loses its connection, or crashes
   "consumer",   \* a server crashes
   "database",   \* a database statement fails
   "redis",      \* an event is delivered again, and its key is not in Redis
   "storage"}    \* HeadObject or the upload fails

ASSUME NoFileAssumption == NoFile \notin Files
ASSUME ObjectOfAssumption == ObjectOf \in [Files -> Objects]
ASSUME KindsAssumption == Calls \subseteq AllCalls /\ Faults \subseteq AllFaults
ASSUME BoundsAssumption == MaxFaults \in Nat /\ MaxRetry \in Nat

VARIABLES
  status,     \* status[f] = torrent_files.cloud_upload_status
  torrent,    \* cloud_upload_status and local_deleted of the torrents row
  disk,       \* the files with a copy on the worker's disk
  object,     \* object[o] = the file whose content is stored at path o
  jobQueue,   \* cloud-upload-jobs
  eventQueue, \* worker-events
  fileOps,    \* file-op-jobs: the number of deletions of the torrent's files
  backoff,    \* backoff[m] = goroutines that sleep before they send m again
  request,    \* local state of the requests
  worker,     \* local state of the workers
  consumer,   \* local state of the event consumers
  reaper,     \* local state of the reaper goroutine
  forced,     \* history: a deletion with force=true was accepted
  faults      \* the number of faults so far

database == <<status, torrent>>
storage == <<disk, object>>
queues == <<jobQueue, eventQueue, fileOps, backoff>>
vars == <<status, torrent, disk, object, jobQueue, eventQueue, fileOps, backoff,
          request, worker, consumer, reaper, forced, faults>>

-----------------------------------------------------------------------------
(* Types *)

FileStatus == {"None", "Pending", "Uploading", "Completed", "Failed"}
MidStates == {"Pending", "Uploading"}

Upload == [file : Files, retry : 0 .. MaxRetry]
Event == [type : {"started", "completed", "failed"}, file : Files]
Torrent == [cloud : FileStatus, localDeleted : BOOLEAN]

\* The files of todo are those a retry or a check has still to send; copy and
\* localDeleted are of the rows it read, copy with its own changes.
Request == [pc : {"idle", "send", "mark", "dispatch", "flag", "returned"},
            kind : {"check", "retry", "retryFile", "delete"},
            todo : SUBSET Files,
            file : Files \cup {NoFile},
            retried : BOOLEAN,
            copy : [Files -> FileStatus],
            localDeleted : BOOLEAN]

Worker == [pc     : {"begin", "open", "uploading", "uploaded", "done"},
           upload : Upload,
           held   : BOOLEAN]

Consumer == [pc : {"file", "recompute", "write"}, event : Event, cloud : FileStatus]

Reaper == [pc : {"idle", "demoted", "write"}, cloud : FileStatus]

Idle == [pc |-> "idle"]
NoTorrent == [cloud |-> "None", localDeleted |-> FALSE]
IdleRequest == [pc |-> "idle", kind |-> "check", todo |-> {}, file |-> NoFile,
                retried |-> FALSE, copy |-> [f \in Files |-> "None"],
                localDeleted |-> FALSE]
IdleReaper == [pc |-> "idle", cloud |-> "None"]

TypeOK ==
  /\ status \in [Files -> FileStatus]
  /\ torrent \in Torrent
  /\ disk \subseteq Files
  /\ object \in [Objects -> Files \cup {NoFile}]
  /\ jobQueue \in Seq(Upload)
  /\ eventQueue \in Seq(Event)
  /\ fileOps \in Nat
  /\ backoff \in [Upload -> Nat]
  /\ request \in [Requests -> Request]
  /\ worker \in [Workers -> Worker \cup {Idle}]
  /\ consumer \in [Consumers -> Consumer \cup {Idle}]
  /\ reaper \in Reaper
  /\ forced \in BOOLEAN
  /\ faults \in 0 .. MaxFaults

Stored(f) == object[ObjectOf[f]] = f

Fault(kind) == /\ kind \in Faults
               /\ faults < MaxFaults
               /\ faults' = faults + 1

\* A publication of m that reports no error, to a queue that holds q before and
\* next after it. No publisher confirms are asked for: the message may be lost.
Publish(q, next, m) ==
  \/ next = Append(q, m) /\ UNCHANGED faults
  \/ next = q /\ Fault("lost")

\* Mutant of Summary: the default of recomputeTranscodeStatus.
SummaryOrCompleted(s) ==
  LET Some(x) == \E f \in Files : s[f] = x
  IN CASE Some("Uploading") -> "Uploading"
       [] ~ Some("Uploading") /\ Some("Pending") -> "Pending"
       [] ~ Some("Uploading") /\ ~ Some("Pending") /\ ~ Some("Completed")
            /\ Some("Failed") -> "Failed"
       [] OTHER -> "Completed"

\* The summary of the files with statuses s, as recomputeCloudStatus and
\* recalculateTorrentCloudSummary have it.
Summary(s) ==
  LET Some(x) == \E f \in Files : s[f] = x
  IN CASE Some("Uploading") -> "Uploading"
       [] ~ Some("Uploading") /\ Some("Pending") -> "Pending"
       [] ~ Some("Uploading") /\ ~ Some("Pending") /\ Some("Completed") -> "Completed"
       [] ~ Some("Uploading") /\ ~ Some("Pending") /\ ~ Some("Completed")
            /\ Some("Failed") -> "Failed"
       [] OTHER -> "None"

=============================================================================

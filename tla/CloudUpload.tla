----------------------------- MODULE CloudUpload ----------------------------
(***************************************************************************)
(* The cloud copies of the files of one completed torrent: the requests    *)
(* that dispatch uploads, retry them and delete the local files, the       *)
(* workers, and the server's handlers of their events.                     *)
(***************************************************************************)
EXTENDS CloudRequests, CloudWorker, CloudEvents

Init ==
  /\ status = [f \in Files |-> "None"]
  /\ torrent = NoTorrent
  /\ disk = Files
  /\ object = [o \in Objects |-> NoFile]
  /\ jobQueue = <<>>
  /\ eventQueue = <<>>
  /\ fileOps = 0
  /\ backoff = [m \in Upload |-> 0]
  /\ request = [q \in Requests |-> IdleRequest]
  /\ worker = [w \in Workers |-> Idle]
  /\ consumer = [c \in Consumers |-> Idle]
  /\ reaper = IdleReaper
  /\ forced = FALSE
  /\ faults = 0

Next ==
  \/ \E q \in Requests : RequestStep(q)
  \/ \E w \in Workers : WorkerStep(w)
  \/ \E m \in Upload : Resend(m) \/ ForgetRetry(m)
  \/ DeleteFiles
  \/ \E c \in Consumers : ConsumerStep(c)
  \/ \E f \in Files : Demote(f)
  \/ ReaperRecompute
  \/ ReaperWrite
  \/ StopReaper

Spec == Init /\ [][Next]_vars

-----------------------------------------------------------------------------
(* Safety *)

\* A file row that says Completed has its content in the cloud, whatever uploads
\* of the file run side by side, fail after another one's success, are retried or
\* skipped because the object was found, and however late their events come. (When
\* no two files share a cloud path.) Playback from the cloud and the deletion of
\* the local files go by that row.
CompletedIsStored == \A f \in Files : status[f] = "Completed" => Stored(f)

\* DeleteLocalFiles: no file loses its local copy before it has one in the cloud,
\* although the deletion happens on another machine long after the statuses were
\* read, with retries that put rows back to Pending in between, unless a user
\* forced a deletion.
DeletedIsStored == \A f \in Files : f \notin disk => Stored(f) \/ forced

\* The torrents row says Completed only when some file is in the cloud, although
\* the summary is written after the reads it was computed from by event handlers,
\* the reaper and the whole-row Save of a retry.
SummaryIsStored == torrent.cloud = "Completed" => \E f \in Files : Stored(f)

-----------------------------------------------------------------------------
(* The inductive invariant behind the theorems: what the messages in flight and *)
(* the records that were read before say about the objects.                     *)

\* No two files share a cloud path: the base names of the torrent are distinct.
DistinctObjects == \A f, g \in Files : ObjectOf[f] = ObjectOf[g] => f = g

SomeStored == \E f \in Files : Stored(f)
AllStored == \A f \in Files : Stored(f)

ObjectsInPlace == \A o \in Objects : object[o] # NoFile => ObjectOf[object[o]] = o

UploadsTruthful ==
  \A w \in Workers : worker[w].pc = "uploaded" => Stored(worker[w].upload.file)

Truthful(e) == e.type = "completed" => Stored(e.file)

EventsTruthful ==
  /\ \A i \in 1 .. Len(eventQueue) : Truthful(eventQueue[i])
  /\ \A c \in Consumers : consumer[c].pc # "idle" => Truthful(consumer[c].event)

\* A summary that was computed, and the rows a retry will compute one from.
SummariesTruthful ==
  /\ \A c \in Consumers : consumer[c].pc = "write" /\ consumer[c].cloud = "Completed"
                            => SomeStored
  /\ reaper.cloud = "Completed" => SomeStored
  /\ \A q \in Requests : \A f \in Files :
       request[q].copy[f] = "Completed" => Stored(f)

DeletionsSafe ==
  forced \/ AllStored
    \/ /\ fileOps = 0
       /\ disk = Files
       /\ \A q \in Requests : request[q].pc # "dispatch"

Inductive == /\ TypeOK
             /\ ObjectsInPlace
             /\ UploadsTruthful
             /\ EventsTruthful
             /\ SummariesTruthful
             /\ DeletionsSafe
             /\ CompletedIsStored
             /\ SummaryIsStored

=============================================================================

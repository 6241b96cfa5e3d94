------------------------- MODULE CloudUploadProofs --------------------------
(***************************************************************************)
(* Proofs about CloudUpload, for every number of files, requests, workers  *)
(* and server replicas, and every bound: its type invariant, and, when no  *)
(* two files share a cloud path, that what the rows and the deletion of    *)
(* the local files rely on is in the cloud.                                *)
(***************************************************************************)
EXTENDS CloudUpload, TLAPS

LEMMA FaultType ==
  ASSUME NEW kind, faults \in 0 .. MaxFaults, Fault(kind)
  PROVE  faults' \in 0 .. MaxFaults
BY BoundsAssumption DEF Fault

\* A publication leaves the queue as it was, or adds the message to its end.
LEMMA PublishType ==
  ASSUME NEW T, NEW q \in Seq(T), NEW m \in T, NEW next,
         faults \in 0 .. MaxFaults, Publish(q, next, m)
  PROVE  /\ next \in Seq(T)
         /\ faults' \in 0 .. MaxFaults
         /\ \A i \in 1 .. Len(next) :
              next[i] = m \/ \E j \in 1 .. Len(q) : next[i] = q[j]
<1>1. CASE next = Append(q, m) /\ UNCHANGED faults
  <2>1. next \in Seq(T)
    BY <1>1
  <2>2. \A i \in 1 .. Len(next) : next[i] = m \/ \E j \in 1 .. Len(q) : next[i] = q[j]
    BY <1>1
  <2> QED BY <1>1, <2>1, <2>2
<1>2. CASE next = q /\ Fault("lost")
  BY <1>2, FaultType
<1> QED BY <1>1, <1>2 DEF Publish

LEMMA QueueEnds ==
  ASSUME NEW T, NEW q \in Seq(T), NEW m \in T
  PROVE  /\ <<m>> \o q \in Seq(T)
         /\ q # <<>> => /\ Head(q) \in T
                        /\ Tail(q) \in Seq(T)
                        /\ Len(q) \in Nat \ {0}
                        /\ Head(q) = q[1]
                        /\ \A i \in 1 .. Len(Tail(q)) : i + 1 \in 1 .. Len(q) /\ Tail(q)[i] = q[i + 1]
<1>1. <<m>> \in Seq(T)
  OBVIOUS
<1>2. <<m>> \o q \in Seq(T)
  BY <1>1
<1>3. ASSUME q # <<>>
      PROVE  /\ Head(q) \in T
             /\ Tail(q) \in Seq(T)
             /\ Len(q) \in Nat \ {0}
             /\ Head(q) = q[1]
             /\ \A i \in 1 .. Len(Tail(q)) : i + 1 \in 1 .. Len(q) /\ Tail(q)[i] = q[i + 1]
  BY <1>3
<1> QED BY <1>2, <1>3

-----------------------------------------------------------------------------
(* Types *)

LEMMA SummaryType ==
  ASSUME NEW s PROVE Summary(s) \in FileStatus
BY DEF Summary, FileStatus

LEMMA IdleTypes ==
  /\ IdleRequest \in Request
  /\ IdleReaper \in Reaper
  /\ NoTorrent \in Torrent
BY DEF IdleRequest, IdleReaper, NoTorrent, Request, Reaper, Torrent, FileStatus

LEMMA InitType == Init => TypeOK
<1> SUFFICES ASSUME Init PROVE TypeOK
  OBVIOUS
<1>1. jobQueue \in Seq(Upload) /\ eventQueue \in Seq(Event)
  BY DEF Init
<1>2. status \in [Files -> FileStatus]
  BY DEF Init, FileStatus
<1>3. faults \in 0 .. MaxFaults
  BY BoundsAssumption DEF Init
<1> QED BY <1>1, <1>2, <1>3, IdleTypes DEF Init, TypeOK

\* The requests.
LEMMA RequestType ==
  ASSUME TypeOK, NEW q \in Requests, RequestStep(q)
  PROVE  TypeOK'
<1> USE DEF TypeOK, database, storage, queues
<1>0. ASSUME NEW r \in Request, request' = [request EXCEPT ![q] = r]
      PROVE  request' \in [Requests -> Request]
  BY <1>0
<1>1. CASE CheckTorrent(q)
  <2>1. [IdleRequest EXCEPT !.pc = "send", !.todo = Files] \in Request
    BY DEF IdleRequest, NoTorrent, Request, Torrent, FileStatus
  <2> QED BY <1>0, <1>1, <2>1 DEF CheckTorrent
<1>2. CASE RetryUploads(q)
  <2>1. PICK todo \in SUBSET Files :
          request' = [request EXCEPT ![q] = [IdleRequest EXCEPT
                        !.pc = "send", !.kind = "retry", !.todo = todo,
                        !.copy = status, !.localDeleted = torrent.localDeleted]]
    BY <1>2 DEF RetryUploads, Retryable
  <2>2. [IdleRequest EXCEPT !.pc = "send", !.kind = "retry", !.todo = todo,
                            !.copy = status, !.localDeleted = torrent.localDeleted] \in Request
    BY DEF IdleRequest, Request, Torrent
  <2> QED BY <1>0, <1>2, <2>1, <2>2 DEF RetryUploads
<1>3. CASE RetryOneUpload(q)
  <2>1. PICK f \in Files :
          request' = [request EXCEPT ![q] = [IdleRequest EXCEPT
                        !.pc = "send", !.kind = "retryFile", !.todo = {f},
                        !.copy = status, !.localDeleted = torrent.localDeleted]]
    BY <1>3 DEF RetryOneUpload, Retryable
  <2>2. [IdleRequest EXCEPT !.pc = "send", !.kind = "retryFile", !.todo = {f},
                            !.copy = status, !.localDeleted = torrent.localDeleted] \in Request
    BY DEF IdleRequest, Request, Torrent
  <2> QED BY <1>0, <1>3, <2>1, <2>2 DEF RetryOneUpload
<1>4. CASE SendUpload(q)
  <2>1. PICK f \in request[q].todo :
          /\ Publish(jobQueue, jobQueue', [file |-> f, retry |-> 0])
          /\ request' = [request EXCEPT ![q].pc = "mark", ![q].file = f, ![q].todo = @ \ {f}]
    BY <1>4 DEF SendUpload
  <2>2. request[q] \in Request
    OBVIOUS
  <2>3. f \in Files
    BY <2>1, <2>2 DEF Request
  <2>4. [file |-> f, retry |-> 0] \in Upload
    BY <2>3, BoundsAssumption DEF Upload
  <2>5. jobQueue' \in Seq(Upload) /\ faults' \in 0 .. MaxFaults
    BY <2>1, <2>4, PublishType
  <2>6. [request[q] EXCEPT !.pc = "mark", !.file = f, !.todo = @ \ {f}] \in Request
    BY <2>2, <2>3 DEF Request
  <2>7. request' \in [Requests -> Request]
    BY <1>0, <2>1, <2>6
  <2> QED BY <1>4, <2>5, <2>7 DEF SendUpload
<1>5. CASE SendFails(q)
  <2>1. request[q] \in Request
    OBVIOUS
  <2>2. CASE Return(q)
    BY <1>5, <2>2, FaultType, IdleTypes DEF SendFails, Return, IdleRequest, Request
  <2>3. CASE ~ Return(q)
    <3>1. PICK f : request' = [request EXCEPT ![q].todo = @ \ {f}]
      BY <1>5, <2>3 DEF SendFails
    <3>2. [request[q] EXCEPT !.todo = @ \ {f}] \in Request
      BY <2>1 DEF Request
    <3> QED BY <1>0, <1>5, <3>1, <3>2, FaultType DEF SendFails
  <2> QED BY <2>2, <2>3
<1>6. ASSUME request[q].pc = "mark", Marked(q)
      PROVE  request' \in [Requests -> Request]
  <2>1. request[q] \in Request
    OBVIOUS
  <2>2. [request[q].copy EXCEPT ![request[q].file] = "Pending"] \in [Files -> FileStatus]
    BY <2>1 DEF Request, FileStatus
  <2>3. [request[q] EXCEPT !.pc = "send", !.retried = TRUE,
           !.copy = [@ EXCEPT ![request[q].file] = "Pending"]] \in Request
    BY <2>1, <2>2 DEF Request
  <2> QED BY <1>0, <1>6, <2>3 DEF Marked
<1>7. CASE MarkPending(q)
  BY <1>6, <1>7 DEF MarkPending, FileStatus
<1>8. CASE MarkFails(q)
  BY <1>6, <1>8, FaultType DEF MarkFails
<1>9. ASSUME Return(q) PROVE request' \in [Requests -> Request]
  <2>1. [IdleRequest EXCEPT !.pc = "returned"] \in Request
    BY DEF IdleRequest, NoTorrent, Request, Torrent, FileStatus
  <2> QED BY <1>0, <1>9, <2>1 DEF Return
<1>10. CASE SaveTorrent(q)
  <2>1. request[q].localDeleted \in BOOLEAN
    BY DEF Request
  <2>2. torrent' \in Torrent
    BY <1>10, <2>1, SummaryType DEF SaveTorrent, Torrent, FileStatus
  <2> QED BY <1>9, <1>10, <2>2 DEF SaveTorrent
<1>11. CASE SaveFails(q)
  BY <1>9, <1>11, FaultType DEF SaveFails
<1>12. CASE BeginDelete(q)
  <2>1. [IdleRequest EXCEPT !.pc = "dispatch", !.kind = "delete"] \in Request
    BY DEF IdleRequest, NoTorrent, Request, Torrent, FileStatus
  <2>2. forced' \in BOOLEAN
    BY <1>12 DEF BeginDelete, ForceFlags
  <2> QED BY <1>0, <1>12, <2>1, <2>2 DEF BeginDelete
<1>13. CASE DispatchDelete(q)
  <2>1. request[q] \in Request
    OBVIOUS
  <2>2. [request[q] EXCEPT !.pc = "flag"] \in Request
    BY <2>1 DEF Request
  <2>3. fileOps' \in Nat /\ faults' \in 0 .. MaxFaults
    BY <1>13, FaultType DEF DispatchDelete
  <2> QED BY <1>0, <1>13, <2>2, <2>3 DEF DispatchDelete
<1>14. CASE FlagDeleted(q)
  BY <1>9, <1>14 DEF FlagDeleted, Torrent
<1>15. CASE FlagFails(q)
  BY <1>9, <1>15, FaultType DEF FlagFails
<1> QED BY <1>1, <1>2, <1>3, <1>4, <1>5, <1>7, <1>8, <1>10, <1>11, <1>12, <1>13, <1>14, <1>15
     DEF RequestStep

\* The workers.
LEMMA WorkerType ==
  ASSUME TypeOK, NEW w \in Workers, WorkerStep(w)
  PROVE  TypeOK'
<1> USE DEF TypeOK, database, storage, queues
<1>0. ASSUME NEW v \in Worker \cup {Idle}, worker' = [worker EXCEPT ![w] = v]
      PROVE  worker' \in [Workers -> Worker \cup {Idle}]
  BY <1>0
<1>1. ASSUME worker[w].pc # "idle"
      PROVE  /\ worker[w] \in Worker
             /\ worker[w].upload \in Upload
             /\ worker[w].upload.file \in Files
             /\ worker[w].upload.retry \in 0 .. MaxRetry
  <2>1. worker[w] \in Worker
    BY <1>1 DEF Idle
  <2> QED BY <2>1 DEF Worker, Upload
<1>2. ASSUME worker[w].pc # "idle",
             NEW pc \in {"begin", "open", "uploading", "uploaded", "done"}, Continue(w, pc)
      PROVE  worker' \in [Workers -> Worker \cup {Idle}]
  <2>1. [worker[w] EXCEPT !.pc = pc] \in Worker
    BY <1>1, <1>2 DEF Worker
  <2> QED BY <1>0, <1>2, <2>1 DEF Continue
<1>3. ASSUME worker[w].pc # "idle", NEW type \in {"started", "completed", "failed"},
             PublishEvent(w, type)
      PROVE  eventQueue' \in Seq(Event) /\ faults' \in 0 .. MaxFaults
  <2>1. [type |-> type, file |-> worker[w].upload.file] \in Event
    BY <1>1, <1>3 DEF Event
  <2> QED BY <1>3, <2>1, PublishType DEF PublishEvent
<1>4. CASE TakeUpload(w)
  <2>1. /\ Head(jobQueue) \in Upload
        /\ jobQueue' \in Seq(Upload)
    BY <1>4, QueueEnds DEF TakeUpload
  <2>2. PICK pc \in {"uploaded", "begin"} :
          worker' = [worker EXCEPT ![w] = [pc |-> pc, upload |-> Head(jobQueue), held |-> TRUE]]
    BY <1>4 DEF TakeUpload
  <2>3. [pc |-> pc, upload |-> Head(jobQueue), held |-> TRUE] \in Worker
    BY <2>1, <2>2 DEF Worker
  <2>4. faults' \in 0 .. MaxFaults
    BY <1>4, FaultType DEF TakeUpload
  <2> QED BY <1>0, <1>4, <2>1, <2>2, <2>3, <2>4 DEF TakeUpload
<1>5. CASE PublishStarted(w)
  BY <1>2, <1>3, <1>5 DEF PublishStarted
<1>6. CASE OpenFile(w)
  BY <1>2, <1>6 DEF OpenFile
<1>7. CASE FileMissing(w)
  BY <1>2, <1>3, <1>7 DEF FileMissing
<1>8. CASE UploadSucceeds(w)
  BY <1>1, <1>2, <1>8 DEF UploadSucceeds, StoreObject
<1>9. CASE UploadRetries(w)
  <2>1. worker' \in [Workers -> Worker \cup {Idle}]
    BY <1>2, <1>9 DEF UploadRetries
  <2>2. backoff' \in [Upload -> Nat]
    <3> DEFINE m == [worker[w].upload EXCEPT !.retry = @ + 1]
    <3>1. m \in Upload
      <4>1. worker[w].upload \in Upload /\ worker[w].upload.retry < MaxRetry
        BY <1>1, <1>9 DEF UploadRetries
      <4> QED BY <4>1, BoundsAssumption DEF Upload
    <3>2. backoff' = [backoff EXCEPT ![m] = @ + 1]
      BY <1>9 DEF UploadRetries
    <3> QED BY <3>1, <3>2
  <2>3. object' \in [Objects -> Files \cup {NoFile}]
    BY <1>1, <1>9 DEF UploadRetries, StoreObject
  <2> QED BY <1>9, <2>1, <2>2, <2>3, FaultType DEF UploadRetries
<1>10. CASE UploadGivesUp(w)
  <2>1. object' \in [Objects -> Files \cup {NoFile}]
    BY <1>1, <1>10 DEF UploadGivesUp, StoreObject
  <2> QED BY <1>2, <1>3, <1>10, <2>1 DEF UploadGivesUp
<1>11. CASE PublishCompleted(w)
  BY <1>2, <1>3, <1>11 DEF PublishCompleted
<1>12. CASE AckUpload(w)
  BY <1>0, <1>12 DEF AckUpload
<1>13. CASE LoseUpload(w)
  <2>1. jobQueue' \in Seq(Upload)
    BY <1>1, <1>13, QueueEnds DEF LoseUpload
  <2>2. [worker[w] EXCEPT !.held = FALSE] \in Worker
    BY <1>1, <1>13 DEF LoseUpload, Worker
  <2> QED BY <1>0, <1>13, <2>1, <2>2, FaultType DEF LoseUpload
<1>14. CASE CrashWorker(w)
  BY <1>0, <1>14 DEF CrashWorker
<1> QED BY <1>4, <1>5, <1>6, <1>7, <1>8, <1>9, <1>10, <1>11, <1>12, <1>13, <1>14 DEF WorkerStep

\* The server replicas.
LEMMA ConsumerType ==
  ASSUME TypeOK, NEW c \in Consumers, ConsumerStep(c)
  PROVE  TypeOK'
<1> USE DEF TypeOK, database, storage, queues
<1>0. ASSUME NEW v \in Consumer \cup {Idle}, consumer' = [consumer EXCEPT ![c] = v]
      PROVE  consumer' \in [Consumers -> Consumer \cup {Idle}]
  BY <1>0
<1>1. ASSUME consumer[c].pc # "idle"
      PROVE  consumer[c] \in Consumer
  BY <1>1 DEF Idle
<1>2. ASSUME eventQueue # <<>>, Start(c)
      PROVE  consumer' \in [Consumers -> Consumer \cup {Idle}]
  <2>1. Head(eventQueue) \in Event
    BY <1>2, QueueEnds
  <2>2. [pc |-> "file", event |-> Head(eventQueue), cloud |-> "None"] \in Consumer
    BY <2>1 DEF Consumer, FileStatus
  <2> QED BY <1>0, <1>2, <2>2 DEF Start
<1>3. CASE TakeEvent(c)
  BY <1>2, <1>3, QueueEnds DEF TakeEvent
<1>4. CASE TakeEventTwice(c)
  BY <1>2, <1>4, FaultType DEF TakeEventTwice
<1>5. CASE UpdateFile(c)
  <2>1. consumer[c] \in Consumer
    BY <1>1, <1>5 DEF UpdateFile
  <2>2. StatusOf(consumer[c].event) \in FileStatus
    BY <2>1 DEF StatusOf, FileStatus, Consumer, Event
  <2>3. status' \in [Files -> FileStatus] /\ faults' \in 0 .. MaxFaults
    BY <1>5, <2>2, FaultType DEF UpdateFile
  <2>4. [consumer[c] EXCEPT !.pc = "recompute"] \in Consumer
    BY <2>1 DEF Consumer
  <2> QED BY <1>0, <1>5, <2>3, <2>4 DEF UpdateFile
<1>6. CASE Recompute(c)
  <2>1. consumer[c] \in Consumer
    BY <1>1, <1>6 DEF Recompute
  <2>2. [consumer[c] EXCEPT !.pc = "write", !.cloud = Summary(status)] \in Consumer
    BY <2>1, SummaryType DEF Consumer
  <2> QED BY <1>0, <1>6, <2>2 DEF Recompute
<1>7. CASE WriteSummary(c)
  <2>1. consumer[c].cloud \in FileStatus
    BY <1>1, <1>7 DEF WriteSummary, Consumer
  <2>2. torrent' \in Torrent
    BY <1>7, <2>1 DEF WriteSummary, Torrent
  <2> QED BY <1>0, <1>7, <2>2 DEF WriteSummary
<1>8. CASE StopConsumer(c)
  BY <1>0, <1>8, FaultType DEF StopConsumer
<1> QED BY <1>3, <1>4, <1>5, <1>6, <1>7, <1>8 DEF ConsumerStep

\* The goroutines without a consumer of their own.
OtherStep ==
  \/ \E m \in Upload : Resend(m) \/ ForgetRetry(m)
  \/ DeleteFiles
  \/ \E f \in Files : Demote(f)
  \/ ReaperRecompute
  \/ ReaperWrite
  \/ StopReaper

LEMMA OtherType == TypeOK /\ OtherStep => TypeOK'
<1> SUFFICES ASSUME TypeOK, OtherStep PROVE TypeOK'
  OBVIOUS
<1> USE DEF TypeOK, database, storage, queues
<1>1. ASSUME NEW m \in Upload, Resend(m) PROVE TypeOK'
  <2>1. jobQueue' \in Seq(Upload) /\ faults' \in 0 .. MaxFaults
    BY <1>1, PublishType DEF Resend
  <2>2. backoff' \in [Upload -> Nat]
    BY <1>1 DEF Resend
  <2> QED BY <1>1, <2>1, <2>2 DEF Resend
<1>2. ASSUME NEW m \in Upload, ForgetRetry(m) PROVE TypeOK'
  <2>1. backoff' \in [Upload -> Nat] /\ faults' \in 0 .. MaxFaults
    BY <1>2, FaultType DEF ForgetRetry
  <2> QED BY <1>2, <2>1 DEF ForgetRetry
<1>3. CASE DeleteFiles
  BY <1>3, FaultType DEF DeleteFiles
<1>4. ASSUME NEW f \in Files, Demote(f) PROVE TypeOK'
  BY <1>4 DEF Demote, FileStatus, Reaper
<1>5. CASE ReaperRecompute
  BY <1>5, SummaryType DEF ReaperRecompute, Reaper
<1>6. CASE ReaperWrite
  BY <1>6, IdleTypes DEF ReaperWrite, Reaper, Torrent
<1>7. CASE StopReaper
  BY <1>7, IdleTypes, FaultType DEF StopReaper
<1> QED BY <1>1, <1>2, <1>3, <1>4, <1>5, <1>6, <1>7 DEF OtherStep

LEMMA Actors ==
  ASSUME Next
  PROVE  \/ \E q \in Requests : RequestStep(q)
         \/ \E w \in Workers : WorkerStep(w)
         \/ \E c \in Consumers : ConsumerStep(c)
         \/ OtherStep
BY DEF Next, OtherStep

\* Every variable stays in the type the code gives it: no message is tried more
\* than MaxRetryCount times over.
THEOREM TypeCorrect == Spec => []TypeOK
<1>1. Init => TypeOK
  BY InitType
<1>2. TypeOK /\ [Next]_vars => TypeOK'
  <2> SUFFICES ASSUME TypeOK, [Next]_vars PROVE TypeOK'
    OBVIOUS
  <2>1. CASE Next
    BY <2>1, Actors, RequestType, WorkerType, ConsumerType, OtherType
  <2>2. CASE UNCHANGED vars
    BY <2>2 DEF vars, TypeOK
  <2> QED BY <2>1, <2>2
<1> QED BY <1>1, <1>2, PTL DEF Spec

-----------------------------------------------------------------------------
(* What the rows say is in the cloud *)

\* The summary is Completed only if a row is.
LEMMA SummaryCompleted ==
  ASSUME NEW s, Summary(s) = "Completed"
  PROVE  \E f \in Files : s[f] = "Completed"
BY DEF Summary

\* Only an upload changes an object.
LEMMA ObjectStep ==
  ASSUME TypeOK, [Next]_vars
  PROVE  \/ object' = object
         \/ \E w \in Workers : StoreObject(w) /\ worker[w].upload.file \in Files
<1>1. ASSUME NEW q \in Requests, RequestStep(q) PROVE object' = object
  BY <1>1 DEF RequestStep, CheckTorrent, RetryUploads, RetryOneUpload, SendUpload, SendFails,
              MarkPending, MarkFails, SaveTorrent, SaveFails, BeginDelete, DispatchDelete,
              FlagDeleted, FlagFails, storage
<1>2. ASSUME NEW w \in Workers, WorkerStep(w)
      PROVE  object' = object \/ (worker[w].pc = "uploading" /\ StoreObject(w))
  BY <1>2 DEF WorkerStep, TakeUpload, PublishStarted, OpenFile, FileMissing, UploadSucceeds,
              UploadRetries, UploadGivesUp, PublishCompleted, AckUpload, LoseUpload,
              CrashWorker, storage
<1>3. ASSUME NEW w \in Workers, worker[w].pc = "uploading"
      PROVE  worker[w].upload.file \in Files
  <2>1. worker[w] \in Worker
    BY <1>3 DEF TypeOK, Idle
  <2> QED BY <2>1 DEF Worker, Upload
<1>4. ASSUME NEW c \in Consumers, ConsumerStep(c) PROVE object' = object
  BY <1>4 DEF ConsumerStep, TakeEvent, TakeEventTwice, UpdateFile, Recompute, WriteSummary,
              StopConsumer, storage
<1>5. CASE OtherStep
  BY <1>5 DEF OtherStep, Resend, ForgetRetry, DeleteFiles, Demote, ReaperRecompute,
              ReaperWrite, StopReaper, storage
<1>6. CASE UNCHANGED vars
  BY <1>6 DEF vars
<1> QED BY <1>1, <1>2, <1>3, <1>4, <1>5, <1>6, Actors

\* Objects are never taken away, nor overwritten with another file's content.
LEMMA StoredStays ==
  ASSUME DistinctObjects, TypeOK, ObjectsInPlace, [Next]_vars
  PROVE  /\ ObjectsInPlace'
         /\ \A f \in Files : Stored(f) => Stored(f)'
<1>1. CASE object' = object
  BY <1>1 DEF ObjectsInPlace, Stored
<1>2. ASSUME NEW w \in Workers, StoreObject(w), worker[w].upload.file \in Files
      PROVE  /\ ObjectsInPlace'
             /\ \A f \in Files : Stored(f) => Stored(f)'
  <2> DEFINE g == worker[w].upload.file
  <2>1. object' = [object EXCEPT ![ObjectOf[g]] = g] /\ g \in Files
    BY <1>2 DEF StoreObject
  <2>2. ObjectOf[g] \in Objects
    BY <2>1, ObjectOfAssumption
  <2> HIDE DEF g
  <2>3. object \in [Objects -> Files \cup {NoFile}]
    BY DEF TypeOK
  <2>4. \A o \in Objects : object'[o] = IF o = ObjectOf[g] THEN g ELSE object[o]
    BY <2>1, <2>2, <2>3
  <2>5. ObjectsInPlace'
    BY <2>4 DEF ObjectsInPlace
  <2>6. ASSUME NEW f \in Files, Stored(f) PROVE Stored(f)'
    <3>1. ObjectOf[f] \in Objects
      BY ObjectOfAssumption
    <3>2. ObjectOf[f] = ObjectOf[g] => f = g
      BY <2>1 DEF DistinctObjects
    <3> QED BY <2>4, <2>6, <3>1, <3>2 DEF Stored
  <2> QED BY <2>5, <2>6
<1> QED BY <1>1, <1>2, ObjectStep

\* The parts of the invariant that say what is in the cloud.
Facts == /\ UploadsTruthful
         /\ EventsTruthful
         /\ SummariesTruthful
         /\ DeletionsSafe
         /\ CompletedIsStored
         /\ SummaryIsStored

\* A send, or its failure, leaves the record of the request or ends the request.
LEMMA SendLocal ==
  ASSUME TypeOK, NEW q \in Requests, SendUpload(q) \/ SendFails(q)
  PROVE  /\ \A p \in Requests \ {q} : request'[p] = request[p]
         /\ request'[q].pc # "dispatch"
         /\ request'[q].copy \in {request[q].copy, IdleRequest.copy}
<1>1. request \in [Requests -> Request] /\ request[q] \in Request
  BY DEF TypeOK
<1>2. CASE SendUpload(q)
  <2>1. PICK f : request' = [request EXCEPT ![q].pc = "mark", ![q].file = f, ![q].todo = @ \ {f}]
    BY <1>2 DEF SendUpload
  <2> QED BY <1>1, <2>1 DEF Request
<1>3. CASE SendFails(q) /\ Return(q)
  BY <1>1, <1>3 DEF Return, IdleRequest
<1>4. CASE SendFails(q) /\ ~ Return(q)
  <2>1. PICK f : request' = [request EXCEPT ![q].todo = @ \ {f}]
    BY <1>4 DEF SendFails
  <2>2. request[q].pc = "send"
    BY <1>4 DEF SendFails
  <2> QED BY <1>1, <2>1, <2>2 DEF Request
<1> QED BY <1>2, <1>3, <1>4

LEMMA EventFiles ==
  ASSUME TypeOK
  PROVE  /\ \A i \in 1 .. Len(eventQueue) : eventQueue[i].file \in Files
         /\ \A c \in Consumers : consumer[c].pc # "idle" => consumer[c].event.file \in Files
<1>1. \A i \in 1 .. Len(eventQueue) : eventQueue[i] \in Event
  BY DEF TypeOK
<1>2. \A c \in Consumers : consumer[c].pc # "idle" => consumer[c] \in Consumer
  BY DEF TypeOK, Idle
<1> QED BY <1>1, <1>2 DEF Consumer, Event

\* A request reads rows, sends and marks; a retry writes what it read.
LEMMA RequestFacts ==
  ASSUME Inductive, NEW q \in Requests, RequestStep(q),
         \A f \in Files : Stored(f) => Stored(f)'
  PROVE  Facts'
<1> USE DEF Inductive, database, storage, queues
<1>1. UNCHANGED <<worker, eventQueue, consumer, reaper, disk>>
  BY DEF RequestStep, CheckTorrent, RetryUploads, RetryOneUpload, SendUpload, SendFails,
         MarkPending, MarkFails, SaveTorrent, SaveFails, BeginDelete, DispatchDelete,
         FlagDeleted, FlagFails
<1>2. UploadsTruthful'
  <2>1. \A w \in Workers : worker[w].pc = "uploaded" => worker[w].upload.file \in Files
    BY DEF TypeOK, Worker, Upload, Idle
  <2> QED BY <1>1, <2>1 DEF UploadsTruthful
<1>3. EventsTruthful'
  <2>1. /\ \A i \in 1 .. Len(eventQueue) : eventQueue[i].file \in Files
        /\ \A c \in Consumers : consumer[c].pc # "idle" => consumer[c].event.file \in Files
    BY EventFiles
  <2> QED BY <1>1, <2>1 DEF EventsTruthful, Truthful
<1>4. CompletedIsStored'
  <2>1. \A f \in Files : status'[f] = "Completed" => status[f] = "Completed"
    <3>1. CASE MarkPending(q)
      BY <3>1 DEF MarkPending, TypeOK
    <3>2. CASE ~ MarkPending(q)
      BY <3>2 DEF RequestStep, CheckTorrent, RetryUploads, RetryOneUpload, SendUpload,
                  SendFails, MarkFails, SaveTorrent, SaveFails, BeginDelete, DispatchDelete,
                  FlagDeleted, FlagFails
    <3> QED BY <3>1, <3>2
  <2> QED BY <2>1 DEF CompletedIsStored
<1>5. ASSUME NEW p \in Requests, NEW f \in Files, request'[p].copy[f] = "Completed"
      PROVE  Stored(f)
  <2>1. CASE request'[p].copy = request[p].copy
    BY <1>5, <2>1 DEF SummariesTruthful
  <2>2. CASE request'[p].copy = status
    BY <1>5, <2>2 DEF CompletedIsStored
  <2>3. CASE request'[p].copy = IdleRequest.copy
    BY <1>5, <2>3 DEF IdleRequest
  <2>4. CASE request'[p].copy = [request[p].copy EXCEPT ![request[p].file] = "Pending"]
    <3>1. request[p].copy \in [Files -> FileStatus]
      BY DEF TypeOK, Request
    <3> QED BY <1>5, <2>4, <3>1 DEF SummariesTruthful
  <2>5. \/ request'[p].copy \in {request[p].copy, status, IdleRequest.copy}
        \/ request'[p].copy = [request[p].copy EXCEPT ![request[p].file] = "Pending"]
    <3>1. request \in [Requests -> Request]
      BY DEF TypeOK
    <3>2. CASE p # q
      BY <3>1, <3>2 DEF RequestStep, CheckTorrent, RetryUploads, RetryOneUpload, SendUpload,
           SendFails, MarkPending, MarkFails, Marked, SaveTorrent, SaveFails, BeginDelete,
           DispatchDelete, FlagDeleted, FlagFails, Return
    <3>3. CASE p = q
      <4>1. CASE RetryUploads(q) \/ RetryOneUpload(q)
        BY <3>1, <3>3, <4>1 DEF RetryUploads, RetryOneUpload, IdleRequest
      <4>2. CASE MarkPending(q) \/ MarkFails(q)
        <5>1. request[q] \in Request /\ Marked(q)
          BY <3>1, <4>2 DEF MarkPending, MarkFails
        <5> QED BY <3>1, <3>3, <5>1 DEF Marked, Request
      <4>3. CASE SendUpload(q) \/ SendFails(q)
        BY <3>1, <3>3, <4>3, SendLocal DEF IdleRequest
      <4>6. CASE DispatchDelete(q)
        <5>1. request[q] \in Request
          BY <3>1
        <5> QED BY <3>1, <3>3, <4>6, <5>1 DEF DispatchDelete, Request
      <4>4. CASE CheckTorrent(q) \/ BeginDelete(q)
        BY <3>1, <3>3, <4>4 DEF CheckTorrent, BeginDelete, IdleRequest
      <4>5. CASE SaveTorrent(q) \/ SaveFails(q) \/ FlagDeleted(q) \/ FlagFails(q)
        BY <3>1, <3>3, <4>5 DEF SaveTorrent, SaveFails, FlagDeleted, FlagFails, Return, IdleRequest
      <4> QED BY <4>1, <4>2, <4>3, <4>4, <4>5, <4>6 DEF RequestStep
    <3> QED BY <3>2, <3>3
  <2> QED BY <2>1, <2>2, <2>3, <2>4, <2>5
<1>6. SomeStored => SomeStored'
  BY DEF SomeStored
<1>7. SummariesTruthful'
  BY <1>1, <1>5, <1>6 DEF SummariesTruthful
<1>8. SummaryIsStored'
  <2>1. CASE torrent'.cloud = torrent.cloud
    BY <1>6, <2>1 DEF SummaryIsStored, SomeStored
  <2>2. CASE torrent'.cloud = Summary(request[q].copy)
    <3>1. ASSUME torrent'.cloud = "Completed" PROVE SomeStored
      BY <2>2, <3>1, SummaryCompleted DEF SummariesTruthful, SomeStored
    <3> QED BY <1>6, <3>1 DEF SummaryIsStored, SomeStored
  <2>3. CASE torrent'.cloud = "Pending"
    BY <2>3 DEF SummaryIsStored
  <2>4. torrent'.cloud \in {torrent.cloud, Summary(request[q].copy), "Pending"}
    <3>1. CASE SaveTorrent(q)
      BY <3>1 DEF SaveTorrent
    <3>2. CASE FlagDeleted(q)
      BY <3>2 DEF FlagDeleted, TypeOK, Torrent
    <3>3. CASE ~ SaveTorrent(q) /\ ~ FlagDeleted(q)
      BY <3>3 DEF RequestStep, CheckTorrent, RetryUploads, RetryOneUpload, SendUpload,
           SendFails, MarkPending, MarkFails, SaveFails, BeginDelete, DispatchDelete, FlagFails
    <3> QED BY <3>1, <3>2, <3>3
  <2> QED BY <2>1, <2>2, <2>3, <2>4
<1>9. DeletionsSafe'
  <2>1. AllStored => AllStored'
    BY DEF AllStored
  <2>2. request \in [Requests -> Request]
    BY DEF TypeOK
  <2>3. CASE BeginDelete(q)
    <3>1. forced' \/ AllStored
      BY <2>3 DEF BeginDelete, SafeToDelete, CompletedIsStored, AllStored
    <3> QED BY <2>1, <3>1 DEF DeletionsSafe
  <2>4. CASE DispatchDelete(q)
    <3>1. forced' = forced /\ request[q].pc = "dispatch"
      BY <2>4 DEF DispatchDelete
    <3> QED BY <2>1, <3>1 DEF DeletionsSafe
  <2>5. CASE ~ BeginDelete(q) /\ ~ DispatchDelete(q)
    <3>1. UNCHANGED <<fileOps, disk, forced>>
      BY <2>5 DEF RequestStep, CheckTorrent, RetryUploads, RetryOneUpload, SendUpload,
           SendFails, MarkPending, MarkFails, SaveTorrent, SaveFails, FlagDeleted, FlagFails
    <3>2. \A p \in Requests : request'[p].pc = "dispatch" => request[p].pc = "dispatch"
      <4>1. CASE CheckTorrent(q) \/ RetryUploads(q) \/ RetryOneUpload(q)
        BY <2>2, <4>1 DEF CheckTorrent, RetryUploads, RetryOneUpload, IdleRequest
      <4>2. CASE SendUpload(q) \/ SendFails(q)
        BY <2>2, <4>2, SendLocal DEF IdleRequest
      <4>3. CASE MarkPending(q) \/ MarkFails(q)
        <5>1. request[q] \in Request /\ Marked(q)
          BY <2>2, <4>3 DEF MarkPending, MarkFails
        <5> QED BY <2>2, <5>1 DEF Marked, Request
      <4>4. CASE SaveTorrent(q) \/ SaveFails(q) \/ FlagDeleted(q) \/ FlagFails(q)
        BY <2>2, <4>4 DEF SaveTorrent, SaveFails, FlagDeleted, FlagFails, Return, IdleRequest
      <4> QED BY <2>5, <4>1, <4>2, <4>3, <4>4 DEF RequestStep
    <3> QED BY <2>1, <3>1, <3>2 DEF DeletionsSafe
  <2> QED BY <2>3, <2>4, <2>5
<1> QED BY <1>2, <1>3, <1>4, <1>7, <1>8, <1>9 DEF Facts

\* A worker may publish what is true.
LEMMA EventAdded ==
  ASSUME Inductive, NEW f \in Files, NEW type \in {"started", "completed", "failed"},
         Publish(eventQueue, eventQueue', [type |-> type, file |-> f]),
         UNCHANGED consumer,
         type = "completed" => Stored(f),
         \A g \in Files : Stored(g) => Stored(g)'
  PROVE  EventsTruthful'
<1> DEFINE e == [type |-> type, file |-> f]
<1>1. e \in Event
  BY DEF Event
<1>2. \A i \in 1 .. Len(eventQueue') :
        eventQueue'[i] = e \/ \E j \in 1 .. Len(eventQueue) : eventQueue'[i] = eventQueue[j]
  <2> HIDE DEF e
  <2> QED BY <1>1, PublishType DEF Inductive, TypeOK, e
<1>3. ASSUME NEW i \in 1 .. Len(eventQueue'), eventQueue'[i].type = "completed"
      PROVE  \E g \in Files : eventQueue'[i].file = g /\ Stored(g)'
  <2>1. CASE eventQueue'[i] = e
    BY <1>3, <2>1
  <2>2. ASSUME NEW j \in 1 .. Len(eventQueue), eventQueue'[i] = eventQueue[j]
        PROVE  \E g \in Files : eventQueue'[i].file = g /\ Stored(g)'
    BY <1>3, <2>2, EventFiles DEF Inductive, EventsTruthful, Truthful
  <2> QED BY <1>2, <2>1, <2>2
<1>4. \A i \in 1 .. Len(eventQueue') : Truthful(eventQueue[i])'
  BY <1>3 DEF Truthful, Stored
<1>5. \A c \in Consumers : consumer[c].pc # "idle" => consumer[c].event.file \in Files
  BY EventFiles DEF Inductive
<1>6. \A c \in Consumers : consumer'[c].pc # "idle" => Truthful(consumer[c].event)'
  BY <1>5 DEF Inductive, EventsTruthful, Truthful
<1> QED BY <1>4, <1>6 DEF EventsTruthful

\* An upload is reported when it is done, or was found done.
LEMMA WorkerFacts ==
  ASSUME Inductive, DistinctObjects, NEW w \in Workers, WorkerStep(w),
         \A f \in Files : Stored(f) => Stored(f)'
  PROVE  Facts'
<1> USE DEF Inductive, database, storage, queues
<1>1. UNCHANGED <<status, torrent, disk, fileOps, request, consumer, reaper, forced>>
  BY DEF WorkerStep, TakeUpload, PublishStarted, OpenFile, FileMissing, UploadSucceeds,
         UploadRetries, UploadGivesUp, PublishCompleted, AckUpload, LoseUpload, CrashWorker
<1>2. (SomeStored => SomeStored') /\ (AllStored => AllStored')
  BY DEF SomeStored, AllStored
<1>3. SummariesTruthful' /\ CompletedIsStored' /\ SummaryIsStored' /\ DeletionsSafe'
  BY <1>1, <1>2 DEF SummariesTruthful, CompletedIsStored, SummaryIsStored, SomeStored, DeletionsSafe
<1>4. ASSUME worker[w].pc # "idle"
      PROVE  /\ worker[w] \in Worker
             /\ worker[w].upload.file \in Files
  <2>1. worker[w] \in Worker
    BY <1>4 DEF TypeOK, Idle
  <2> QED BY <2>1 DEF Worker, Upload
<1>5. UploadsTruthful'
  <2>1. worker \in [Workers -> Worker \cup {Idle}]
    BY DEF TypeOK
  <2>2. \A v \in Workers : worker[v].pc = "uploaded" => worker[v].upload.file \in Files
    BY <2>1 DEF Worker, Upload, Idle
  <2>3. ASSUME NEW v \in Workers, worker'[v].pc = "uploaded",
               NEW g \in Files, worker'[v].upload.file = g, Stored(g)'
        PROVE  Stored(worker[v].upload.file)'
    BY <2>3 DEF Stored
  <2>4. ASSUME NEW v \in Workers, worker'[v].pc = "uploaded"
        PROVE  \E g \in Files : worker'[v].upload.file = g /\ Stored(g)'
    <3>1. CASE worker'[v] = worker[v]
      BY <2>2, <2>4, <3>1 DEF UploadsTruthful
    <3>2. CASE TakeUpload(w) /\ v = w
      <4>1. Head(jobQueue) \in Upload
        BY <3>2, QueueEnds DEF TakeUpload, TypeOK
      <4>2. Head(jobQueue).file \in Files
        BY <4>1 DEF Upload
      <4>3. worker'[w].upload = Head(jobQueue) /\ object[ObjectOf[Head(jobQueue).file]] # NoFile
        BY <2>1, <2>4, <3>2 DEF TakeUpload
      <4>4. ObjectOf[Head(jobQueue).file] \in Objects
        BY <4>2, ObjectOfAssumption
      <4>5. object[ObjectOf[Head(jobQueue).file]] \in Files
        BY <4>3, <4>4 DEF TypeOK
      <4>6. Stored(Head(jobQueue).file)
        BY <4>2, <4>3, <4>4, <4>5 DEF ObjectsInPlace, DistinctObjects, Stored
      <4> QED BY <3>2, <4>2, <4>3, <4>6
    <3>3. CASE UploadSucceeds(w) /\ v = w
      <4>1. worker[w] \in Worker /\ worker[w].upload.file \in Files
        BY <1>4, <3>3 DEF UploadSucceeds
      <4>2. worker'[w].upload = worker[w].upload
        BY <2>1, <3>3, <4>1 DEF UploadSucceeds, Continue, Worker
      <4>3. PICK g \in Files : g = worker[w].upload.file
        BY <4>1
      <4>4. ObjectOf[g] \in Objects
        BY ObjectOfAssumption
      <4>5. object'[ObjectOf[g]] = g
        BY <3>3, <4>3, <4>4 DEF UploadSucceeds, StoreObject, TypeOK
      <4> QED BY <3>3, <4>2, <4>3, <4>5 DEF Stored
    <3>4. CASE LoseUpload(w) /\ v = w
      <4>1. worker[w] \in Worker /\ worker[w].upload.file \in Files
        BY <1>4, <3>4 DEF LoseUpload
      <4>2. worker'[w].upload = worker[w].upload /\ worker[w].pc = "uploaded"
        BY <2>1, <2>4, <3>4, <4>1 DEF LoseUpload, Worker
      <4> QED BY <3>4, <4>1, <4>2 DEF UploadsTruthful
    <3>5. CASE v # w
      BY <2>1, <3>1, <3>5 DEF WorkerStep, TakeUpload, PublishStarted, OpenFile, FileMissing,
         UploadSucceeds, UploadRetries, UploadGivesUp, PublishCompleted, AckUpload, LoseUpload,
         CrashWorker, Continue
    <3>6. CASE v = w /\ ~ (TakeUpload(w) \/ UploadSucceeds(w) \/ LoseUpload(w))
      BY <2>1, <2>4, <3>6 DEF WorkerStep, PublishStarted, OpenFile, FileMissing,
         UploadRetries, UploadGivesUp, PublishCompleted, AckUpload, CrashWorker, Continue, Worker, Idle
    <3> QED BY <3>2, <3>3, <3>4, <3>5, <3>6
  <2> QED BY <2>3, <2>4 DEF UploadsTruthful
<1>6. EventsTruthful'
  <2>1. \A i \in 1 .. Len(eventQueue) : eventQueue[i].file \in Files
    BY EventFiles
  <2>2. \A c \in Consumers : consumer[c].pc # "idle" => consumer[c].event.file \in Files
    BY EventFiles
  <2>3. ASSUME NEW type \in {"started", "completed", "failed"}, worker[w].pc # "idle",
               PublishEvent(w, type),
               type = "completed" => Stored(worker[w].upload.file)
        PROVE  EventsTruthful'
    <3>1. PICK f \in Files : f = worker[w].upload.file
      BY <1>4, <2>3
    <3>2. Publish(eventQueue, eventQueue', [type |-> type, file |-> f])
      BY <2>3, <3>1 DEF PublishEvent
    <3> QED BY <1>1, <2>3, <3>1, <3>2, EventAdded
  <2>4. CASE PublishStarted(w) \/ FileMissing(w) \/ UploadGivesUp(w)
    BY <2>3, <2>4 DEF PublishStarted, FileMissing, UploadGivesUp
  <2>5. CASE PublishCompleted(w)
    BY <2>3, <2>5 DEF PublishCompleted, UploadsTruthful
  <2>6. CASE UNCHANGED eventQueue
    BY <1>1, <2>1, <2>2, <2>6 DEF EventsTruthful, Truthful
  <2>7. UNCHANGED eventQueue \/ PublishStarted(w) \/ FileMissing(w) \/ UploadGivesUp(w)
          \/ PublishCompleted(w)
    BY DEF WorkerStep, TakeUpload, OpenFile, UploadSucceeds, UploadRetries, AckUpload,
           LoseUpload, CrashWorker
  <2> QED BY <2>4, <2>5, <2>6, <2>7
<1> QED BY <1>3, <1>5, <1>6 DEF Facts

\* Taking messages from the front of the queue leaves the others as true as before.
LEMMA EventsRemain ==
  ASSUME Inductive, eventQueue' \in {eventQueue, Tail(eventQueue)},
         eventQueue' # eventQueue => eventQueue # <<>>,
         \A g \in Files : Stored(g) => Stored(g)'
  PROVE  \A i \in 1 .. Len(eventQueue') : Truthful(eventQueue[i])'
<1>1. ASSUME NEW i \in 1 .. Len(eventQueue')
      PROVE  \E j \in 1 .. Len(eventQueue) : eventQueue'[i] = eventQueue[j]
  <2>1. CASE eventQueue' = eventQueue
    BY <1>1, <2>1
  <2>2. CASE eventQueue' = Tail(eventQueue) /\ eventQueue # <<>>
    <3>1. eventQueue \in Seq(Event)
      BY DEF Inductive, TypeOK
    <3>2. i + 1 \in 1 .. Len(eventQueue) /\ Tail(eventQueue)[i] = eventQueue[i + 1]
      BY <1>1, <2>2, <3>1, QueueEnds
    <3> QED BY <2>2, <3>2
  <2> QED BY <2>1, <2>2
<1>2. ASSUME NEW i \in 1 .. Len(eventQueue'), eventQueue'[i].type = "completed"
      PROVE  \E g \in Files : eventQueue'[i].file = g /\ Stored(g)'
  BY <1>1, <1>2, EventFiles DEF Inductive, EventsTruthful, Truthful
<1> QED BY <1>2 DEF Truthful, Stored

\* The handlers write what the events say.
LEMMA ConsumerFacts ==
  ASSUME Inductive, NEW c \in Consumers, ConsumerStep(c),
         \A f \in Files : Stored(f) => Stored(f)'
  PROVE  Facts'
<1> USE DEF Inductive, database, storage, queues
<1>1. UNCHANGED <<disk, fileOps, request, worker, reaper, forced>>
  BY DEF ConsumerStep, TakeEvent, TakeEventTwice, UpdateFile, Recompute, WriteSummary, StopConsumer
<1>2. (SomeStored => SomeStored') /\ (AllStored => AllStored')
  BY DEF SomeStored, AllStored
<1>3. consumer \in [Consumers -> Consumer \cup {Idle}]
  BY DEF TypeOK
<1>4. UploadsTruthful' /\ DeletionsSafe'
  <2>1. \A w \in Workers : worker[w].pc = "uploaded" => worker[w].upload.file \in Files
    BY DEF TypeOK, Worker, Upload, Idle
  <2> QED BY <1>1, <1>2, <2>1 DEF UploadsTruthful, DeletionsSafe
<1>5. ASSUME consumer[c].pc # "idle" PROVE consumer[c] \in Consumer /\ consumer[c].event \in Event
  BY <1>3, <1>5 DEF Idle, Consumer
<1>6. EventsTruthful'
  <2>1. \A i \in 1 .. Len(eventQueue') : Truthful(eventQueue[i])'
    BY EventsRemain DEF ConsumerStep, TakeEvent, TakeEventTwice, UpdateFile, Recompute,
                        WriteSummary, StopConsumer
  <2>2. ASSUME NEW d \in Consumers, consumer'[d].pc # "idle", consumer'[d].event.type = "completed"
        PROVE  \E g \in Files : consumer'[d].event.file = g /\ Stored(g)'
    <3>1. CASE consumer[d].pc # "idle" /\ consumer'[d].event = consumer[d].event
      BY <2>2, <3>1, EventFiles DEF EventsTruthful, Truthful
    <3>2. CASE eventQueue # <<>> /\ consumer'[d].event = Head(eventQueue)
      <4>1. Head(eventQueue) = eventQueue[1] /\ 1 \in 1 .. Len(eventQueue)
        BY <3>2, QueueEnds DEF TypeOK
      <4> QED BY <2>2, <3>2, <4>1, EventFiles DEF EventsTruthful, Truthful
    <3>3. CASE d # c
      BY <1>3, <2>2, <3>1, <3>3 DEF ConsumerStep, TakeEvent, TakeEventTwice, Start, UpdateFile,
         Recompute, WriteSummary, StopConsumer
    <3>4. CASE d = c /\ (TakeEvent(c) \/ TakeEventTwice(c))
      BY <1>3, <3>2, <3>4 DEF TakeEvent, TakeEventTwice, Start
    <3>5. CASE d = c /\ (UpdateFile(c) \/ Recompute(c))
      <4>1. consumer[c] \in Consumer
        BY <1>5, <3>5 DEF UpdateFile, Recompute
      <4> QED BY <1>3, <3>1, <3>5, <4>1 DEF UpdateFile, Recompute, Consumer
    <3>6. CASE d = c /\ (WriteSummary(c) \/ StopConsumer(c))
      BY <1>3, <2>2, <3>6 DEF WriteSummary, StopConsumer, Idle
    <3> QED BY <3>3, <3>4, <3>5, <3>6 DEF ConsumerStep
  <2>3. \A d \in Consumers : consumer'[d].pc # "idle" => Truthful(consumer[d].event)'
    BY <2>2 DEF Truthful, Stored
  <2> QED BY <2>1, <2>3 DEF EventsTruthful
<1>7. CompletedIsStored'
  <2>1. CASE UpdateFile(c)
    <3>1. consumer[c].pc # "idle" /\ consumer[c].event \in Event
      BY <1>5, <2>1 DEF UpdateFile
    <3>2. \A f \in Files : status'[f] = "Completed" => status[f] = "Completed" \/ Stored(f)
      BY <2>1, <3>1 DEF UpdateFile, StatusOf, EventsTruthful, Truthful, TypeOK, Event
    <3> QED BY <3>2 DEF CompletedIsStored
  <2>2. CASE ~ UpdateFile(c)
    <3>1. UNCHANGED status
      BY <2>2 DEF ConsumerStep, TakeEvent, TakeEventTwice, Recompute, WriteSummary, StopConsumer
    <3> QED BY <3>1 DEF CompletedIsStored
  <2> QED BY <2>1, <2>2
<1>8. SummariesTruthful'
  <2>1. ASSUME NEW d \in Consumers, consumer'[d].pc = "write", consumer'[d].cloud = "Completed"
        PROVE  SomeStored
    <3>1. CASE consumer'[d] = consumer[d]
      BY <2>1, <3>1 DEF SummariesTruthful
    <3>2. CASE d = c /\ Recompute(c)
      <4>1. consumer[c] \in Consumer
        BY <1>5, <3>2 DEF Recompute
      <4>2. Summary(status) = "Completed"
        BY <1>3, <2>1, <3>2, <4>1 DEF Recompute, Consumer
      <4> QED BY <4>2, SummaryCompleted DEF CompletedIsStored, SomeStored
    <3>3. CASE d # c
      BY <1>3, <3>1, <3>3 DEF ConsumerStep, TakeEvent, TakeEventTwice, Start, UpdateFile,
         Recompute, WriteSummary, StopConsumer
    <3>4. CASE d = c /\ ~ Recompute(c)
      BY <1>3, <2>1, <3>4 DEF ConsumerStep, TakeEvent, TakeEventTwice, Start, UpdateFile,
         WriteSummary, StopConsumer, Idle, Consumer
    <3> QED BY <3>2, <3>3, <3>4
  <2> QED BY <1>1, <1>2, <2>1 DEF SummariesTruthful
<1>9. SummaryIsStored'
  <2>1. ASSUME torrent'.cloud = "Completed" PROVE SomeStored
    <3>1. CASE WriteSummary(c)
      <4>1. consumer[c].cloud = "Completed"
        BY <2>1, <3>1 DEF WriteSummary, TypeOK, Torrent
      <4> QED BY <3>1, <4>1 DEF WriteSummary, SummariesTruthful
    <3>2. CASE ~ WriteSummary(c)
      BY <2>1, <3>2 DEF ConsumerStep, TakeEvent, TakeEventTwice, UpdateFile, Recompute,
         StopConsumer, SummaryIsStored, SomeStored
    <3> QED BY <3>1, <3>2
  <2> QED BY <1>2, <2>1 DEF SummaryIsStored, SomeStored
<1> QED BY <1>4, <1>6, <1>7, <1>8, <1>9 DEF Facts

\* Backoffs, the deletion of the local files, and the reaper.
LEMMA OtherFacts ==
  ASSUME Inductive, OtherStep, \A f \in Files : Stored(f) => Stored(f)'
  PROVE  Facts'
<1> USE DEF Inductive, database, storage, queues
<1>1. UNCHANGED <<eventQueue, request, worker, consumer, forced>>
  BY DEF OtherStep, Resend, ForgetRetry, DeleteFiles, Demote, ReaperRecompute, ReaperWrite,
         StopReaper
<1>2. (SomeStored => SomeStored') /\ (AllStored => AllStored')
  BY DEF SomeStored, AllStored
<1>3. UploadsTruthful'
  <2>1. \A w \in Workers : worker[w].pc = "uploaded" => worker[w].upload.file \in Files
    BY DEF TypeOK, Worker, Upload, Idle
  <2> QED BY <1>1, <2>1 DEF UploadsTruthful
<1>4. EventsTruthful'
  BY <1>1, EventFiles DEF EventsTruthful, Truthful
<1>5. CompletedIsStored'
  <2>1. \A f \in Files : status'[f] = "Completed" => status[f] = "Completed"
    BY DEF OtherStep, Resend, ForgetRetry, DeleteFiles, Demote, ReaperRecompute, ReaperWrite,
           StopReaper, TypeOK
  <2> QED BY <2>1 DEF CompletedIsStored
<1>6. SummariesTruthful'
  <2>1. reaper'.cloud = "Completed" => SomeStored
    <3>1. CASE ReaperRecompute
      BY <3>1, SummaryCompleted DEF ReaperRecompute, CompletedIsStored, SomeStored
    <3>2. CASE ReaperWrite
      BY <3>2 DEF ReaperWrite, IdleReaper
    <3>3. CASE StopReaper
      BY <3>3 DEF StopReaper, IdleReaper
    <3>4. CASE ~ ReaperRecompute /\ ~ ReaperWrite /\ ~ StopReaper
      <4>1. reaper'.cloud = reaper.cloud
        BY <3>4 DEF OtherStep, Resend, ForgetRetry, DeleteFiles, Demote, TypeOK, Reaper
      <4> QED BY <4>1 DEF SummariesTruthful
    <3> QED BY <3>1, <3>2, <3>3, <3>4
  <2> QED BY <1>1, <1>2, <2>1 DEF SummariesTruthful
<1>7. SummaryIsStored'
  <2>1. torrent'.cloud \in {torrent.cloud, reaper.cloud}
    BY DEF OtherStep, Resend, ForgetRetry, DeleteFiles, Demote, ReaperRecompute, ReaperWrite,
           StopReaper, TypeOK, Torrent
  <2> QED BY <1>2, <2>1 DEF SummaryIsStored, SummariesTruthful, SomeStored
<1>8. DeletionsSafe'
  <2>1. CASE DeleteFiles
    BY <1>1, <1>2, <2>1 DEF DeleteFiles, DeletionsSafe
  <2>2. CASE ~ DeleteFiles
    <3>1. UNCHANGED <<disk, fileOps>>
      BY <2>2 DEF OtherStep, Resend, ForgetRetry, Demote, ReaperRecompute, ReaperWrite,
         StopReaper
    <3> QED BY <1>1, <1>2, <3>1 DEF DeletionsSafe
  <2> QED BY <2>1, <2>2
<1> QED BY <1>3, <1>4, <1>5, <1>6, <1>7, <1>8 DEF Facts

\* The inductive invariant: what is in flight, and what was read earlier, never says
\* more than what is in the cloud.
THEOREM InductiveInvariant ==
  ASSUME DistinctObjects
  PROVE  Spec => []Inductive
<1>1. Init => Inductive
  <2> SUFFICES ASSUME Init PROVE Inductive
    OBVIOUS
  <2>1. ObjectsInPlace /\ CompletedIsStored
    BY DEF Init, ObjectsInPlace, CompletedIsStored
  <2>2. UploadsTruthful /\ EventsTruthful
    BY DEF Init, UploadsTruthful, EventsTruthful, Idle
  <2>3. SummariesTruthful /\ SummaryIsStored /\ DeletionsSafe
    BY DEF Init, SummariesTruthful, SummaryIsStored, DeletionsSafe, Idle, IdleReaper,
           IdleRequest, NoTorrent
  <2> QED BY <2>1, <2>2, <2>3, InitType DEF Inductive
<1>2. Inductive /\ [Next]_vars => Inductive'
  <2> SUFFICES ASSUME Inductive, [Next]_vars PROVE Inductive'
    OBVIOUS
  <2>1. ObjectsInPlace' /\ \A f \in Files : Stored(f) => Stored(f)'
    BY StoredStays DEF Inductive
  <2>2. CASE Next
    <3>1. TypeOK'
      BY <2>2, Actors, RequestType, WorkerType, ConsumerType, OtherType DEF Inductive
    <3>2. Facts'
      BY <2>1, <2>2, Actors, RequestFacts, WorkerFacts, ConsumerFacts, OtherFacts
    <3> QED BY <2>1, <3>1, <3>2 DEF Inductive, Facts
  <2>3. CASE UNCHANGED vars
    BY <2>3 DEF vars, Inductive, TypeOK, ObjectsInPlace, UploadsTruthful, EventsTruthful, Truthful,
       SummariesTruthful, DeletionsSafe, CompletedIsStored, SummaryIsStored, SomeStored, AllStored, Stored
  <2> QED BY <2>2, <2>3
<1> QED BY <1>1, <1>2, PTL DEF Spec

\* A row that says Completed has its content in the cloud.
THEOREM CompletedStored ==
  ASSUME DistinctObjects
  PROVE  Spec => []CompletedIsStored
<1>1. Inductive => CompletedIsStored
  BY DEF Inductive
<1> QED BY <1>1, InductiveInvariant, PTL

\* Without force, no local copy goes before the file is in the cloud.
THEOREM DeletedStored ==
  ASSUME DistinctObjects
  PROVE  Spec => []DeletedIsStored
<1>1. Inductive => DeletedIsStored
  BY DEF Inductive, DeletionsSafe, DeletedIsStored, AllStored
<1> QED BY <1>1, InductiveInvariant, PTL

\* The summary of the torrent says Completed only when some file is in the cloud.
THEOREM SummaryStored ==
  ASSUME DistinctObjects
  PROVE  Spec => []SummaryIsStored
<1>1. Inductive => SummaryIsStored
  BY DEF Inductive
<1> QED BY <1>1, InductiveInvariant, PTL

=============================================================================

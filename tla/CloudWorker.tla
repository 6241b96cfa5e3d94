----------------------------- MODULE CloudWorker ----------------------------
(***************************************************************************)
(* The workers: CloudUploadHandler, the goroutines in which it retries an  *)
(* upload later, and the deletion of the torrent's files by FileOpsHandler. *)
(***************************************************************************)
EXTENDS CloudState

\* Mutant of TakeUpload: an error of HeadObject counts as "there".
TakeUploadTrusting(w) ==
  /\ worker[w].pc = "idle"
  /\ jobQueue # <<>>
  /\ jobQueue' = Tail(jobQueue)
  /\ LET m == Head(jobQueue)
         Begin(pc) == worker' = [worker EXCEPT ![w] = [pc |-> pc, upload |-> m, held |-> TRUE]]
     IN \/ object[ObjectOf[m.file]] # NoFile /\ Begin("uploaded") /\ UNCHANGED faults
        \/ object[ObjectOf[m.file]] = NoFile /\ Begin("begin") /\ UNCHANGED faults
        \/ object[ObjectOf[m.file]] = NoFile /\ Begin("uploaded") /\ Fault("storage")
  /\ UNCHANGED <<database, storage, eventQueue, fileOps, backoff, request, consumer,
                 reaper, forced>>

\* A delivery. When the object is there the upload is skipped; HeadObject's errors
\* count as "not there".
TakeUpload(w) ==
  /\ worker[w].pc = "idle"
  /\ jobQueue # <<>>
  /\ jobQueue' = Tail(jobQueue)
  /\ LET m == Head(jobQueue)
         Begin(pc) == worker' = [worker EXCEPT ![w] = [pc |-> pc, upload |-> m, held |-> TRUE]]
     IN \/ object[ObjectOf[m.file]] # NoFile /\ Begin("uploaded") /\ UNCHANGED faults
        \/ object[ObjectOf[m.file]] = NoFile /\ Begin("begin") /\ UNCHANGED faults
        \/ object[ObjectOf[m.file]] # NoFile /\ Begin("begin") /\ Fault("storage")
  /\ UNCHANGED <<database, storage, eventQueue, fileOps, backoff, request, consumer,
                 reaper, forced>>

Continue(w, pc) == worker' = [worker EXCEPT ![w].pc = pc]

\* An error of the publication is logged or ignored: for the queue it is a lost event.
PublishEvent(w, type) ==
  Publish(eventQueue, eventQueue', [type |-> type, file |-> worker[w].upload.file])

PublishStarted(w) ==
  /\ worker[w].pc = "begin"
  /\ Continue(w, "open")
  /\ PublishEvent(w, "started")
  /\ UNCHANGED <<database, storage, jobQueue, fileOps, backoff, request, consumer,
                 reaper, forced>>

\* An open file can be read to its end, whatever happens to its name.
OpenFile(w) ==
  /\ worker[w].pc = "open" /\ worker[w].upload.file \in disk
  /\ Continue(w, "uploading")
  /\ UNCHANGED <<database, storage, queues, request, consumer, reaper, forced, faults>>

FileMissing(w) ==
  /\ worker[w].pc = "open" /\ worker[w].upload.file \notin disk
  /\ Continue(w, "done")
  /\ PublishEvent(w, "failed")
  /\ UNCHANGED <<database, storage, jobQueue, fileOps, backoff, request, consumer,
                 reaper, forced>>

StoreObject(w) ==
  object' = [object EXCEPT ![ObjectOf[worker[w].upload.file]] = worker[w].upload.file]

UploadSucceeds(w) ==
  /\ worker[w].pc = "uploading"
  /\ StoreObject(w)
  /\ Continue(w, "uploaded")
  /\ UNCHANGED <<database, disk, queues, request, consumer, reaper, forced, faults>>

\* An upload that reports an error may have stored the object all the same.
\* requeueForRetry: the message is acknowledged, and a goroutine sends the next try
\* after a while.
UploadRetries(w) ==
  /\ worker[w].pc = "uploading" /\ worker[w].upload.retry < MaxRetry
  /\ Fault("storage")
  /\ backoff' = [backoff EXCEPT ![[worker[w].upload EXCEPT !.retry = @ + 1]] = @ + 1]
  /\ StoreObject(w) \/ UNCHANGED object
  /\ Continue(w, "done")
  /\ UNCHANGED <<database, disk, jobQueue, eventQueue, fileOps, request, consumer,
                 reaper, forced>>

UploadGivesUp(w) ==
  /\ worker[w].pc = "uploading" /\ worker[w].upload.retry = MaxRetry
  /\ "storage" \in Faults
  /\ StoreObject(w) \/ UNCHANGED object
  /\ Continue(w, "done")
  /\ PublishEvent(w, "failed")
  /\ UNCHANGED <<database, disk, jobQueue, fileOps, backoff, request, consumer,
                 reaper, forced>>

PublishCompleted(w) ==
  /\ worker[w].pc = "uploaded"
  /\ Continue(w, "done")
  /\ PublishEvent(w, "completed")
  /\ UNCHANGED <<database, storage, jobQueue, fileOps, backoff, request, consumer,
                 reaper, forced>>

AckUpload(w) ==
  /\ worker[w].pc = "done"
  /\ worker' = [worker EXCEPT ![w] = Idle]
  /\ UNCHANGED <<database, storage, queues, request, consumer, reaper, forced, faults>>

\* The connection is lost: the broker returns the message to its queue while the
\* handler goes on.
LoseUpload(w) ==
  /\ worker[w].pc # "idle" /\ worker[w].held
  /\ Fault("connection")
  /\ worker' = [worker EXCEPT ![w].held = FALSE]
  /\ jobQueue' = <<worker[w].upload>> \o jobQueue
  /\ UNCHANGED <<database, storage, eventQueue, fileOps, backoff, request, consumer,
                 reaper, forced>>

\* A crash is a lost connection that the handler does not survive.
CrashWorker(w) ==
  /\ worker[w].pc # "idle" /\ ~ worker[w].held
  /\ worker' = [worker EXCEPT ![w] = Idle]
  /\ UNCHANGED <<database, storage, queues, request, consumer, reaper, forced, faults>>

WorkerStep(w) ==
  \/ TakeUpload(w) \/ PublishStarted(w) \/ OpenFile(w) \/ FileMissing(w)
  \/ UploadSucceeds(w) \/ UploadRetries(w) \/ UploadGivesUp(w)
  \/ PublishCompleted(w) \/ AckUpload(w) \/ LoseUpload(w) \/ CrashWorker(w)

\* Mutant of Resend: the try is counted a second time.
ResendCountedTwice(m) ==
  /\ backoff[m] > 0
  /\ backoff' = [backoff EXCEPT ![m] = @ - 1]
  /\ Publish(jobQueue, jobQueue', [m EXCEPT !.retry = @ + 1])
  /\ UNCHANGED <<database, storage, eventQueue, fileOps, request, worker, consumer,
                 reaper, forced>>

\* The end of a backoff.
Resend(m) ==
  /\ backoff[m] > 0
  /\ backoff' = [backoff EXCEPT ![m] = @ - 1]
  /\ Publish(jobQueue, jobQueue', m)
  /\ UNCHANGED <<database, storage, eventQueue, fileOps, request, worker, consumer,
                 reaper, forced>>

\* The goroutine dies with its worker, or its Send fails. The failed upload was
\* counted as a fault already.
ForgetRetry(m) ==
  /\ backoff[m] > 0
  /\ {"connection", "send"} \cap Faults # {}
  /\ backoff' = [backoff EXCEPT ![m] = @ - 1]
  /\ UNCHANGED <<database, storage, jobQueue, eventQueue, fileOps, request, worker,
                 consumer, reaper, forced, faults>>

\* handleDeleteTorrentDir: RemoveAll stops at its first error. A worker that loses its
\* connection, or crashes, is sent the deletion again.
DeleteFiles ==
  /\ fileOps > 0
  /\ \/ fileOps' = fileOps - 1 /\ UNCHANGED faults
     \/ UNCHANGED fileOps /\ Fault("connection")
  /\ \E kept \in SUBSET disk : disk' = kept
  /\ UNCHANGED <<database, object, jobQueue, eventQueue, backoff, request, worker,
                 consumer, reaper, forced>>

=============================================================================

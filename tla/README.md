# A verification of magnet2video

TLA+ models of magnet2video, their model-checking runs and machine-checked proofs.
All paths below are relative to the repository. `PROJECT.json` is the index: which
definition models which lines, what each run checks, which mutation of the code
breaks each property, and which hazards of the code the properties are for.

## 1. The system

magnet2video downloads torrents, transcodes their videos for the browser and
uploads the results to object storage. A *server* owns the database and answers
HTTP requests; *workers* own the disk, the BitTorrent client and ffmpeg. They
communicate only through queues, so they can run in one process (`mode=all`) or in
several, and both may be replicated. MySQL holds the rows, Redis holds caches,
heartbeats and idempotency keys, RabbitMQ (or an in-memory broker) the queues.

### Components

| component | code | state | operations |
|---|---|---|---|
| transcode service | `pkg/serve/service/impl/transcode_service_impl.go` | `torrents`, `torrent_files`, `transcode_jobs` rows | check and queue, retry, cancel, requeue |
| transcode worker | `internal/transcode/handler`, `internal/transcode/ffmpeg` | the delivery at hand | run a job, report progress, success, failure |
| event gateway | `internal/events/gateway`, `internal/events/types` | none | publish one event with a fresh id |
| event processor | `internal/events/processor/processor.go` | the rows; idempotency keys in Redis | one handler for each event type; the aggregates of the torrents row; follow-up jobs |
| reaper | `internal/events/processor/reaper.go` | the rows | demote rows that are stuck in a mid-state |
| message queue | `internal/queue` | queues, unacknowledged deliveries, connections | send with one reconnect, consume, acknowledge, requeue |
| cloud upload | `internal/cloud/handler`, `pkg/serve/controller/torrent_controller.go` | cloud columns of the rows, delayed retries in memory | upload, delayed retry, manual retry, delete local files |
| download control | `torrent_service_impl.go`, `internal/torrent/handler` | download columns of the torrents row, progress cache, tracked torrents | start, pause, resume, remove, seed; report progress; re-dispatch after a restart of a worker or of the server |
| magnet parsing | `internal/torrent/replybus`, `parse_magnet_handler.go`, `parse_magnet_results_consumer.go` | map of waiting calls in each replica, metadata cache | request, reply, timeout |
| torrent manager | `internal/torrent/internal/manager.go` | client map, map of mutexes, the library's handles | parse, start, pause, resume, restore, remove, read |
| file operations worker | `file_ops_handler.go` | files on disk | delete derived or local files |
| heartbeat | `internal/events/heartbeat` | worker status in Redis | beat, consume, list |
| accounts | `user_service_impl.go`, `internal/middleware/auth`, `cmd/shared.go` | users, issued tokens | register, log in, change profile, password and role, restore the super admin |
| torrent rows and lists | `torrent_service_impl.go`, `user_service_impl.go`, `internal/cache` | torrents, files, posters; lists cached in Redis | what requests change; cache, invalidate |
| administration | `admin_service_impl.go` | all rows | delete user or torrent, change a role, reset transcoding |
| domain layer | `domain`, `internal/repository` | aggregates in memory | load, change, save; nothing of the running program uses it yet |
| object storage clients, HTTP, configuration, AI, TMDB, mail, i18n, logging | `internal/cloud/internal`, `pkg/router`, ... | – | – |

### How they interact

A completed download makes the processor start `CheckAndQueueTranscode`
(`TriggerTranscodeCheck`, a goroutine; also at start-up). The service inserts a job
row, sends a message on `transcode-jobs` and, if Send reported no error, marks the
file row Pending. A worker consumes the job and publishes `transcode.job.started`,
`.progress`, `.completed` or `.failed` on `worker-events`; a server replica consumes
each event, sets the key `worker:event:seen:<event_id>` (SETNX, five minutes),
updates job and file rows, inserts a row for the output at `MAX(index)+1` and
recomputes the aggregate of the torrents row. The reaper of each server looks for
rows that have been Pending or Processing longer than a timeout. Cloud uploads and
download commands go the same way over queues of their own. Parsing a magnet is a
remote call: a request queue, a result queue, and an in-memory bus in the server
replica that waits.

A download belongs to the worker whose progress events claim it (`worker_id` of the row).
All workers consume one queue of commands; one whose target is another worker is handed
back to the queue (`ErrNotForMe`). The first heartbeat of a worker's process, and the start
of a server, send the start commands of the unfinished torrents again. In the worker two
consumers and the goroutines of `RestoreTorrent` share a client whose operations on one
info hash are meant to exclude each other. Requests of users and admins change the same rows
and drop the cached lists they know of.

### What is hard

* **Interleaving.** No transaction spans two statements of a handler (the insertion
  of an output excepted), service calls run concurrently with the events of the jobs
  they started, several replicas consume one queue.
* **Delivery.** The producer uses no publisher confirms and repeats a publication
  after a reconnect: messages are lost or duplicated. A lost connection redelivers
  what was not acknowledged while the old handler may still be running. Nothing
  orders the events of two runs.
* **Partial failure.** Many errors of statements are ignored, others end a handler
  whose message is acknowledged all the same; the idempotency key set before the
  handler makes a redelivery of that event a duplicate.
* **Timeouts.** The reaper races late events, a caller's deadline races the reply,
  a delayed retry lives in memory only, a parse that gives up drops a handle others may use.
* **Routing.** A command goes from hand to hand until it meets its worker; who that is was
  read from a row that events change.
* **Stale writes.** gorm's `Save` writes every column of a row read earlier; caches are
  filled by goroutines that read before an invalidation.
* **Locks and channels.** A map of mutexes whose entries are deleted while others wait for
  them; bounded channels that consumers fill for one another.
* **Boundaries.** Percentages, the free index of a new row, five attempts.

### What makes each component correct

* *Service*: a row is Pending only if a job was sent; a failed Send leaves no trace in
  the file row; completed files are left alone by a requeue.
* *Worker and processor*: a row is Completed only if its file was encoded; an output
  gets one row; aggregates are percentages.
* *Derived rows*: a row is lost to the unique index only under real contention.
* *Reaper*: no row stays in a mid-state; finished rows and fresh rows are spared.
* *Parsing*: one outcome for each call, truthful metadata, no leak in the map.
* *Cloud upload*: a row or a summary says Completed only of what is in the cloud, no
  local file is deleted that is nowhere else, a retry does not overwrite other columns.
* *Download control*: one worker runs a torrent, and it is the one the row names; when
  nothing is under way, row and workers agree.
* *Torrent manager*: one operation at a time for an info hash; the client's map and the
  library agree; operations end.
* *Queue*: what was accepted is kept until it was dealt with, but for what goes with the
  producer's connection or, in mode all, with a closed consumer or the process; copies are
  paid for by faults; consumers resume; nothing waits in a circle but in one known way.
* *Rows and lists*: an answered change survives, cached lists are right or about to go, a
  deleted torrent leaves nothing behind.
* *Domain layer*: a torrent's life goes forwards; its cloud summary is the services', its
  transcode summary differs from theirs in three known ways.

## 2. Modules

| module | models |
|---|---|
| `TranscodeState` | rows, queues, keys and goroutine-local state of the transcode path; faults; Send |
| `TranscodeService` | the four methods of `TranscodeServiceImpl` |
| `TranscodeWorker` | `TranscodeHandler.Handle` and the consumer around it |
| `EventProcessor` | the transcode handlers of `WorkerEventProcessor` |
| `Reaper` | the transcode passes of the reaper |
| `TranscodePipeline` | composes the four; specification, properties, fairness |
| `MCTranscodePipeline` | model values and symmetry |
| `TranscodeProofs` | theorems about `TranscodePipeline` |
| `DerivedRows`, `MCDerivedRows` | the indexes of inserted file rows, their run |
| `CloudState` | rows, disk, cloud objects, queues and goroutine-local state of the cloud copies; faults; the summary |
| `CloudRequests` | the check of files that need no transcoding, both retries, `DeleteLocalFiles` |
| `CloudWorker` | `CloudUploadHandler`, its delayed retries, the deletion by `FileOpsHandler` |
| `CloudEvents` | the cloud upload handlers of `WorkerEventProcessor`, the cloud passes of the reaper |
| `CloudUpload` | composes the three; specification, properties, inductive invariant |
| `MCCloudUpload`, `CloudUploadProofs` | cloud paths and symmetry for the runs; theorems about `CloudUpload` |
| `ParseCalls` | abstract: what a caller that needs metadata is promised |
| `ParseMagnet`, `MCParseMagnet`, `ParseMagnetProofs` | bus, queues, workers and results consumers; their run; the proof that they implement `ParseCalls` |
| `DownloadState` | the torrents row, commands, events and local state of the download of one torrent; faults |
| `DownloadService` | the six calls of `TorrentServiceImpl`, `RedispatchActiveTorrents` and what calls it |
| `DownloadWorker` | `DownloadJobHandler`, the client as far as it matters, `ProgressReporter`, crash, boot and heartbeat |
| `DownloadEvents` | the download handlers of `WorkerEventProcessor` |
| `DownloadControl`, `MCDownloadControl`, `DownloadProofs` | compose the three; specification, properties; symmetry; theorems |
| `TorrentClient`, `MCTorrentClient`, `TorrentClientProofs` | `Client` of the torrent manager and the library's handles; their run; theorems |
| `RabbitQueue`, `RabbitConsumers` | producer and consumers of RabbitMQ, connections, the broker's queue |
| `MemoryQueue` | the channels of mode all and the goroutines that fill and empty them |
| `QueuePromise` | abstract: what the handlers of a topic are promised |
| `Queue`, `MCQueue`, `QueueProofs` | either of the two, under that promise; their run; theorems, the proof that they implement it among them |
| `Accounts` | the users table, tokens, requests of users |
| `TorrentRows` | a torrent's row, files and posters; one cached list |
| `Library`, `MCLibrary`, `LibraryProofs` | compose the two with the deletions by an admin and restarts; their run; theorems |
| `Aggregates`, `MCAggregates` | the torrent aggregate, its mapper and repository; the services' summaries |
| `RowsProofs` | theorems about `DerivedRows` and `Aggregates` |

### The transcode path

State: `file`, `stale`, `jobs`, `torrent`, `derived` are columns of the rows (`stale`
says that `updated_at` is behind the reaper's cutoff); `jobQueue` and `eventQueue`
the queues; `seen` the idempotency keys; `request`, `worker`, `consumer` and `reaper`
the local variables and program counters of the goroutines. `runs`, `sent` and
`encoded` are history, read by no guard except to number runs.

Every database statement, every Send and every SETNX is an action of its own; code
between two of them touches only local variables and belongs to the action before.
So everything that can interleave does. A call reads its rows once at its start
(`Load`, `Retry`, `Cancel`, `Requeue`) and acts on what it read. `StatementFails`,
`LastStatementFails`, `UpdateFails`, `DemoteFails` and `PassFails` follow the error
handling statement by statement: which errors end the method, which are ignored.

Deliveries: `LoseJob`/`LoseEvent` return the message to the queue while the handler
goes on, and a `Crash` is a lost connection that the handler does not survive. A
redelivered job is a new run with fresh event ids, a redelivered event keeps its id.

Abstractions: one torrent, whose download is completed and stays so; cloud storage
disabled (files that need no transcoding are then skipped); ffmpeg is a choice
between success and failure; extraction of subtitles is in `DerivedRows`; the
transaction that inserts the output's row is one action in `EventProcessor` and
detailed in `DerivedRows`; expiry of an idempotency key is the fault `redis`. The
bounds `MaxJobs`, `MaxRuns` and `MaxFaults` are guards of the actions that count.

### Derived rows

Originals have the indexes `0 .. Originals-1`. A completed event chooses
`MAX(index)+1` in a transaction whose snapshot starts with that read, and tries again
when the unique index rejects the row, `maxAttempts` times; a subtitle event chooses
COUNT and tries once, and ignores an error of COUNT. `ResetTranscode` reads the
derived rows and deletes them by their ids later. `inserts`, `since`, `last` and
`overlap` are history. The unique index is assumed to exist (`migration.go` creates
it unless there are duplicates already).

### Parsing a magnet

`pending` joins the maps of all replicas' buses (`Home` says whose bus a call uses),
`channel` the buffered channels. `Timeout` and `Cancel` are separate, as are the
removal of the registration under the lock (`MatchResult`) and the send into the
channel (`Deliver`): the races between them are explored. Results go to any replica.
A crash of a replica takes its calls and its bus with it. `ParseCalls` hides all of
it: it knows outcomes and answers only, and `KeepsPromise` states the refinement.

### Cloud upload

`status` is `torrent_files.cloud_upload_status`, `torrent` the columns
`cloud_upload_status` and `local_deleted` of the torrents row, `disk` the files the
worker still has, `object[o]` the file whose content is at the cloud path `o`.
`ObjectOf` is the cloud path a file gets, which the code makes of its base name: two
files may share one. `backoff[m]` counts the goroutines that sleep before they
send `m` again, `fileOps` the deletions under way. `forced` is history.

As on the transcode path, statements, publications and calls of the object store are
actions of their own. A retry keeps what it read in `copy` and `localDeleted` and ends with gorm's
`Save` of the whole torrents row (`SaveTorrent`); the file rows that are saved
along are only inserted where missing, none of their columns is written. An attempt to upload
opens the file first, so a deletion may happen while it is being read, and one that reports
an error may have stored the object. A deletion stops anywhere, and may be delivered twice.
Two attempts for one file run side by side after a forced retry, a second check or a
redelivery.

Abstractions: cloud storage is enabled, the files are selected videos that need no
transcoding, the download is completed (so `DeleteLocalFiles` leaves the download status
alone); its last call, `PauseDownload`, belongs to the download. Of the summary only the status is
kept. The reaper may find any row in a mid-state past its timeout, at any time: what holds
then holds for every timeout. An expired idempotency key, or Redis down, is the fault
`redis`: the event is handled and stays in the queue. `Calls`, `Faults`, `MaxFaults` and
`MaxRetry` bound the runs; nothing else does.

### Download control

`row` is the torrents row (status, owner, deletion), `commands` and `events` the queues,
`worker[m]` the process of machine `m`: its identity, the torrent in its client
(`absent`, `fetching` metadata, `active`, `paused`), what its reporter tracks, the command at
hand. `disk` are the machines that have the files. A call is the statement before its Send,
the Send, and the statement after it (`StartRow`, `Send`, `UpdateRow`): StartDownload writes
first, all others last. No call looks at the status of the row, and only ResumeSeed asks that it
is not deleted, so every kind may be called at any time (`Begin`); the statement writes nothing
if there is no row (`IfPresent`). A worker takes a command (`Deliver`), hands it back (`NotForMe`) or
handles it. `Report` and `EndReport` are a round of the reporter around its publication;
`EndReport` stores the status, and publishes completion when it is new. `LoadActive` reads the
row for a recovery, `Redispatch` publishes the command.

Three histories name what the code does not exclude. `crowded`: a command was sent, or a
failure written, while the effects of the one before were under way, or a call begun while
another had not returned, so that late ones win;
this covers a Resume after a worker's restart whose failure event the call's own statement
overwrites, and a `FailRow` between a recovery's read and its publication.
`loose`: a command besides the first start went without a target, or the first start was redelivered, either of which may start the torrent
on a second worker. `hollow`: a ResumeSeed wrote Completed when no worker had the files.

Simplifications: handler and statement of an event are one step, since the only consumer
handles one at a time; what lies between a handler's end and its acknowledgement is covered
by `LoseConnection`; all heartbeats that start one recovery are one element of `loading`;
torrents whose local files were deleted are left out of `LoadActive`; percentages are
completed or not; the calls are finite in number.

### The torrent client

`handle[h]` is what the library returned for the torrent: alive until dropped, with metadata
from some time on, wanted if some file has a priority. `torrents` and `locks` are the entries
of the client's two maps. Getting a mutex out of the map (`InfoHashLock`, part of
`Begin`) and locking it (`Lock`) are two steps, as in the code. A start whose
magnet is parsed first takes the mutex twice. `RestoreTorrent` takes none; its goroutine
waits for the metadata (`restoring`). `orphaned` says that a mutex was made while another
thread had the one that RemoveTorrent deleted from the map; `shared` that a parse waited for
a handle RestoreTorrent had put, or was about to put, into the map. These are the two races
of the code, which the comments of the properties name: after them `NoStray` promises nothing.

### Queues

`RabbitQueue` has one queue: the copies of each message in it, the producer's connection,
`Send` with its one reconnection. A publication over a connection that dies may have been
taken (then it is repeated), or vanish with a connection that nobody noticed, for there are no
confirms. `RabbitConsumers` is the loop of `consumeMessages`: delivery, acknowledgement
also of failures, `ErrNotForMe` with its pause and its Nack, the closed channel, reconnection,
resubscription and its failure. `MemoryQueue` has the buffered channels of mode all with a
capacity `BufSize`, and as workers of them the event processor, the uploader, the checker of
transcodes, the commander that puts commands for others back, and what they send. Consumers are
closed one by one in the order in which main ends them (`Close`). A closed one may still take
messages, but its Send fails (`GiveUp`), and the goroutines that were to put its commands back
end (`Discard`, channel.go:142). The process may stop or be killed at any moment, with all that
it holds (`Stop`). `posted`, `handled`, `lost` and `forgone` are history.
`QueuePromise` is what both are for: it knows how often a message was sent, how many copies wait
and how often a handler has dealt with it, and whether the queue is shut, when copies may go. `Broker`
and `Channel` in `Queue` say what of their state that is: for RabbitMQ, which is never shut, the
copies the broker holds or has delivered over a connection that lives; for mode all every
event, upload and command in its channel or parked, shut when a consumer is closed or the
process has ended. `KeepsPromise` states both refinements.

### Accounts, rows and lists

A request is two or three steps: read and check, perhaps the deletion or upload of a file, and
the last write with the invalidation (`Begin...`, the operation). `Save` writes the row that
was read with one column changed; it inserts the row again if it is gone. `intended` and
`plan` are what the rows would be if every request changed only what it is about;
`clobbered` and `spoilt` mark rows a Save has written over. Deletions by an admin are
`DeleteObjects`, `DeleteFiles`, `DeleteTorrentRow(s)`, `DeleteUser`. Of the cached lists one
is watched (`list`, chosen initially): a user's own, or that of the internal page. The public
list is the internal one with a narrower filter. `loading` is a goroutine that stores what it
has read, `dropping` one that deletes keys. Status merges paused and seeding stopped.

### Aggregates

`row` and `files` are the tables, `held[c]` what client `c` has loaded or computed. `Save`
writes every column, as the mapper makes them: `imdb_id` and `deleted` are not in the
aggregate, so saving erases the one and resets the other. `stale` and `forced` mark an aggregate
whose row has changed since, and one to which `UpdateProgress` gave a status. The
services' summaries (`RecomputedCloud`, `RecomputedTranscode`) are translated from the event
processor. For the cloud they agree. For transcodes they differ in three cases, which
`SummariesAgree` names, and in no other: the services count every original file
(processor.go:664), the aggregate the selected videos (torrent.go:201), so that other marked
files (`OthersMarked`; any file can be marked) count for the services only; with nothing marked
the services say completed and 100, the aggregate none and 0; and with some but not all files
completed the services' progress is 0 until nothing waits and then 100, even if a file has
failed (processor.go:684-696), the aggregate's a percentage (torrent.go:231). Observed on the
way: the controller's
`recalculateTorrentCloudSummary` sets progress 100 when completed even if a file failed, the
other two give the percentage; `SaveFile` and `Save` are separate, so changed files are lost
unless saved one by one; `StartDownload` leaves `LocalDeleted`.

## 3. Runs

All runs allow a final state (`CHECK_DEADLOCK FALSE`): calls are finite in number, and
when they are served the system really stops.

| run | question | bounds |
|---|---|---|
| `TranscodeFaults` | is every mid-state resolved, and does the reaper spare finished rows, under any fault? | 1 file, call, worker, consumer; 1 progress value; 1 fault of 6 kinds; 2 runs |
| `TranscodeRequests` | do concurrent calls keep the rows truthful? | 2 files, 2 calls of any kinds, 2 jobs, 1 failing Send |
| `TranscodeReplicas` | does an output get one row? | 2 replicas, 2 runs, 1 duplication or lost connection |
| `DerivedRows` | when is a derived row lost? | 3 outputs, 2 subtitles, 2 attempts, any number of resets |
| `ParseMagnet` | one chance, one outcome, always an end? | 2 calls, 2 replicas, 1 worker, 2 faults of 6 kinds |
| `CloudUpload` | do rows claim only what is in the cloud, and is nothing deleted that is not? | 1 file, 2 calls of any kinds, forced or not, 1 worker, 1 replica, 1 fault of 7 kinds, 1 retry |
| `CloudSameName` | violation, see findings | 2 files with one cloud path, a check and a deletion, no fault |
| `Download` | one runner, the one the row names; agreement at rest? | 2 workers, 3 calls of 6 kinds in any status, 2 at a time, 1 fault of 8 kinds (2 when a recovery fails), 2 commands and 2 events in flight, up to the first state that is `loose` |
| `TorrentClient` | mutual exclusion, live entries, no stray handle, an end? | any number of operations by 2 threads, 1 waiting goroutine, 4 handles, 3 mutexes |
| `Queue` | is everything kept, is the promise implemented, and does everything move? | RabbitMQ: 2 messages, 2 consumers, any targets, 2 faults; channels: 1 place, 2 files, 2 downloads or transcodings, 3 commands, 1 other event, consumers closed and the process ended at any time |
| `Library` | do answered changes survive, are lists right, does nothing dangle? | super admin and user, 4 requests, 2 at a time, 1 fault or restart, 2 generations of the torrent, 1 poster, any one of 3 lists |
| `Aggregates` | forwards, and equal summaries but for the known differences? | 2 clients, 2 videos, 1 other original file, 3 calls besides `Save` |

Why these bounds are enough to be interesting: one fault is what separates the correct
runs from each of the failure modes listed as hazards, and each mutation in
`PROJECT.json` is found within the bounds; two files are what can be confused with one
another, two calls and two replicas what can race; two runs are a redelivery. In
`DerivedRows` three outputs suffice for one to exhaust its two attempts. In `CloudUpload` one
file suffices for all but the summary of several files, which the theorems cover; two
calls are a retry that overtakes an upload or a deletion. In `Download` two workers
suffice for a command to meet the wrong one and for a second runner; three calls are a start and
two that undo each other. Its constraint `Routed` leaves out what follows a `loose` state: there
the other three properties exclude `loose`, which is never taken back, so that nothing but types goes
unchecked, and these are proved; in `TorrentClient` one handle for the map, one for each thread and one
for a waiting goroutine are all that can be referred to at once, and a mutex for each
thread and the map, so these are no bounds at all. In `Library` two requests at a time
are the reader and the one that overtakes it. In `MemoryQueue` one place is the
smallest channel that fills, two files are more uploads than it takes, and the theorems are about any
room. Where a
property does not depend on bounds at all it is proved (section 5).

**Fairness.** `FairSpec` assumes only that time passes and that the reaper's goroutine
runs: a ticker in a server process that is restarted when it dies. Workers, consumers
and calls may stop for ever, which is what the reaper is for. In `ParseMagnet` only
the caller's own goroutine is fair: its Send returns, its 120 s deadline passes. In
`TorrentClient` goroutines run, there are peers that have the metadata, and a waiting thread gets
a mutex that is released again and again (strong fairness of `Lock`: Go hands a
mutex over to a starving goroutine). In `RabbitConsumers` the loops run, the broker delivers, and a
consumer that tries to reconnect again and again succeeds in the end; faults are bounded.
`StallsInOneWay` is an invariant and needs no fairness: it is about states in which none of the
guards holds that consumers and goroutines of the channels wait for (`CanProgress`). The rest of
their actions only assigns, so these are the states in which none of their steps is possible.

## 4. Findings and known disagreements

`CloudSameName` is checked as a run: cloud paths are made of base names. Of two files with
one base name in different directories of a torrent the second is never uploaded, because the
object is there already; both rows become Completed, and `DeleteLocalFiles`, against its
"refuse rather than silently nuke the only copy", deletes the second.

The models also reach these states, in which the code does not do what a comment or a
document says. The properties above are stated so that they are not hidden by them:

1. `scanAndDemote` (reaper.go:195) repeats the condition on the status, not the one on
   `updated_at`: a started event that is applied between scan and update refreshes a row
   that is demoted all the same.
2. `CheckAndQueueTranscode` sets the torrents row to Pending also when every Send failed,
   and nothing ever changes it, against the README's "MQ first, the database only on success"
   (transcode_service_impl.go:196).
3. `recomputeTranscodeProgress` counts a file twice that is Completed when its progress
   event is handled: 150 % (processor.go:729; the column's comment says 0-100). It is proved that
   200 is never exceeded, and 100 only when the event comes too late (`OverrunIsLate`).
4. A forced requeue resets by id a file that was completed after it had read the rows,
   against "Always skip: Completed" (transcode_service_impl.go:477).
5. A retry of uploads saves the whole torrents row it read at its start, and takes the mark
   `local_deleted` away that `DeleteLocalFiles` has set in between (torrent_controller.go:992).
6. A worker that gets another worker's command hands it back to the queue; the comment on
   `TargetWorkerID` (types.go:239-245) says it must "ack and ignore", which would lose it.
7. Two messages for two workers may be handed back for ever by the one that got the wrong
   one; the queue's comment (rabbitmq.go:20-23) expects that it "converges quickly".
8. In mode all the event processor, which queues an upload, and the uploader, which emits
   events, can wait for each other's full channels (channel.go:83, processor.go:585). Once they do
   they do so until one of them is closed or the process ends (`DeadlockStays`).
9. `RemoveTorrent` deletes the mutex that it holds and others wait for (manager.go:610): after
   that two operations on the torrent can run at once, against the comment on `locks`.
10. `ResumeSeed` reads the row and sends its command later (torrent_service_impl.go:570): if
   `RemoveTorrent` comes in between, the worker adds the removed torrent again, and the
   deleted row is Completed. `crowded` covers it since the proof of `RestAgrees` met it.
11. Without `WORKER_ID` a worker makes up a new id at each start (helpers.go:13). Nobody asks
   for the torrents of the old id: those are sent to the old id, by a starting server,
   or not at all, by a fresh heartbeat (torrent_service_impl.go:1199), against "re-dispatch
   any download/transcode jobs that were active before the restart" (types.go:214-216).
   `RestAgrees` says so: it assumes `StableIds`.
12. No call checks the status it finds (torrent_service_impl.go:464-609). `ResumeSeed` of a
   torrent that is paused, failed or still loading writes Completed, with nothing on any disk
   (lines 598-600); pause, resume, stop_seed and remove write to a deleted row too. The first is
   `hollow`, and the one thing such calls break in `RestAgrees`.
13. In mode all a command for another worker that waits in a goroutine to be put back is
   lost when its consumer is closed (channel.go:142). `NothingLost` names this, and that a closed
   processor drops the upload jobs it was sending, as the only losses before the process ends.
14. The transcode summaries of the aggregate and of the services differ (section 2, Aggregates): with one
   file completed and one failed the one writes progress 50, the other 100.

## 5. Proofs

The theorems hold for all values of the constants under the assumptions in the
modules (finite sets of files and events, natural bounds), each by an inductive
invariant that TLC checks as well or that was checked with TLC while it was found.

*`TranscodeProofs`.* `Inductive` of `TranscodePipeline` strengthens the two safety
invariants with what is in flight: a call about to mark a row Pending holds a
job that was sent (`MarkedWasSent`), every completed event in the queue or in the
hands of a consumer is of a run that encoded (`EventsTruthful`), and so on. History only
grows and the file of a job never changes, so the witnesses stay. From it:
`TypeCorrect`, `SentBeforePending`, `EncodedBeforeCompleted`. `ReaperIsConditional` is
the action property about finished rows. `AtMostOneRow` needs a second invariant,
`RowClaimed`: whoever is on the way to the insertion has its event's key in `seen`, and is
alone. Both (`RowsClaimed`, `AtMostOneRow`) assume that `"redis"` is not among the faults: with
an expired key they are false, as five minutes are no guarantee. `OverrunIsLate` (item 3
above) is about one step: as long as a file is Pending or Processing, at most the others are
completed, and the percentage of the event fills no more than its place, so the mean is at
most 100.

*`RowsProofs`, derived rows.* `OutputsAreRetried`: an output is lost only if `MaxAttempts` rows
were inserted while it was handled. Each rejection is charged to a row inserted
after the rejected choice (`Charge`), and the next choice is made after that.
`SubtitlesLoseToRivals` needs two more facts (`NoGapInductive`), for COUNT is the next free
index only as long as no index is missing: unless a reset overlapped, the indexes taken are
those below the number of rows (`WithoutGap`), so what COUNT returned is the first free index
until another row is inserted (`CountsHold`).

*`RowsProofs`, aggregates.* `SummariesAgree` says that the summaries of the row are the services', but
only of the row, and as long as no file row has changed; so the invariant (`Consistent`) says
of what every client holds where it comes from. Its summaries are those of the file rows
it read (`Recalculated`) and of the rows as they are unless those have changed; an
aggregate that is neither stale nor forced can be saved over the row without a step backwards
(`Follows`). `OneColumn`: a summary depends on its own column, so a change of the other leaves it
alone. `SummariesAreServices` is the comparison itself, for any files: for the cloud the two
counts give the same status, numbers and progress; for transcodes the aggregate counts no more
than the services, the same unless `OthersMarked`, and then also the same status unless nothing was
marked, and the same progress unless some but not all files are completed. From
these: `AggregateTypes`, `SameSummaries`, and the action property `NeverBackwards`.

*`ParseMagnetProofs`.* `ChanceIsUnique`: registration, consumer's hands and channel hold
together one chance of a reply for each waiting call. `Implements`: the module
implements the abstract `ParseCalls` under the mapping of outcomes; the invariant traces
each reply, settled result and cache entry to an answer of a worker.

*`CloudUploadProofs`.* `TypeCorrect` holds for all constants. The other theorems assume
`DistinctObjects`, that no two files share a cloud path; `CloudSameName` shows that they
fail without. Then objects are never taken away, nor overwritten with another
file's content (`StoredStays`), so whatever was true of the cloud when it was read stays true:
that is what makes the stale reads harmless. `Inductive` says it of a worker past its upload
or its existence check (`UploadsTruthful`), of events queued and at hand
(`EventsTruthful`), of summaries computed and of the rows a retry read
(`SummariesTruthful`), and of deletions: unless forced, none is dispatched or under way before
all files are stored (`DeletionsSafe`). From it: `CompletedStored`, `DeletedStored`,
`SummaryStored`. TLC has checked `Inductive` with the constants of `CloudUpload.cfg`.

*`QueueProofs`.* For any messages, finite set of consumers and number of faults, any room,
files and commands. In the RabbitMQ half the properties count what waits for an acknowledgement,
and that is not inductive: a consumer whose connection broke still has the message in hand and
may acknowledge it in vain, after it was put back. So `Inductive` counts hands (`Copies`),
says that a message `Send` still has in hand has no more copies than there were faults
(`Paid`: the next publication is free), and that what was accepted is in the queue, dealt with
or unacknowledged (`Kept`). From it: `CopiesArePaid`, `AcceptedStays`. In the channel half
`ChannelInductive` keeps books: every event, upload job and command that was sent was
handled, or is in its channel or parked, or lost (`MessagesKept`); every upload job that a handled
event calls for was sent, is about to be, or was forgone (`UploadsFollow`); and before the process ends
only parked commands of a closed consumer are lost, and only a closed processor forgoes upload jobs
(`LostAtTheEnd`). What consumers have yet to send or to put back is bounded by these books.
They count the places of a message in a sequence; `AppendCounts` and `TailCounts` say how
sending and taking change that number, `EveryStepBooks` what each step enters, and `BooksBalance` that
entries of both sides leave the books balanced.
`QueueTypes` and `NothingIsLost` join the two halves.

`Implements` is the refinement of `QueuePromise`, step by step. A delivery moves a copy from
the queue to a connection, a broken connection or a Nack moves it back (`CopiesMove`): for the promise
nothing happens. An acknowledgement in vain finds the copy gone, and the promise lets a handler deal
with a message again only if it exists and a fault has paid for it. That needs two
facts which `NothingLost` and `CopiesPaidByFaults` do not give: what a consumer has in hand exists
somewhere else or was dealt with, also after its connection is lost (the second half of `Kept`), and a
hand without a delivery is one of the copies that faults pay for (`HandsHold`).
For the channel parking and putting back are no steps of the promise. Its losses are steps of a
promise that is shut, closing a consumer the step that shuts it (`ChannelPromised`).

`OneDeadlock` needs no more than the types. Whoever has something pending and cannot go on waits for
room: a command for the commander and the full events, an event for the processor and
the full uploads, an upload for the uploader and the full events; every chain ends in the
processor and the uploader, as long as no consumer was closed. `DeadlockStays`: until one is, or the
process ends, none of the other steps makes room in either channel.

*`TorrentClientProofs`.* For any threads, handles and mutexes. `Exclusive` is about threads
inside their sections only; that they hold different mutexes is `Locked`, and that
no two mutexes are in use, be it in the map or in the hands of a thread that waits,
is `OneMutex`, the part that fails once RemoveTorrent deletes a mutex another
thread has got (`orphaned`). For `EntryIsLive` the invariant follows a handle from its
addition to its drop: `Kept` says that what the map holds, a thread waits for or is about to store
lives, and that the map is empty while metadata is fetched or a torrent dropped; `OneLive`
that there is one such handle. `Placed` says at which steps a thread may refer to a handle at
all. From these: `TypeCorrect`, `MutexesExclude`, `EntriesLive`, and `NoneStrays`, which says
nothing once either race (`orphaned`, `shared`) has happened.

*`DownloadProofs`.* For any finite number of calls, workers and faults. Whoever runs the torrent
was started by a command, and a command names a worker or nobody; so unless
`loose`, `OneHolder`: either no such command was sent yet and nothing knows the torrent, or
one is under way (about to be sent, queued, in a worker's hand) and nothing knows it, or it was taken by
a worker, and that worker is the only one which the row's owner, commands' targets, senders
of events, recoveries under way and tracked torrents can name. `Stopped` says that a
worker without a process has nothing in hand. From these: `TypeCorrect`, `OneRuns`, `OwnerIsRunner`.

`RowsAgree` needs a second invariant, `Agreeing`, which says of every state what `RestAgrees`
says of those at rest. `OnDisk`: completion is known nowhere, to no report, event or
row, before a worker has the files, unless a call was `hollow`. The rest holds while nothing
has happened that excuses a disagreement (`Clean`): there is one command, call or failure under way (`OneAtATime`); a call
between its Send and its last statement finds the worker as it is about to write (`CallsHold`); of a
deleted torrent nothing is left but its removal, and resuming it fails (`DeletedHolds`); and
otherwise what the row says is so, or a command in flight will make it so (`RowHolds`).
What makes a Downloading row true is `Going`: somebody runs the torrent, a start is under way, its
failure has been reported, or the worker it belongs to alone (`Mine`) has restarted and
will ask for it again. The proof corrected the model three times. `crowded` left out a call that
begins before another has returned (item 10 above). The
property did not assume `StableIds` (item 11). And the cases of `StatusOf` overlapped, so that TLA+
left open which holds for an active torrent whose files are gone.

*`LibraryProofs`.* For any accounts, torrents, posters and number of requests. A request acts
on a row it read before; the key is `Reads`: unless some request has overtaken it
(`clobbered`, `spoilt`), the row is still as it was read, so its Save changes the one column it is
about. `Answered` gives `AnswersKept`. `Posters` says that a poster belongs to one id, also
while it is uploaded; `FilesLeft` that files are those of an existing torrent or of one named as
left over, and that a deletion about to delete the row has removed them; both give
`NothingDangles`. `Explained` gives `StaleListsExplained`: a list that is not what the rows say, in the
cache or in the hands of the goroutine that is about to store it, is excused by a race or
failure, or some request still has to drop it. `Typed` are the types with the shape of each
kind of request. The proof attempt corrected the model: a stale `SetVisibility` can
put an old row in the place of a new torrent, with the old row's creator, and
`DeleteTorrentRow` then drops the lists of the creator it had read, not of the row's. The lists of the others
count as not told (`NotTold`) now; the counterexample needs six requests and
is out of the run's bounds.

**Only model-checked**: the liveness properties (`MidStatesResolve`, `CallReturns`,
`OperationsEnd`, `QueueDrains`), since the prover does not reason about fairness and ENABLED,
and the violation. Every other property of a run is a theorem.

## 6. Not modelled

See `PROJECT.json`. The HTTP layer, AI, TMDB, mail and logging hold no state that interleaves
with the rest; of the object storage clients only the outcome of an upload is modelled. The
uploads of transcoded and extracted files that the completed handler queues are in
`MemoryQueue` as messages only; their rows would need the transcode path and the cloud
path in one module, whose product is out of TLC's reach at useful bounds. The poster handler
writes one column when it is empty and is not raced by anything but `UploadPoster`. Of the
domain layer the aggregates of jobs and users are single assignments.

## 7. Plan

1. (done) the transcode path, derived rows, magnet parsing, cloud upload with their proofs.
2. (done) download control, the torrent client, both queues, accounts, rows and lists, the
   domain aggregates.
3. (done) proofs of all safety and action properties of the runs, and of both refinements.
4. Should the services come to use the domain layer: their methods over `Aggregates`. Should the
   cloud path and the transcode path be wanted in one: a module that composes them, by proof
   rather than by TLC.

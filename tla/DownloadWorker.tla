--------------------------- MODULE DownloadWorker ---------------------------
(***************************************************************************)
(* A worker: DownloadJobHandler and what it does to the torrent client,    *)
(* the progress reporter, the first heartbeat, and restarts.               *)
(***************************************************************************)
EXTENDS DownloadState

Rest == <<row, loading, sending, request, calls, hollow>>

Become(m, p) == worker' = [worker EXCEPT ![m] = p]
Idle(m) == [worker[m] EXCEPT !.busy = FALSE, !.job = NoCommand]

\* GetProgress: of a paused torrent, whose files have no priority, all files count.
StatusOf(m) ==
  CASE m \notin disk \/ worker[m].client = "fetching" -> {"downloading"}
    [] m \in disk /\ worker[m].client = "active" -> {"completed"}
    [] OTHER -> {"downloading", "completed"}

\* An error of a publication is logged or ignored.
Emit(m, type) ==
  \/ /\ events' = Append(events, [type |-> type, worker |-> WorkerId(m)])
     /\ UNCHANGED faults
  \/ /\ Fault("event")
     /\ UNCHANGED events

-----------------------------------------------------------------------------
(* DownloadJobHandler *)

Deliver(m) ==
  /\ worker[m].up /\ ~ worker[m].busy
  /\ commands # <<>>
  /\ commands' = Tail(commands)
  /\ Become(m, [worker[m] EXCEPT !.busy = TRUE, !.job = Head(commands)])
  /\ UNCHANGED <<events, disk, faults, crowded, loose, Rest>>

\* Mutant of ForMe: the target is not looked at.
ForAnyone(m) == TRUE

ForMe(m) == worker[m].job.target \in {NoWorker, WorkerId(m)}

\* Back to where the message was in the queue.
NotForMe(m) ==
  /\ worker[m].busy /\ ~ ForMe(m)
  /\ commands' = <<worker[m].job>> \o commands
  /\ Become(m, Idle(m))
  /\ UNCHANGED <<events, disk, faults, crowded, loose, Rest>>

HandlesAction(m, action) == worker[m].busy /\ ForMe(m) /\ worker[m].job.action = action

\* TrackTorrent keeps the status of a torrent that is tracked.
Tracked(m) == IF worker[m].tracked = "no" THEN "yes" ELSE worker[m].tracked

\* ParseMagnet has returned with the metadata, StartDownload follows.
Start(m) ==
  /\ HandlesAction(m, "start")
  /\ Become(m, [Idle(m) EXCEPT !.client = "active", !.tracked = Tracked(m)])
  /\ UNCHANGED <<commands, events, disk, faults, crowded, loose, Rest>>

\* Only a torrent whose metadata is not there can fail.
StartFails(m) ==
  /\ HandlesAction(m, "start") /\ worker[m].client = "absent"
  /\ Fault("parse")
  /\ events' = Append(events, [type |-> "failed", worker |-> WorkerId(m)])
  /\ Become(m, Idle(m))
  /\ UNCHANGED <<commands, disk, crowded, loose, Rest>>

\* A restore that waits for the metadata is not paused.
Pause(m) ==
  /\ HandlesAction(m, "pause")
  /\ Become(m, [Idle(m) EXCEPT !.tracked = "no",
                 !.client = IF @ = "active" THEN "idle" ELSE @])
  /\ UNCHANGED <<commands, events, disk, faults, crowded, loose, Rest>>

Resume(m) ==
  /\ HandlesAction(m, "resume") /\ worker[m].client # "absent"
  /\ Become(m, [Idle(m) EXCEPT !.tracked = Tracked(m),
                 !.client = IF @ = "idle" THEN "active" ELSE @])
  /\ UNCHANGED <<commands, events, disk, faults, crowded, loose, Rest>>

\* A restarted worker does not know the torrents that are paused.
ResumeFails(m) ==
  /\ HandlesAction(m, "resume") /\ worker[m].client = "absent"
  /\ Emit(m, "failed")
  /\ Become(m, Idle(m))
  /\ UNCHANGED <<commands, disk, crowded, loose, Rest>>

\* Both drop the torrent; the files stay (RemoveTorrent with deleteFiles removes a
\* directory named for the info hash, which the client never makes).
Remove(m) ==
  /\ HandlesAction(m, "remove") \/ HandlesAction(m, "stop_seed")
  /\ Become(m, [Idle(m) EXCEPT !.client = "absent", !.tracked = "no"])
  /\ UNCHANGED <<commands, events, disk, faults, crowded, loose, Rest>>

\* RestoreTorrent does nothing about a torrent the client knows.
ResumeSeed(m) ==
  /\ HandlesAction(m, "resume_seed")
  /\ Become(m, [Idle(m) EXCEPT !.tracked = Tracked(m),
                 !.client = IF @ = "absent" THEN "fetching" ELSE @])
  /\ UNCHANGED <<commands, events, disk, faults, crowded, loose, Rest>>

\* The broker returns the message, which the handler goes on with.
LoseConnection(m) ==
  /\ worker[m].busy
  /\ Fault("connection")
  /\ commands' = <<worker[m].job>> \o commands
  /\ crowded' = TRUE
  /\ loose' = (loose \/ worker[m].job.target = NoWorker)
  /\ UNCHANGED <<events, worker, disk, Rest>>

HandlerStep(m) ==
  \/ NotForMe(m) \/ Start(m) \/ StartFails(m) \/ Pause(m) \/ Resume(m)
  \/ ResumeFails(m) \/ Remove(m) \/ ResumeSeed(m)

-----------------------------------------------------------------------------
(* The torrent client and the progress reporter *)

\* RestoreTorrent's goroutine.
MetadataArrives(m) ==
  /\ worker[m].client = "fetching"
  /\ Become(m, [worker[m] EXCEPT !.client = "active"])
  /\ UNCHANGED <<commands, events, disk, faults, crowded, loose, Rest>>

Download(m) ==
  /\ worker[m].client = "active" /\ m \notin disk
  /\ disk' = disk \cup {m}
  /\ UNCHANGED <<commands, events, worker, faults, crowded, loose, Rest>>

Polls(m) == worker[m].tracked # "no" /\ worker[m].report = "none"

\* reportOnce: GetProgress knows no such torrent.
UntrackRemoved(m) ==
  /\ Polls(m) /\ worker[m].client = "absent"
  /\ Become(m, [worker[m] EXCEPT !.tracked = "no"])
  /\ UNCHANGED <<commands, events, disk, faults, crowded, loose, Rest>>

Report(m) ==
  /\ Polls(m) /\ worker[m].client # "absent"
  /\ Len(events) < MaxEvents
  /\ Emit(m, "progress")
  /\ \E status \in StatusOf(m) : Become(m, [worker[m] EXCEPT !.report = status])
  /\ UNCHANGED <<commands, disk, crowded, loose, Rest>>

\* The status is stored also for a torrent that is not tracked any more.
EndReport(m) ==
  /\ worker[m].report # "none"
  /\ Become(m, [worker[m] EXCEPT !.report = "none",
                  !.tracked = IF worker[m].report = "completed" THEN "completed" ELSE "yes"])
  /\ IF worker[m].report = "completed" /\ worker[m].tracked # "completed"
     THEN Emit(m, "completed")
     ELSE UNCHANGED <<events, faults>>
  /\ UNCHANGED <<commands, disk, crowded, loose, Rest>>

-----------------------------------------------------------------------------
(* Restarts *)

\* The message in hand goes back to the queue.
Crash(m) ==
  /\ worker[m].up
  /\ Fault("crash")
  /\ Become(m, [NewProcess EXCEPT !.up = FALSE, !.self = worker[m].self])
  /\ IF worker[m].busy
     THEN /\ commands' = <<worker[m].job>> \o commands
          /\ loose' = (loose \/ worker[m].job.target = NoWorker)
     ELSE UNCHANGED <<commands, loose>>
  /\ UNCHANGED <<events, disk, crowded, Rest>>

\* Mutant of Boot: a configured id is not kept.
BootAnew(m) ==
  /\ ~ worker[m].up
  /\ Become(m, [NewProcess EXCEPT !.self = worker[m].self + 1])
  /\ UNCHANGED <<commands, events, disk, faults, crowded, loose, Rest>>

\* The client starts with no torrents. Without WORKER_ID the process makes up an id.
Boot(m) ==
  /\ ~ worker[m].up
  /\ Become(m, [NewProcess EXCEPT !.self = IF StableIds THEN 0 ELSE worker[m].self + 1])
  /\ UNCHANGED <<commands, events, disk, faults, crowded, loose, Rest>>

\* The flag is dropped when a heartbeat has been published; failures are repeated
\* with it after ten seconds.
Beat(m) ==
  /\ worker[m].up /\ worker[m].fresh
  /\ loading' = loading \cup {WorkerId(m)}
  /\ Become(m, [worker[m] EXCEPT !.fresh = FALSE])
  /\ UNCHANGED <<row, commands, events, sending, disk, request, calls, faults, history>>

WorkerStep(m) ==
  \/ Deliver(m) \/ HandlerStep(m) \/ LoseConnection(m)
  \/ MetadataArrives(m) \/ Download(m)
  \/ UntrackRemoved(m) \/ Report(m) \/ EndReport(m)
  \/ Crash(m) \/ Boot(m) \/ Beat(m)

=============================================================================

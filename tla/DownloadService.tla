--------------------------- MODULE DownloadService --------------------------
(***************************************************************************)
(* The server's side: the endpoints of TorrentServiceImpl that command     *)
(* downloads, split at their publication and their statements, and         *)
(* RedispatchActiveTorrents.                                               *)
(***************************************************************************)
EXTENDS DownloadState

Workers == <<events, worker, disk>>

Continue(q, pc) == request' = [request EXCEPT ![q].pc = pc]
Return(q) == request' = [request EXCEPT ![q] = IdleRequest]

\* The status a call leaves in the row; remove has none.
StatusAfter(kind) ==
  CASE kind = "pause" -> "Paused"
    [] kind = "resume" -> "Downloading"
    [] kind = "stop_seed" -> "SeedingStopped"
    [] kind = "resume_seed" -> "Completed"
    [] OTHER -> row.status

\* lookupWorkerID knows a deleted torrent too, and no target of one without a row. A
\* start is for any worker.
TargetOf(kind) == IF kind = "start" THEN NoWorker ELSE row.owner

\* StartDownload writes the row before it sends, the other calls look the owner
\* up and send before they write. None of them looks at the status, and only
\* ResumeSeed asks for a torrent that is not deleted.
Begin(q) ==
  /\ request[q].pc = "idle"
  /\ calls < MaxCalls /\ calls' = calls + 1
  /\ Len(commands) < MaxCommands
  /\ \E kind \in Kinds :
       /\ kind = "resume_seed" => row.status # "None" /\ ~ row.deleted
       /\ request' = [request EXCEPT ![q] =
            [pc |-> IF kind = "start" THEN "row" ELSE "send", kind |-> kind,
             target |-> TargetOf(kind)]]
  /\ crowded' = (crowded \/ Calling)
  /\ UNCHANGED <<row, commands, loading, sending, faults, loose, hollow, Workers>>

\* A new record, or the old one with its owner.
StartRow(q) ==
  /\ request[q].pc = "row" /\ request[q].kind = "start"
  /\ row' = [row EXCEPT !.status = "Downloading", !.deleted = FALSE]
  /\ loose' = (loose \/ row.status # "None")
  /\ Continue(q, "send")
  /\ UNCHANGED <<commands, loading, sending, faults, crowded, hollow, calls, Workers>>

StartRowFails(q) ==
  /\ request[q].pc = "row" /\ request[q].kind = "start"
  /\ Fault("database")
  /\ Return(q)
  /\ UNCHANGED <<row, commands, loading, sending, history, calls, Workers>>

AfterSend(q) == IF request[q].kind = "start" THEN Return(q) ELSE Continue(q, "row")

Send(q) ==
  /\ request[q].pc = "send"
  /\ SendCommand(request[q].kind, request[q].target,
                 Recovering \/ \E p \in Requests \ {q} :
                                  request[p].pc # "idle")
  /\ loose' = (loose \/ (request[q].target = NoWorker /\ request[q].kind # "start"))
  /\ AfterSend(q)
  /\ UNCHANGED <<row, loading, sending, faults, hollow, calls, Workers>>

\* StartDownload returns the error; the other calls log it and go on.
SendFails(q) ==
  /\ request[q].pc = "send"
  /\ Fault("send")
  /\ AfterSend(q)
  /\ UNCHANGED <<row, commands, loading, sending, history, calls, Workers>>

\* The status is written whatever it was, and whatever the workers have.
Written(q) ==
  /\ request[q].pc = "row" /\ request[q].kind # "start"
  /\ hollow' = (hollow \/ (request[q].kind = "resume_seed" /\ disk = {}))
  /\ Return(q)
  /\ UNCHANGED <<commands, loading, sending, faults, crowded, loose, calls, Workers>>

\* Mutant of UpdateRow: a removal does not reach the row.
UpdateStatusOnly(q) ==
  /\ Written(q)
  /\ row' = IfPresent([row EXCEPT !.status = StatusAfter(request[q].kind)])

UpdateRow(q) ==
  /\ Written(q)
  /\ row' = IfPresent([row EXCEPT !.status = StatusAfter(request[q].kind),
                                  !.deleted = (@ \/ request[q].kind = "remove")])

\* The error of the update is logged.
UpdateRowFails(q) ==
  /\ request[q].pc = "row" /\ request[q].kind # "start"
  /\ Fault("database")
  /\ Return(q)
  /\ UNCHANGED <<row, commands, loading, sending, history, calls, Workers>>

RequestStep(q) ==
  \/ Begin(q) \/ StartRow(q) \/ StartRowFails(q) \/ Send(q) \/ SendFails(q)
  \/ UpdateRow(q) \/ UpdateRowFails(q)

-----------------------------------------------------------------------------
(* RedispatchActiveTorrents *)

\* The server starts again; restoreTorrents waits, then recovers every torrent.
RestartServer ==
  /\ \A q \in Requests : request[q].pc = "idle"
  /\ Fault("restart")
  /\ loading' = loading \cup {NoWorker}
  /\ UNCHANGED <<row, commands, sending, request, history, calls, Workers>>

\* Handle returns before the hook when Record fails.
BeatFails(id) ==
  /\ id \in loading \ {NoWorker}
  /\ RecoveryFault("redis")
  /\ loading' = loading \ {id}
  /\ UNCHANGED <<row, commands, sending, request, history, calls, Workers>>

Active == ~ row.deleted /\ row.status \in {"Downloading", "Completed"}

\* The torrents a recovery loads: of a fresh boot, its own and the unclaimed ones.
Recoverable(booting) == Active /\ (booting = NoWorker \/ row.owner \in {booting, NoWorker})

\* Mutant of RecoveryTarget: the worker that reports takes all.
BootingWorker(booting) == booting

\* Unclaimed torrents go to the booting worker.
RecoveryTarget(booting) == IF row.owner = NoWorker THEN booting ELSE row.owner

\* A first heartbeat is recorded and its recovery runs off-thread, or the server has
\* started: the row is read; the command follows.
LoadActive(booting) ==
  /\ booting \in loading
  /\ loading' = loading \ {booting}
  /\ crowded' = (crowded \/ Calling)
  /\ IF Recoverable(booting)
     THEN /\ sending' = sending \cup {RecoveryTarget(booting)}
          /\ loose' = (loose \/ row.owner = NoWorker)
     ELSE UNCHANGED <<sending, loose>>
  /\ UNCHANGED <<row, commands, request, faults, hollow, calls, Workers>>

Redispatch(target) ==
  /\ target \in sending
  /\ sending' = sending \ {target}
  /\ SendCommand("start", target, Calling)
  /\ UNCHANGED <<row, loading, request, faults, loose, hollow, calls, Workers>>

\* The torrent is skipped.
RedispatchFails(target) ==
  /\ target \in sending
  /\ RecoveryFault("send")
  /\ sending' = sending \ {target}
  /\ UNCHANGED <<row, commands, loading, request, history, calls, Workers>>

=============================================================================

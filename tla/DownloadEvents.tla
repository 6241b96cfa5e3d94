--------------------------- MODULE DownloadEvents ---------------------------
(***************************************************************************)
(* WorkerEventProcessor's handlers of the download events, which change    *)
(* the row with one statement each.                                        *)
(***************************************************************************)
EXTENDS DownloadState

Others == <<commands, loading, sending, worker, disk, request, calls, faults, loose, hollow>>

Handles(type) == /\ events # <<>> /\ Head(events).type = type
                 /\ events' = Tail(events)
                 /\ UNCHANGED Others

Sender == Head(events).worker

\* A sample is written through with the claim of the torrent, or skipped:
\* shouldPersistProgress decides by the time and the progress since the last one.
PersistProgress ==
  /\ Handles("progress")
  /\ row' = IfPresent([row EXCEPT !.owner = Sender])
  /\ UNCHANGED crowded

SkipPersist == Handles("progress") /\ UNCHANGED <<row, crowded>>

CompleteRow ==
  /\ Handles("completed")
  /\ row' = IfPresent([row EXCEPT !.status = "Completed", !.owner = Sender])
  /\ UNCHANGED crowded

FailRow ==
  /\ Handles("failed")
  /\ row' = IfPresent([row EXCEPT !.status = "Failed"])
  /\ crowded' = (crowded \/ Calling \/ Recovering \/ commands # <<>>)

ConsumerStep == PersistProgress \/ SkipPersist \/ CompleteRow \/ FailRow

=============================================================================

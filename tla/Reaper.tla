------------------------------- MODULE Reaper -------------------------------
(***************************************************************************)
(* The Reaper: periodic passes that demote to Failed the file rows that    *)
(* have been Pending or Processing for longer than their timeout. Its      *)
(* passes over the cloud upload columns do not touch the rows' transcode   *)
(* status.                                                                 *)
(***************************************************************************)
EXTENDS TranscodeState

StaleRows(s) == {f \in Files : file[f] = s /\ stale[f]}

\* Time passes: the row's updated_at falls behind the cutoff of its status.
Age(f) ==
  /\ file[f] \in MidStates /\ ~ stale[f]
  /\ stale' = [stale EXCEPT ![f] = TRUE]
  /\ UNCHANGED <<file, jobs, torrent, derived, queues, actors, history, faults>>

\* A pass begins with the Pending rows. One that would find nothing is left out.
ScanPending ==
  /\ reaper.pc = "idle"
  /\ \E f \in Files : stale[f]
  /\ reaper' = [IdleReaper EXCEPT !.pc = "Pending", !.stuck = StaleRows("Pending")]
  /\ UNCHANGED <<database, queues, request, worker, consumer, history, faults>>

\* Mutant of Demote: an update without the condition on the status.
DemoteAnyway ==
  /\ reaper.pc \in MidStates
  /\ \E f \in reaper.stuck :
       /\ SetFile(f, "Failed")
       /\ reaper' = [reaper EXCEPT !.stuck = @ \ {f}, !.affected = TRUE]
  /\ UNCHANGED <<jobs, torrent, derived, queues, request, worker, consumer,
                 history, faults>>

\* One update for each row of the scan, on condition that its status is still
\* the scanned one.
Demote ==
  /\ reaper.pc \in MidStates
  /\ \E f \in reaper.stuck :
       IF file[f] = reaper.pc
       THEN /\ SetFile(f, "Failed")
            /\ reaper' = [reaper EXCEPT !.stuck = @ \ {f}, !.affected = TRUE]
       ELSE /\ reaper' = [reaper EXCEPT !.stuck = @ \ {f}]
            /\ UNCHANGED <<file, stale>>
  /\ UNCHANGED <<jobs, torrent, derived, queues, request, worker, consumer,
                 history, faults>>

\* A failed update is logged, the row is left for the next pass.
DemoteFails ==
  /\ reaper.pc \in MidStates
  /\ Fault("database")
  /\ \E f \in reaper.stuck : reaper' = [reaper EXCEPT !.stuck = @ \ {f}]
  /\ UNCHANGED <<database, queues, request, worker, consumer, history>>

\* Mutant of ScanProcessing: the scan of the Pending rows, repeated.
ScanPendingTwice ==
  /\ reaper.pc = "Pending" /\ reaper.stuck = {}
  /\ reaper' = [reaper EXCEPT !.pc = "Processing", !.stuck = StaleRows("Pending")]
  /\ UNCHANGED <<database, queues, request, worker, consumer, history, faults>>

ScanProcessing ==
  /\ reaper.pc = "Pending" /\ reaper.stuck = {}
  /\ reaper' = [reaper EXCEPT !.pc = "Processing", !.stuck = StaleRows("Processing")]
  /\ UNCHANGED <<database, queues, request, worker, consumer, history, faults>>

ReaperRecompute ==
  /\ reaper.pc = "Processing" /\ reaper.stuck = {}
  /\ reaper' = IF reaper.affected
               THEN [IdleReaper EXCEPT !.pc = "write", !.agg = Recomputed]
               ELSE IdleReaper
  /\ UNCHANGED <<database, queues, request, worker, consumer, history, faults>>

ReaperWrite ==
  /\ reaper.pc = "write"
  /\ torrent' = reaper.agg
  /\ reaper' = IdleReaper
  /\ UNCHANGED <<file, stale, jobs, derived, queues, request, worker, consumer,
                 history, faults>>

\* A scan, or a statement of the recomputation, fails and the pass ends; after a
\* failed scan there is no recomputation for the rows that were demoted.
PassFails ==
  /\ reaper.pc # "idle" /\ reaper.stuck = {}
  /\ Fault("database")
  /\ reaper' = IdleReaper
  /\ UNCHANGED <<database, queues, request, worker, consumer, history>>

ReaperStep ==
  \/ ScanPending \/ Demote \/ DemoteFails \/ ScanProcessing
  \/ ReaperRecompute \/ ReaperWrite \/ PassFails

=============================================================================

--------------------------- MODULE DownloadControl --------------------------
(***************************************************************************)
(* The control of the download of one torrent: the calls and recoveries of *)
(* the server, the workers that share the queue of the commands, and the   *)
(* server's handlers of their events. The server and the workers are up    *)
(* before the torrent is added, and the server has one consumer of events. *)
(***************************************************************************)
EXTENDS DownloadService, DownloadWorker, DownloadEvents

Init ==
  /\ row = NoRow
  /\ commands = <<>>
  /\ events = <<>>
  /\ loading = {}
  /\ sending = {}
  /\ worker = [m \in Machines |-> [NewProcess EXCEPT !.fresh = FALSE]]
  /\ disk = {}
  /\ request = [q \in Requests |-> IdleRequest]
  /\ calls = 0
  /\ faults = [number |-> 0, lossy |-> FALSE]
  /\ crowded = FALSE
  /\ loose = FALSE
  /\ hollow = FALSE

Next ==
  \/ \E q \in Requests : RequestStep(q)
  \/ RestartServer
  \/ \E id \in Ids : BeatFails(id)
  \/ \E id \in Owner : LoadActive(id) \/ Redispatch(id) \/ RedispatchFails(id)
  \/ \E m \in Machines : WorkerStep(m)
  \/ ConsumerStep

Spec == Init /\ [][Next]_vars

-----------------------------------------------------------------------------

Running(m) == worker[m].client \in {"active", "fetching"}

\* One worker at most downloads or seeds the torrent, although all workers share
\* the queue, messages for another worker go back to it, and every restart of a
\* worker or the server sends the torrents' commands again: "without this filter,
\* worker A rebooting would steal worker B's in-flight torrents". (Unless a command
\* besides the first start went without a target, as before the first claim, or the
\* first start was redelivered.)
OneRunner == loose \/ Cardinality({m \in Machines : Running(m)}) <= 1

\* The row's worker_id, by which the server routes everything else about the
\* torrent, is the worker that runs it, with the same exception.
OwnerRuns == loose \/ \A m \in Machines :
               Running(m) => row.owner \in {NoWorker, WorkerId(m)}

AtRest == /\ ~ UnderWay /\ ~ Calling /\ ~ Recovering
          /\ events = <<>>
          /\ \A m \in Machines : worker[m].report = "none"

\* What the row says when nothing is under way is what the workers do.
Agree ==
  /\ row.deleted => \A m \in Machines : worker[m].client = "absent"
  /\ row.status \in {"Paused", "Failed", "SeedingStopped"} =>
       \A m \in Machines : ~ Running(m)
  /\ row.status = "Downloading" /\ ~ row.deleted => \E m \in Machines : Running(m)
  /\ row.status = "Completed" => hollow \/ disk # {}

\* The row and the workers agree whenever nothing is under way, whatever calls were
\* made in whatever status, and whatever crashes, redeliveries, recoveries, late events
\* and failures of the client there were, if no command was sent before the one before
\* it was done, and no call began before the other had returned; if none but the first
\* start went without a target, and that one was not redelivered; if neither a publication
\* nor a statement nor Redis failed; and if the workers have a WORKER_ID: nobody asks for
\* the torrents of a process that made up its id and is gone. A row is Completed without
\* any files once ResumeSeed was called for a torrent that no worker had: it writes that
\* status over any other.
RestAgrees == StableIds /\ AtRest => crowded \/ loose \/ faults.lossy \/ Agree

=============================================================================

--------------------------- MODULE MCTorrentClient --------------------------
(* A run of TorrentClient: enough names for every reference there can be. *)
EXTENDS TorrentClient
=============================================================================

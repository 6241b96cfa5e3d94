------------------------------- MODULE MCQueue ------------------------------
(* A run of Queue: two messages and two consumers, or channels with room for two. *)
EXTENDS Queue
=============================================================================

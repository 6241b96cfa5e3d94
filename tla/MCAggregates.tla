----------------------------- MODULE MCAggregates ----------------------------
(* A run of Aggregates with two clients. *)
EXTENDS Aggregates, TLC

Symmetric == Permutations(Clients) \cup Permutations(Videos)

=============================================================================

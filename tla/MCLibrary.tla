------------------------------ MODULE MCLibrary -----------------------------
(* A run of Library: the super admin and a user, with two requests at a time. *)
EXTENDS Library, TLC

Symmetric == Permutations(Calls) \cup Permutations(Nicknames)

=============================================================================

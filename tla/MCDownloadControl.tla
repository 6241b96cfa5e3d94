-------------------------- MODULE MCDownloadControl -------------------------
(* Symmetry and the constraint for the run of DownloadControl. *)
EXTENDS DownloadControl, TLC

Symmetric == Permutations(Machines) \cup Permutations(Requests)

\* Of a state after a command that nothing routes the properties say nothing but its
\* types, so that the run need not go on from there.
Routed == ~ loose

=============================================================================

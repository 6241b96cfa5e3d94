--------------------------- MODULE MCDerivedRows ----------------------------
(* Model values and symmetry for the run of DerivedRows. *)
EXTENDS DerivedRows, TLC

CONSTANTS o1, o2, o3, s1, s2

\* The events of a kind are interchangeable.
Symmetric == Permutations(Completions) \cup Permutations(Subtitles)

=============================================================================

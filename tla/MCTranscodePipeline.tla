------------------------ MODULE MCTranscodePipeline -------------------------
(* Model values and symmetry for the runs of TranscodePipeline. *)
EXTENDS TranscodePipeline, TLC

CONSTANTS q1, q2, w1, w2, c1, c2

\* Calls, workers and replicas are interchangeable.
Symmetric == Permutations(Requests) \cup Permutations(Workers)
               \cup Permutations(Consumers)

=============================================================================

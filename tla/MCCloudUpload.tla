--------------------------- MODULE MCCloudUpload ----------------------------
(* Cloud paths and symmetry for the runs of CloudUpload. *)
EXTENDS CloudUpload, TLC

\* Every base name occurs once.
OwnObject == [f \in Files |-> f]

\* Two files of different directories have the same base name.
OneObject == [f \in Files |-> CHOOSE o \in Objects : TRUE]

Symmetric == Permutations(Requests) \cup Permutations(Workers)
               \cup Permutations(Consumers)

=============================================================================

----------------------------- MODULE ParseCalls -----------------------------
(***************************************************************************)
(* What a caller of parseViaWorker and fetchTorrentMetadata is promised:   *)
(* one outcome, and metadata only if a worker resolved the very magnet it  *)
(* asked for. Queues, buses, replicas and caches are hidden.               *)
(***************************************************************************)
CONSTANTS Calls,  \* calls of parseViaWorker or fetchTorrentMetadata
          Magnet  \* Magnet[c] is what call c asks for

VARIABLES outcome, \* outcome[c] of call c
          answers  \* the answers workers have given so far

Outcome == {"none", "metadata", "failed", "timeout", "sendError", "crashed"}

\* An answer to one call: the metadata, or an error.
Answer == [call : Calls, ok : BOOLEAN]

Init == /\ outcome = [c \in Calls |-> "none"]
        /\ answers = {}

\* Workers may answer a call more than once, and after it has returned.
Respond(a) == /\ answers' = answers \cup {a}
              /\ UNCHANGED outcome

Resolved(m) == \E a \in answers : a.ok /\ Magnet[a.call] = m

Return(c) ==
  /\ outcome[c] = "none"
  /\ \E o \in Outcome \ {"none"} :
       /\ o = "metadata" => Resolved(Magnet[c])
       /\ o = "failed" => [call |-> c, ok |-> FALSE] \in answers
       /\ outcome' = [outcome EXCEPT ![c] = o]
  /\ UNCHANGED answers

\* A replica that crashes takes all its calls with it.
Crash == \E S \in SUBSET Calls :
           outcome' = [c \in Calls |-> IF c \in S /\ outcome[c] = "none"
                                       THEN "crashed" ELSE outcome[c]]
           /\ UNCHANGED answers

Next == \/ \E a \in Answer : Respond(a)
        \/ \E c \in Calls : Return(c)
        \/ Crash

Spec == Init /\ [][Next]_<<outcome, answers>>

=============================================================================

----------------------------- MODULE QueuePromise ---------------------------
(***************************************************************************)
(* What the handlers of a topic are promised by Producer and Consumer,     *)
(* whichever queue is configured: a message comes from a call of Send and  *)
(* leaves only when a handler has dealt with it, or with a queue that is   *)
(* shut, and whatever comes twice is paid for by a fault. Connections,     *)
(* acknowledgements, channels and goroutines are hidden; so is what Send   *)
(* returns.                                                                *)
(***************************************************************************)
EXTENDS Naturals

CONSTANT Messages

VARIABLES sent,     \* how often Send was called with each message
          waiting,  \* copies that no handler has dealt with, or is about to in time
          ended,    \* how often a handler has dealt with each message
          faults,   \* connections that broke and processes that stopped
          shut      \* messages may be lost from now on

Init ==
  /\ sent = [m \in Messages |-> 0]
  /\ waiting = [m \in Messages |-> 0]
  /\ ended = [m \in Messages |-> 0]
  /\ faults = 0
  /\ shut = FALSE

Paid(m) == sent[m] > 0 /\ waiting[m] + ended[m] < sent[m] + faults

Arrives(m) == waiting' = [waiting EXCEPT ![m] = @ + 1]
DealsWith(m) == ended' = [ended EXCEPT ![m] = @ + 1]

\* A channel takes the message at once, a broker perhaps later.
Send(m) ==
  /\ sent' = [sent EXCEPT ![m] = @ + 1]
  /\ Arrives(m) \/ UNCHANGED waiting
  /\ UNCHANGED <<ended, faults, shut>>

Publish(m) == Paid(m) /\ Arrives(m) /\ UNCHANGED <<sent, ended, faults, shut>>

\* What was being published may have arrived.
Breaks ==
  /\ faults' = faults + 1
  /\ UNCHANGED waiting \/ \E m \in Messages : sent[m] > 0 /\ Arrives(m)
  /\ UNCHANGED <<sent, ended, shut>>

DealWith(m) ==
  /\ waiting[m] > 0
  /\ waiting' = [waiting EXCEPT ![m] = @ - 1]
  /\ DealsWith(m)
  /\ UNCHANGED <<sent, faults, shut>>

\* By a handler that kept the message when its connection broke.
DealWithAgain(m) ==
  /\ waiting[m] + ended[m] > 0
  /\ Paid(m)
  /\ DealsWith(m)
  /\ UNCHANGED <<sent, waiting, faults, shut>>

Shut == shut' = TRUE /\ UNCHANGED <<sent, waiting, ended, faults>>

\* A queue that is shut loses some of what waits, or all.
Lose ==
  /\ shut' = TRUE
  /\ \A m \in Messages : waiting'[m] <= waiting[m]
  /\ waiting' \in [Messages -> Nat]
  /\ UNCHANGED <<sent, ended, faults>>

Next ==
  \/ Breaks \/ Shut \/ Lose
  \/ \E m \in Messages : Send(m) \/ Publish(m) \/ DealWith(m) \/ DealWithAgain(m)

Spec == Init /\ [][Next]_<<sent, waiting, ended, faults, shut>>

=============================================================================

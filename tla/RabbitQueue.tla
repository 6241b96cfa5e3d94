----------------------------- MODULE RabbitQueue ----------------------------
(***************************************************************************)
(* RabbitMQProducer and RabbitMQConsumer around one queue of the broker:   *)
(* the server publishes, the consumers of several workers take. The broker *)
(* keeps what it delivered until it is acknowledged and puts it back when  *)
(* the connection it went over is lost. A consumer of this program has one *)
(* topic, hence one goroutine, and a prefetch count of 1.                  *)
(*                                                                         *)
(* Of the order of messages nothing is kept: a message that was put back   *)
(* has been overtaken.                                                     *)
(***************************************************************************)
EXTENDS Naturals, FiniteSets

CONSTANTS Messages, Consumers,
          Nobody,     \* no message; the target of a message for any consumer
          MaxFaults   \* bound: connections that break and processes that stop

ASSUME NobodyAssumption == Nobody \notin Messages \cup Consumers
ASSUME MaxFaultsAssumption == MaxFaults \in Nat
ASSUME ConsumersAssumption == IsFiniteSet(Consumers)

VARIABLES
  target,    \* TargetWorkerID of each message
  queue,     \* how many copies of each message the queue holds
  producer,  \* the producer: what Send is doing, and its connection
  consumer,  \* the consumers: their goroutine and their connection
  unacked,   \* the message that the broker has delivered over a connection
  ended,     \* how often a handler has dealt with each message
  sent,      \* messages for which Send was called
  accepted,  \* messages for which Send returned no error
  vanished,  \* history: accepted, but lost in the buffers of a dying connection
  faults

rabbitVars == <<target, queue, producer, consumer, unacked, ended, sent, accepted,
                vanished, faults>>

\* A link is open, or closed as a channel on a connection that still is alive, or down.
Link == {"open", "channel", "down"}
Producer == [pc : {"idle", "first", "retry", "second"}, message : Messages \cup {Nobody},
             up : BOOLEAN]
Consumer == [pc : {"ready", "handling", "sleeping", "dial", "subscribe", "closed"},
             hand : Messages \cup {Nobody}, link : Link]

RabbitTypeOK ==
  /\ target \in [Messages -> Consumers \cup {Nobody}]
  /\ queue \in [Messages -> Nat]
  /\ producer \in Producer
  /\ consumer \in [Consumers -> Consumer]
  /\ unacked \in [Consumers -> Messages \cup {Nobody}]
  /\ \A c \in Consumers :
       /\ unacked[c] # Nobody => consumer[c].link = "open" /\ consumer[c].hand = unacked[c]
       /\ consumer[c].hand # Nobody <=> consumer[c].pc \in {"handling", "sleeping"}
  /\ ended \in [Messages -> Nat]
  /\ vanished \subseteq accepted /\ accepted \subseteq sent /\ sent \subseteq Messages
  /\ faults \in 0 .. MaxFaults

RabbitInit ==
  /\ target \in [Messages -> Consumers \cup {Nobody}]
  /\ queue = [m \in Messages |-> 0]
  /\ producer = [pc |-> "idle", message |-> Nobody, up |-> TRUE]
  /\ consumer = [c \in Consumers |-> [pc |-> "ready", hand |-> Nobody, link |-> "open"]]
  /\ unacked = [c \in Consumers |-> Nobody]
  /\ ended = [m \in Messages |-> 0]
  /\ sent = {} /\ accepted = {} /\ vanished = {}
  /\ faults = 0

Fault == faults < MaxFaults /\ faults' = faults + 1

Enqueue(m) == queue' = [queue EXCEPT ![m] = @ + 1]

\* Mutant of GiveBack: the broker still waits for an acknowledgement.
Requeue(c) ==
  /\ queue' = [m \in Messages |-> IF m = unacked[c] THEN queue[m] + 1 ELSE queue[m]]
  /\ UNCHANGED unacked

\* What the broker has delivered over the connection of c goes back into the queue.
GiveBack(c) ==
  /\ queue' = [m \in Messages |-> IF m = unacked[c] THEN queue[m] + 1 ELSE queue[m]]
  /\ unacked' = [unacked EXCEPT ![c] = Nobody]

-----------------------------------------------------------------------------
(* The producer. Its mutex lets one Send in at a time. *)

consumerSide == <<consumer, unacked, ended>>

Send(m) ==
  /\ producer.pc = "idle" /\ m \notin sent
  /\ producer' = [pc |-> "first", message |-> m, up |-> producer.up]
  /\ sent' = sent \cup {m}
  /\ UNCHANGED <<target, queue, consumerSide, accepted, vanished, faults>>

Publishing == producer.pc \in {"first", "second"}
Returns(up) == producer' = [pc |-> "idle", message |-> Nobody, up |-> up]

Publish ==
  /\ Publishing /\ producer.up
  /\ Enqueue(producer.message)
  /\ accepted' = accepted \cup {producer.message}
  /\ Returns(TRUE)
  /\ UNCHANGED <<target, consumerSide, sent, vanished, faults>>

\* No publisher confirms: what was written to a connection may never arrive.
PublishVanishes ==
  /\ Publishing /\ producer.up
  /\ Fault
  /\ accepted' = accepted \cup {producer.message}
  /\ vanished' = vanished \cup {producer.message}
  /\ Returns(FALSE)
  /\ UNCHANGED <<target, queue, consumerSide, sent>>

\* The first failure leads to a reconnection, the second is returned to the caller.
Failed(up) ==
  IF producer.pc = "first"
  THEN producer' = [pc |-> "retry", message |-> producer.message, up |-> up]
  ELSE Returns(up)

\* An error is returned, whether the broker has got the message or not.
PublishBreaks ==
  /\ Publishing /\ producer.up
  /\ Fault
  /\ Enqueue(producer.message) \/ UNCHANGED queue
  /\ Failed(FALSE)
  /\ UNCHANGED <<target, consumerSide, sent, accepted, vanished>>

PublishDown ==
  /\ Publishing /\ ~ producer.up
  /\ Failed(FALSE)
  /\ UNCHANGED <<target, queue, consumerSide, sent, accepted, vanished, faults>>

Redial ==
  /\ producer.pc = "retry"
  /\ producer' = [pc |-> "second", message |-> producer.message, up |-> TRUE]
  /\ UNCHANGED <<target, queue, consumerSide, sent, accepted, vanished, faults>>

RedialFails ==
  /\ producer.pc = "retry"
  /\ Fault
  /\ Returns(FALSE)
  /\ UNCHANGED <<target, queue, consumerSide, sent, accepted, vanished>>

ProducerBreaks ==
  /\ producer.pc = "idle" /\ producer.up
  /\ Fault
  /\ Returns(FALSE)
  /\ UNCHANGED <<target, queue, consumerSide, sent, accepted, vanished>>

=============================================================================

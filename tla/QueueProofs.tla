----------------------------- MODULE QueueProofs ----------------------------
(***************************************************************************)
(* Theorems about both queues, for any number of messages, consumers and   *)
(* faults, and any room in the channels. Of the queue of RabbitMQ, copies  *)
(* of a message are counted where they are: in the queue, in the hands of  *)
(* a consumer, and among those that were dealt with. Steps of producer and *)
(* consumers move them, and only a publication or a fault adds one. Of the *)
(* channels, what is in one is counted with what was taken out of it.      *)
(***************************************************************************)
EXTENDS Queue, FiniteSetTheorems, TLAPS

InHand(m) == {c \in Consumers : consumer[c].hand = m}

Copies(m) == queue[m] + Cardinality(InHand(m)) + ended[m]

\* A message that was not sent is nowhere, and one that Send has in hand has at most
\* as many copies as there were faults: the next publication is not paid for.
Paid ==
  \A m \in Messages :
    /\ m \notin sent => Copies(m) = 0
    /\ producer.message = m => Copies(m) <= faults
    /\ Copies(m) <= 1 + faults

\* The broker has a copy, in the queue or waiting for an acknowledgement, or a handler
\* has dealt with one.
Exists(m) == queue[m] > 0 \/ ended[m] > 0 \/ \E c \in Consumers : unacked[c] = m

\* What was accepted exists, and so does what a consumer has in hand, also when it has
\* lost the connection over which it got it.
Kept ==
  \A m \in Messages :
    (m \in accepted \ vanished \/ \E c \in Consumers : consumer[c].hand = m) => Exists(m)

Sending ==
  /\ producer.pc = "idle" <=> producer.message = Nobody
  /\ producer.message # Nobody => producer.message \in sent

Inductive == RabbitTypeOK /\ Sending /\ Paid /\ Kept

-----------------------------------------------------------------------------

LEMMA HandsAreFinite ==
  ASSUME NEW m
  PROVE  IsFiniteSet(InHand(m)) /\ Cardinality(InHand(m)) \in Nat
BY ConsumersAssumption, FS_Subset, FS_CardinalityType DEF InHand

\* How the number of hands with a message changes when one consumer moves.
LEMMA HandMoves ==
  ASSUME NEW c \in Consumers, NEW r \in Consumer, NEW m \in Messages,
         consumer \in [Consumers -> Consumer],
         consumer' = [consumer EXCEPT ![c] = r]
  PROVE  /\ (r.hand = m <=> consumer[c].hand = m)
              => Cardinality(InHand(m))' = Cardinality(InHand(m))
         /\ r.hand = m /\ consumer[c].hand # m
              => Cardinality(InHand(m))' = Cardinality(InHand(m)) + 1
         /\ r.hand # m /\ consumer[c].hand = m
              => Cardinality(InHand(m))' = Cardinality(InHand(m)) - 1
<1>1. CASE r.hand = m <=> consumer[c].hand = m
  <2>1. InHand(m)' = InHand(m)
    BY <1>1 DEF InHand
  <2> QED BY <1>1, <2>1
<1>2. CASE r.hand = m /\ consumer[c].hand # m
  <2>1. InHand(m)' = InHand(m) \cup {c} /\ c \notin InHand(m)
    BY <1>2 DEF InHand
  <2> QED BY <1>2, <2>1, HandsAreFinite, FS_AddElement
<1>3. CASE r.hand # m /\ consumer[c].hand = m
  <2>1. InHand(m)' = InHand(m) \ {c} /\ c \in InHand(m)
    BY <1>3 DEF InHand
  <2>2. Cardinality(InHand(m))' = Cardinality(InHand(m)) - 1
    BY <2>1, HandsAreFinite, FS_RemoveElement
  <2> QED BY <1>3, <2>2
<1> QED BY <1>1, <1>2, <1>3

\* A message that nobody has sent is in nobody's hands.
LEMMA UnsentIsNowhere ==
  ASSUME Inductive, NEW m \in Messages, m \notin sent
  PROVE  /\ queue[m] = 0 /\ ended[m] = 0
         /\ \A c \in Consumers : consumer[c].hand # m /\ unacked[c] # m
<1>1. Cardinality(InHand(m)) \in Nat /\ IsFiniteSet(InHand(m))
  BY HandsAreFinite
<1>2. queue[m] \in Nat /\ ended[m] \in Nat
  BY DEF Inductive, RabbitTypeOK
<1>3. Copies(m) = 0
  BY DEF Inductive, Paid
<1>4. queue[m] = 0 /\ ended[m] = 0 /\ Cardinality(InHand(m)) = 0
  BY <1>1, <1>2, <1>3 DEF Copies
<1>5. InHand(m) = {}
  BY <1>1, <1>4, FS_EmptySet
<1>6. ASSUME NEW c \in Consumers PROVE consumer[c].hand # m /\ unacked[c] # m
  <2>1. consumer[c].hand # m
    BY <1>5 DEF InHand
  <2>2. unacked[c] # Nobody => consumer[c].hand = unacked[c]
    BY DEF Inductive, RabbitTypeOK
  <2> QED BY <2>1, <2>2, NobodyAssumption
<1> QED BY <1>4, <1>6

-----------------------------------------------------------------------------
(* The producer *)

ProducerStep == (\E m \in Messages : Send(m)) \/ Produces \/ ProducerFails

\* The hands stay, so do the messages that were dealt with.
LEMMA ProducerLeavesHands ==
  ASSUME ProducerStep
  PROVE  /\ UNCHANGED <<target, consumer, unacked, ended>>
         /\ \A m \in Messages : InHand(m)' = InHand(m)
<1>1. UNCHANGED <<target, consumer, unacked, ended>>
  BY DEF ProducerStep, Send, Produces, ProducerFails, Publish, PublishDown, Redial,
         PublishVanishes, PublishBreaks, RedialFails, ProducerBreaks, consumerSide
<1> QED BY <1>1 DEF InHand

LEMMA ProducerTypes ==
  ASSUME Inductive, ProducerStep
  PROVE  RabbitTypeOK' /\ Sending'
<1> DEFINE Good == /\ producer' \in Producer
                   /\ queue' \in [Messages -> Nat]
                   /\ vanished' \subseteq accepted' /\ accepted' \subseteq sent'
                   /\ sent' \subseteq Messages
                   /\ faults' \in 0 .. MaxFaults
                   /\ Sending'
<1>1. /\ producer \in Producer /\ queue \in [Messages -> Nat]
      /\ vanished \subseteq accepted /\ accepted \subseteq sent /\ sent \subseteq Messages
      /\ faults \in 0 .. MaxFaults
      /\ producer.pc = "idle" <=> producer.message = Nobody
      /\ producer.message # Nobody => producer.message \in sent
  BY DEF Inductive, RabbitTypeOK, Sending
<1>2. ASSUME producer.pc \in {"first", "second"}, Failed(FALSE)
      PROVE  /\ producer' \in Producer
             /\ producer'.pc = "idle" <=> producer'.message = Nobody
             /\ producer'.message \in {producer.message, Nobody}
  <2> USE <1>1, <1>2, NobodyAssumption DEF Producer
  <2>1. CASE producer.pc = "first"
    <3>1. producer' = [pc |-> "retry", message |-> producer.message, up |-> FALSE]
      BY <2>1 DEF Failed
    <3> QED BY <3>1
  <2>2. CASE producer.pc = "second"
    <3>1. producer' = [pc |-> "idle", message |-> Nobody, up |-> FALSE]
      BY <2>2 DEF Failed, Returns
    <3> QED BY <3>1
  <2> QED BY <2>1, <2>2
<1>3. Good
  <2> USE <1>1, NobodyAssumption, MaxFaultsAssumption DEF Sending, Producer
  <2>1. CASE \E m \in Messages : Send(m)
    BY <2>1 DEF Send
  <2>2. CASE Publish
    BY <2>2 DEF Publish, Publishing, Returns, Enqueue
  <2>3. CASE PublishDown
    BY <2>3, <1>2 DEF PublishDown, Publishing
  <2>4. CASE Redial
    BY <2>4 DEF Redial
  <2>5. CASE PublishVanishes
    BY <2>5 DEF PublishVanishes, Publishing, Fault, Returns
  <2>6. CASE PublishBreaks
    <3>1. queue' \in [Messages -> Nat]
      BY <2>6 DEF PublishBreaks, Enqueue
    <3>2. UNCHANGED <<sent, accepted, vanished>> /\ faults' \in 0 .. MaxFaults
      BY <2>6 DEF PublishBreaks, Fault
    <3>3. producer.pc \in {"first", "second"} /\ Failed(FALSE)
      BY <2>6 DEF PublishBreaks, Publishing
    <3> QED BY <3>1, <3>2, <3>3, <1>2
  <2>7. CASE RedialFails
    BY <2>7 DEF RedialFails, Fault, Returns
  <2>8. CASE ProducerBreaks
    BY <2>8 DEF ProducerBreaks, Fault, Returns
  <2> QED BY <2>1, <2>2, <2>3, <2>4, <2>5, <2>6, <2>7, <2>8
          DEF ProducerStep, Produces, ProducerFails
<1> QED BY <1>3, ProducerLeavesHands DEF Inductive, RabbitTypeOK

\* A publication is not paid for when it is the one that Send was called for, and a
\* fault pays for what is published before it.
LEMMA ProducerPays ==
  ASSUME Inductive, ProducerStep
  PROVE  Paid'
<1> SUFFICES ASSUME NEW m \in Messages
             PROVE  /\ m \notin sent' => Copies(m)' = 0
                    /\ producer'.message = m => Copies(m)' <= faults'
                    /\ Copies(m)' <= 1 + faults'
  BY DEF Paid
<1> DEFINE hands == Cardinality(InHand(m))
<1>1. /\ hands \in Nat /\ queue \in [Messages -> Nat] /\ ended[m] \in Nat /\ faults \in Nat
      /\ producer \in Producer
  BY HandsAreFinite, MaxFaultsAssumption DEF Inductive, RabbitTypeOK
<1>2. hands' = hands /\ ended'[m] = ended[m]
  BY ProducerLeavesHands
<1>3. /\ m \notin sent => queue[m] + hands + ended[m] = 0
      /\ producer.message = m => queue[m] + hands + ended[m] <= faults
      /\ queue[m] + hands + ended[m] <= 1 + faults
  BY DEF Inductive, Paid, Copies
<1>4. /\ producer.pc = "idle" <=> producer.message = Nobody
      /\ producer.message # Nobody => producer.message \in sent
  BY DEF Inductive, Sending
<1>5. /\ m \notin sent' => queue'[m] + hands + ended[m] = 0
      /\ producer'.message = m => queue'[m] + hands + ended[m] <= faults'
      /\ queue'[m] + hands + ended[m] <= 1 + faults'
  <2> HIDE DEF hands
  <2> USE <1>1, <1>3, <1>4, NobodyAssumption DEF Producer
  <2>1. CASE \E n \in Messages : Send(n)
    BY <2>1 DEF Send
  <2>2. CASE Publish
    BY <2>2 DEF Publish, Publishing, Returns, Enqueue
  <2>3. CASE PublishDown
    BY <2>3 DEF PublishDown, Publishing, Failed, Returns
  <2>4. CASE Redial
    BY <2>4 DEF Redial
  <2>5. CASE PublishVanishes
    BY <2>5 DEF PublishVanishes, Publishing, Fault, Returns
  <2>6. CASE PublishBreaks
    BY <2>6 DEF PublishBreaks, Publishing, Fault, Failed, Returns, Enqueue
  <2>7. CASE RedialFails
    BY <2>7 DEF RedialFails, Fault, Returns
  <2>8. CASE ProducerBreaks
    BY <2>8 DEF ProducerBreaks, Fault, Returns
  <2> QED BY <2>1, <2>2, <2>3, <2>4, <2>5, <2>6, <2>7, <2>8
          DEF ProducerStep, Produces, ProducerFails
<1> QED BY <1>2, <1>5 DEF Copies

\* Nothing is taken out of the queue; what is accepted is in it, or vanishes.
LEMMA ProducerKeeps ==
  ASSUME Inductive, ProducerStep
  PROVE  Kept'
<1> USE NobodyAssumption DEF Inductive, RabbitTypeOK, Producer, consumerSide
<1>1. UNCHANGED <<consumer, unacked, ended>>
  BY ProducerLeavesHands
<1>2. ASSUME NEW m \in Messages, Exists(m), queue'[m] \in {queue[m], queue[m] + 1} PROVE Exists(m)'
  BY <1>1, <1>2 DEF Exists
<1>3. CASE Publish
  <2>1. PICK n \in Messages : n = producer.message
    BY <1>3 DEF Publish, Publishing, Sending
  <2>2. /\ accepted' = accepted \cup {n} /\ UNCHANGED vanished
        /\ queue' = [queue EXCEPT ![n] = @ + 1]
    BY <1>3, <2>1 DEF Publish, Enqueue
  <2>3. \A m \in Messages : queue'[m] \in {queue[m], queue[m] + 1}
    BY <2>2
  <2>4. Exists(n)'
    BY <2>2 DEF Exists
  <2> QED BY <1>1, <1>2, <2>2, <2>3, <2>4 DEF Kept
<1>4. CASE PublishVanishes
  <2>1. \A m \in Messages : Exists(m) => Exists(m)'
    BY <1>2, <1>4 DEF PublishVanishes
  <2> QED BY <1>1, <1>4, <2>1 DEF PublishVanishes, Kept
<1>5. CASE PublishBreaks
  <2>1. producer.message \in Messages
    BY <1>5 DEF PublishBreaks, Publishing, Sending
  <2>2. \A m \in Messages : queue'[m] \in {queue[m], queue[m] + 1}
    BY <1>5, <2>1 DEF PublishBreaks, Enqueue
  <2> QED BY <1>1, <1>2, <1>5, <2>2 DEF PublishBreaks, Kept
<1>6. CASE (\E m \in Messages : Send(m)) \/ PublishDown \/ Redial \/ RedialFails \/ ProducerBreaks
  <2>1. UNCHANGED <<queue, accepted, vanished>>
    BY <1>6 DEF Send, PublishDown, Redial, RedialFails, ProducerBreaks
  <2> QED BY <1>1, <2>1 DEF Kept, Exists
<1> QED BY <1>3, <1>4, <1>5, <1>6 DEF ProducerStep, Produces, ProducerFails

-----------------------------------------------------------------------------
(* The consumers *)

ConsumerStep ==
  \E c \in Consumers :
    \/ \E m \in Messages : Deliver(c, m)
    \/ Handling(c) \/ Recovers(c)
    \/ Breaks(c) \/ CloseConsumer(c)

\* Every step of a consumer is a new local state of it.
Moves(c, r) == consumer' = [consumer EXCEPT ![c] = r]

\* The types of what a consumer's step changes, from those of its new local state.
LEMMA MoveTypes ==
  ASSUME RabbitTypeOK, NEW c \in Consumers, NEW r \in Consumer, Moves(c, r),
         NEW u \in Messages \cup {Nobody}, unacked' = [unacked EXCEPT ![c] = u],
         u # Nobody => r.link = "open" /\ r.hand = u,
         r.hand # Nobody <=> r.pc \in {"handling", "sleeping"}
  PROVE  /\ consumer' \in [Consumers -> Consumer]
         /\ unacked' \in [Consumers -> Messages \cup {Nobody}]
         /\ \A d \in Consumers :
              /\ unacked'[d] # Nobody => consumer'[d].link = "open" /\ consumer'[d].hand = unacked'[d]
              /\ consumer'[d].hand # Nobody <=> consumer'[d].pc \in {"handling", "sleeping"}
<1>1. /\ consumer' \in [Consumers -> Consumer]
      /\ unacked' \in [Consumers -> Messages \cup {Nobody}]
  BY DEF RabbitTypeOK, Moves
<1>2. ASSUME NEW d \in Consumers
      PROVE  /\ unacked'[d] # Nobody => consumer'[d].link = "open" /\ consumer'[d].hand = unacked'[d]
             /\ consumer'[d].hand # Nobody <=> consumer'[d].pc \in {"handling", "sleeping"}
  <2>1. CASE d = c
    <3>1. consumer'[d] = r /\ unacked'[d] = u
      BY <2>1 DEF RabbitTypeOK, Moves
    <3> QED BY <3>1
  <2>2. CASE d # c
    <3>1. consumer'[d] = consumer[d] /\ unacked'[d] = unacked[d]
      BY <2>2 DEF RabbitTypeOK, Moves
    <3> QED BY <3>1 DEF RabbitTypeOK
  <2> QED BY <2>1, <2>2
<1> QED BY <1>1, <1>2

LEMMA ConsumerTypes ==
  ASSUME Inductive, NEW c \in Consumers,
         \/ \E m \in Messages : Deliver(c, m)
         \/ Handling(c) \/ Recovers(c) \/ Breaks(c) \/ CloseConsumer(c)
  PROVE  RabbitTypeOK' /\ \E r \in Consumer : Moves(c, r)
<1> DEFINE Local(pc, hand, link) == [pc |-> pc, hand |-> hand, link |-> link]
           Moved(r, u) == /\ r \in Consumer /\ Moves(c, r)
                          /\ u \in Messages \cup {Nobody}
                          /\ unacked' = [unacked EXCEPT ![c] = u]
                          /\ u # Nobody => r.link = "open" /\ r.hand = u
                          /\ r.hand # Nobody <=> r.pc \in {"handling", "sleeping"}
           Rest == /\ queue' \in [Messages -> Nat] /\ ended' \in [Messages -> Nat]
                   /\ faults' \in 0 .. MaxFaults
                   /\ UNCHANGED <<target, producer, sent, accepted, vanished>>
<1>1. /\ RabbitTypeOK /\ consumer[c] \in Consumer
      /\ unacked[c] \in Messages \cup {Nobody} /\ unacked = [unacked EXCEPT ![c] = unacked[c]]
      /\ unacked[c] # Nobody => consumer[c].link = "open" /\ consumer[c].hand = unacked[c]
      /\ consumer[c].hand # Nobody <=> consumer[c].pc \in {"handling", "sleeping"}
  BY DEF Inductive, RabbitTypeOK
<1>2. SUFFICES \E r, u : Moved(r, u) /\ Rest
  <2>1. PICK r, u : Moved(r, u) /\ Rest
    BY <1>2
  <2>2. r \in Consumer /\ Moves(c, r)
    BY <2>1
  <2>3. RabbitTypeOK'
    BY <1>1, <2>1, MoveTypes DEF RabbitTypeOK
  <2> QED BY <2>2, <2>3
<1> USE <1>1, NobodyAssumption, MaxFaultsAssumption
    DEF Consumer, Link, Moves, Becomes, Step, Done, producerSide
<1>3. CASE \E m \in Messages : Deliver(c, m)
  <2>1. PICK m \in Messages : Deliver(c, m)
    BY <1>3
  <2>2. Moved(Local("handling", m, consumer[c].link), m) /\ Rest
    BY <2>1 DEF Deliver, RabbitTypeOK
  <2> QED BY <2>2
<1>4. CASE Ack(c)
  <2>1. consumer[c].hand \in Messages
    BY <1>4 DEF Ack
  <2>2. Moved(Local("ready", Nobody, consumer[c].link), Nobody) /\ Rest
    BY <1>4, <2>1 DEF Ack, RabbitTypeOK
  <2> QED BY <2>2
<1>5. CASE NotForMe(c)
  <2>1. Moved(Local("sleeping", consumer[c].hand, consumer[c].link), unacked[c]) /\ Rest
    BY <1>5 DEF NotForMe, RabbitTypeOK
  <2> QED BY <2>1
<1>6. CASE Nack(c)
  <2>1. Moved(Local("ready", Nobody, consumer[c].link), Nobody) /\ Rest
    BY <1>6 DEF Nack, GiveBack, RabbitTypeOK
  <2> QED BY <2>1
<1>7. CASE NoticesClosed(c)
  <2>1. Moved(Local("dial", consumer[c].hand, consumer[c].link), unacked[c]) /\ Rest
    BY <1>7 DEF NoticesClosed, RabbitTypeOK
  <2> QED BY <2>1
<1>8. CASE Reconnect(c)
  <2>1. Moved(Local("subscribe", consumer[c].hand,
                    IF consumer[c].link = "channel" THEN "channel" ELSE "open"), unacked[c])
        /\ Rest
    BY <1>8 DEF Reconnect, RabbitTypeOK
  <2> QED BY <2>1
<1>9. CASE Resubscribe(c)
  <2>1. Moved(Local("ready", consumer[c].hand, consumer[c].link), unacked[c]) /\ Rest
    BY <1>9 DEF Resubscribe, RabbitTypeOK
  <2> QED BY <2>1
<1>10. CASE ResubscribeFails(c)
  <2>1. Moved(Local("dial", consumer[c].hand, "down"), unacked[c]) /\ Rest
    BY <1>10 DEF ResubscribeFails, RabbitTypeOK
  <2> QED BY <2>1
<1>11. CASE Breaks(c)
  <2>1. PICK link \in {"channel", "down"} : Becomes(c, consumer[c].pc, consumer[c].hand, link)
    BY <1>11 DEF Breaks
  <2>2. Moved(Local(consumer[c].pc, consumer[c].hand, link), Nobody)
    BY <1>11, <2>1 DEF Breaks, GiveBack
  <2>3. Rest
    BY <1>11 DEF Breaks, GiveBack, Fault, RabbitTypeOK
  <2> QED BY <2>2, <2>3
<1>12. CASE CloseConsumer(c)
  <2>1. Moved(Local("closed", Nobody, "down"), Nobody) /\ Rest
    BY <1>12 DEF CloseConsumer, GiveBack, Fault, RabbitTypeOK
  <2> QED BY <2>1
<1> QED BY <1>3, <1>4, <1>5, <1>6, <1>7, <1>8, <1>9, <1>10, <1>11, <1>12
        DEF Handling, Recovers

\* A message goes from the queue to a hand, from there to those that were dealt with or
\* back; a broken connection puts a copy back while the hand keeps its own.
LEMMA ConsumerPays ==
  ASSUME Inductive, NEW c \in Consumers,
         \/ \E m \in Messages : Deliver(c, m)
         \/ Handling(c) \/ Recovers(c) \/ Breaks(c) \/ CloseConsumer(c)
  PROVE  Paid'
<1> SUFFICES ASSUME NEW m \in Messages
             PROVE  /\ m \notin sent' => Copies(m)' = 0
                    /\ producer'.message = m => Copies(m)' <= faults'
                    /\ Copies(m)' <= 1 + faults'
  BY DEF Paid
<1> DEFINE hands == Cardinality(InHand(m))
           unsent == m \notin sent => consumer[c].hand # m /\ unacked[c] # m /\ queue[m] = 0
                                        /\ \A n \in Messages : queue[n] > 0 => n # m
<1>1. /\ hands \in Nat /\ hands' \in Nat
      /\ queue \in [Messages -> Nat] /\ ended \in [Messages -> Nat] /\ faults \in Nat
      /\ unacked \in [Consumers -> Messages \cup {Nobody}]
      /\ unacked[c] # Nobody => consumer[c].hand = unacked[c]
      /\ consumer[c].hand # Nobody <=> consumer[c].pc \in {"handling", "sleeping"}
      /\ consumer[c].hand \in Messages \cup {Nobody}
  <2>1. hands \in Nat /\ hands' \in Nat
    BY HandsAreFinite, ConsumersAssumption, FS_Subset, FS_CardinalityType DEF InHand
  <2> HIDE DEF hands
  <2> QED BY <2>1, MaxFaultsAssumption DEF Inductive, RabbitTypeOK, Consumer
<1>2. PICK r \in Consumer : Moves(c, r)
  BY ConsumerTypes
<1>3. consumer \in [Consumers -> Consumer] /\ consumer'[c] = r
  BY <1>2 DEF Inductive, RabbitTypeOK, Moves
<1>4. /\ (r.hand = m <=> consumer[c].hand = m) => hands' = hands
      /\ r.hand = m /\ consumer[c].hand # m => hands' = hands + 1
      /\ r.hand # m /\ consumer[c].hand = m => hands' = hands - 1
  BY <1>2, <1>3, HandMoves DEF Moves
<1>5. /\ m \notin sent => queue[m] = 0 /\ ended[m] = 0 /\ hands = 0
                            /\ consumer[c].hand # m /\ unacked[c] # m
      /\ producer.message = m => queue[m] + hands + ended[m] <= faults
      /\ queue[m] + hands + ended[m] <= 1 + faults
  <2>1. m \notin sent => queue[m] + hands + ended[m] = 0
    BY DEF Inductive, Paid, Copies
  <2>2. m \notin sent => queue[m] = 0 /\ ended[m] = 0 /\ hands = 0
    BY <1>1, <2>1
  <2> QED BY <2>2, UnsentIsNowhere DEF Inductive, Paid, Copies
<1>6. UNCHANGED <<producer, sent>>
  BY DEF Deliver, Handling, Ack, NotForMe, Nack, Recovers, NoticesClosed, Reconnect,
         Resubscribe, ResubscribeFails, Breaks, CloseConsumer, producerSide
<1>7. /\ m \notin sent => queue'[m] + hands' + ended'[m] = 0
      /\ producer.message = m => queue'[m] + hands' + ended'[m] <= faults'
      /\ queue'[m] + hands' + ended'[m] <= 1 + faults'
  <2> HIDE DEF hands
  <2> USE <1>1, <1>3, <1>4, <1>5, NobodyAssumption
  <2>1. CASE \E n \in Messages : Deliver(c, n)
    <3>1. PICK n \in Messages : Deliver(c, n)
      BY <2>1
    <3>2. r.hand = n /\ consumer[c].hand = Nobody /\ ended' = ended /\ faults' = faults
      BY <3>1 DEF Deliver, Becomes
    <3>3. queue[n] > 0 /\ queue' = [queue EXCEPT ![n] = @ - 1]
      BY <3>1 DEF Deliver
    <3>4. CASE n = m
      BY <3>2, <3>3, <3>4
    <3>5. CASE n # m
      BY <3>2, <3>3, <3>5
    <3> QED BY <3>4, <3>5
  <2>2. CASE Ack(c)
    <3>1. /\ r.hand = Nobody /\ queue' = queue /\ faults' = faults
          /\ ended' = [ended EXCEPT ![consumer[c].hand] = @ + 1]
      BY <2>2 DEF Ack, Done, Becomes
    <3>2. CASE consumer[c].hand = m
      BY <3>1, <3>2
    <3>3. CASE consumer[c].hand # m
      BY <3>1, <3>3
    <3> QED BY <3>2, <3>3
  <2>3. CASE Nack(c) \/ CloseConsumer(c)
    <3>1. /\ r.hand = Nobody /\ ended' = ended /\ faults' \in {faults, faults + 1}
          /\ queue'[m] = IF m = unacked[c] THEN queue[m] + 1 ELSE queue[m]
      BY <2>3 DEF Nack, CloseConsumer, Done, Becomes, GiveBack, Fault
    <3>2. CASE consumer[c].hand = m
      BY <3>1, <3>2
    <3>3. CASE consumer[c].hand # m
      BY <3>1, <3>3
    <3> QED BY <3>2, <3>3
  <2>4. CASE Breaks(c)
    <3>1. /\ r.hand = consumer[c].hand /\ ended' = ended /\ faults' = faults + 1
          /\ queue'[m] = IF m = unacked[c] THEN queue[m] + 1 ELSE queue[m]
      BY <2>4 DEF Breaks, Becomes, GiveBack, Fault
    <3> QED BY <3>1
  <2>5. CASE NotForMe(c) \/ Recovers(c)
    <3>1. r.hand = consumer[c].hand /\ UNCHANGED <<queue, ended, faults>>
      BY <2>5 DEF NotForMe, Recovers, NoticesClosed, Reconnect, Resubscribe,
                  ResubscribeFails, Step, Becomes
    <3> QED BY <3>1
  <2> QED BY <2>1, <2>2, <2>3, <2>4, <2>5 DEF Handling
<1> QED BY <1>6, <1>7 DEF Copies

\* A message leaves the broker's hands only when a handler has dealt with it.
LEMMA ExistsOn ==
  ASSUME Inductive, NEW c \in Consumers,
         \/ \E m \in Messages : Deliver(c, m)
         \/ Handling(c) \/ Recovers(c) \/ Breaks(c) \/ CloseConsumer(c),
         NEW m \in Messages, Exists(m)
  PROVE  Exists(m)'
<1> SUFFICES queue'[m] > 0 \/ ended'[m] > 0 \/ \E d \in Consumers : unacked'[d] = m
  BY DEF Exists
<1>1. /\ queue \in [Messages -> Nat] /\ ended \in [Messages -> Nat]
      /\ unacked \in [Consumers -> Messages \cup {Nobody}]
      /\ unacked[c] # Nobody => consumer[c].hand = unacked[c]
      /\ consumer[c].hand # Nobody <=> consumer[c].pc \in {"handling", "sleeping"}
      /\ consumer[c].hand \in Messages \cup {Nobody}
  BY DEF Inductive, RabbitTypeOK, Consumer
<1>2. queue[m] > 0 \/ ended[m] > 0 \/ \E d \in Consumers : unacked[d] = m
  BY DEF Exists
<1> USE <1>1, <1>2, NobodyAssumption
<1>3. CASE \E n \in Messages : Deliver(c, n)
  <2>1. PICK n \in Messages : Deliver(c, n)
    BY <1>3
  <2>2. unacked[c] = Nobody
    BY <2>1 DEF Deliver
  <2>3. /\ queue' = [queue EXCEPT ![n] = @ - 1] /\ ended' = ended
        /\ unacked' = [unacked EXCEPT ![c] = n]
    BY <2>1 DEF Deliver
  <2>4. CASE n = m
    BY <2>3, <2>4
  <2>5. CASE n # m
    BY <2>2, <2>3, <2>5
  <2> QED BY <2>4, <2>5
<1>4. CASE Ack(c)
  <2>1. /\ queue' = queue /\ consumer[c].hand \in Messages
        /\ ended' = [ended EXCEPT ![consumer[c].hand] = @ + 1]
        /\ unacked' = [unacked EXCEPT ![c] = Nobody]
    BY <1>4 DEF Ack
  <2>2. CASE unacked[c] = m
    BY <2>1, <2>2
  <2>3. CASE unacked[c] # m
    BY <2>1, <2>3
  <2> QED BY <2>2, <2>3
<1>5. CASE Nack(c) \/ Breaks(c) \/ CloseConsumer(c)
  <2>1. GiveBack(c) /\ ended' = ended
    BY <1>5 DEF Nack, Breaks, CloseConsumer
  <2>2. CASE unacked[c] = m
    BY <2>1, <2>2 DEF GiveBack
  <2>3. CASE unacked[c] # m
    BY <2>1, <2>3 DEF GiveBack
  <2> QED BY <2>2, <2>3
<1>6. CASE NotForMe(c) \/ Recovers(c)
  BY <1>6 DEF NotForMe, Recovers, NoticesClosed, Reconnect, Resubscribe, ResubscribeFails
<1> QED BY <1>3, <1>4, <1>5, <1>6 DEF Handling

\* What comes to hand is delivered over a connection that lives.
LEMMA ConsumerKeeps ==
  ASSUME Inductive, NEW c \in Consumers,
         \/ \E m \in Messages : Deliver(c, m)
         \/ Handling(c) \/ Recovers(c) \/ Breaks(c) \/ CloseConsumer(c)
  PROVE  Kept'
<1> SUFFICES ASSUME NEW m \in Messages,
                    \/ m \in accepted' \ vanished'
                    \/ \E d \in Consumers : consumer'[d].hand = m
             PROVE  Exists(m)'
  BY DEF Kept
<1>1. consumer \in [Consumers -> Consumer] /\ Kept
  BY DEF Inductive, RabbitTypeOK
<1>2. UNCHANGED <<accepted, vanished>>
  BY DEF Deliver, Handling, Ack, NotForMe, Nack, Recovers, NoticesClosed, Reconnect,
         Resubscribe, ResubscribeFails, Breaks, CloseConsumer, producerSide
<1>3. CASE \E n \in Messages : Deliver(c, n) /\ n = m
  <2>1. unacked' = [unacked EXCEPT ![c] = m] /\ unacked \in [Consumers -> Messages \cup {Nobody}]
    BY <1>3 DEF Deliver, Inductive, RabbitTypeOK
  <2> QED BY <2>1 DEF Exists
<1>4. CASE ~ \E n \in Messages : Deliver(c, n) /\ n = m
  <2>1. PICK r \in Consumer : Moves(c, r)
    BY ConsumerTypes
  <2>2. r.hand = m => consumer[c].hand = m
    <3>1. consumer'[c] = r
      BY <1>1, <2>1 DEF Moves
    <3> QED BY <1>1, <1>4, <3>1, NobodyAssumption
            DEF Deliver, Handling, Ack, NotForMe, Nack, Recovers, NoticesClosed, Reconnect,
                Resubscribe, ResubscribeFails, Breaks, CloseConsumer, Step, Done, Becomes
  <2>3. \A d \in Consumers : consumer'[d].hand = m => consumer[d].hand = m
    BY <1>1, <2>1, <2>2 DEF Moves
  <2>4. Exists(m)
    BY <1>1, <1>2, <2>3 DEF Kept
  <2> QED BY <2>4, ExistsOn
<1> QED BY <1>3, <1>4

-----------------------------------------------------------------------------

LEMMA InitInductive == Init => Inductive
<1> SUFFICES ASSUME Init PROVE Inductive
  OBVIOUS
<1> USE NobodyAssumption, MaxFaultsAssumption DEF Init, RabbitInit
<1>1. RabbitTypeOK
  BY DEF RabbitTypeOK, Producer, Consumer, Link
<1>2. Sending /\ Kept
  BY DEF Sending, Kept, Exists
<1>3. ASSUME NEW m \in Messages PROVE Copies(m) = 0
  <2>1. InHand(m) = {}
    BY DEF InHand
  <2> QED BY <2>1, FS_EmptySet DEF Copies
<1>4. Paid
  BY <1>3 DEF Paid
<1> QED BY <1>1, <1>2, <1>4 DEF Inductive

\* Every step preserves the invariant.
LEMMA NextInductive == Inductive /\ [Next]_queueVars => Inductive'
<1> SUFFICES ASSUME Inductive, [Next]_queueVars PROVE Inductive'
  OBVIOUS
<1>1. CASE RabbitNext
  <2>1. CASE ProducerStep
    BY <2>1, ProducerTypes, ProducerPays, ProducerKeeps DEF Inductive
  <2>2. CASE ConsumerStep
    <3>1. PICK c \in Consumers : \/ \E m \in Messages : Deliver(c, m)
                                 \/ Handling(c) \/ Recovers(c)
                                 \/ Breaks(c) \/ CloseConsumer(c)
      BY <2>2 DEF ConsumerStep
    <3>2. RabbitTypeOK' /\ Paid' /\ Kept'
      BY <3>1, ConsumerTypes, ConsumerPays, ConsumerKeeps
    <3>3. UNCHANGED <<producer, sent>>
      BY <3>1 DEF Deliver, Handling, Ack, NotForMe, Nack, Recovers, NoticesClosed, Reconnect,
                  Resubscribe, ResubscribeFails, Breaks, CloseConsumer, producerSide
    <3> QED BY <3>2, <3>3 DEF Inductive, Sending
  <2> QED BY <1>1, <2>1, <2>2 DEF RabbitNext, ProducerStep, ConsumerStep
<1>2. CASE UNCHANGED rabbitVars
  <2>1. \A m : InHand(m)' = InHand(m)
    BY <1>2 DEF rabbitVars, InHand
  <2>2. \A m : Copies(m)' = Copies(m)
    BY <1>2, <2>1 DEF rabbitVars, Copies
  <2>3. Paid'
    BY <1>2, <2>2 DEF Inductive, Paid, rabbitVars
  <2>4. RabbitTypeOK' /\ Sending' /\ Kept'
    BY <1>2 DEF Inductive, RabbitTypeOK, Sending, Kept, Exists, rabbitVars
  <2> QED BY <2>3, <2>4 DEF Inductive
<1> QED BY <1>1, <1>2 DEF Next, queueVars

\* The invariant: whatever is published, taken, handed back, acknowledged or broken.
THEOREM InductiveInvariant == Spec => []Inductive
BY InitInductive, NextInductive, PTL DEF Spec

\* The types of the queue of RabbitMQ; in particular the broker waits for an
\* acknowledgement only over a connection that lives, of what that consumer has in hand.
THEOREM TypeCorrect == Spec => []RabbitTypeOK
<1>1. Inductive => RabbitTypeOK
  BY DEF Inductive
<1> QED BY <1>1, InductiveInvariant, PTL

\* A message is dealt with once, and once more for every connection that broke
\* (publishOnce after a reconnection, and redelivery), for any number of faults.
THEOREM CopiesArePaid == Spec => []CopiesPaidByFaults
<1>1. Inductive => CopiesPaidByFaults
  <2> SUFFICES ASSUME Inductive, NEW m \in Messages
               PROVE  queue[m] + Held(m) + ended[m] <= 1 + faults
    BY DEF CopiesPaidByFaults
  <2>1. {c \in Consumers : unacked[c] = m} \subseteq InHand(m)
    BY NobodyAssumption DEF Inductive, RabbitTypeOK, InHand
  <2>2. Held(m) \in Nat /\ Held(m) <= Cardinality(InHand(m))
    BY <2>1, HandsAreFinite, FS_Subset, FS_CardinalityType DEF Held
  <2>3. /\ queue[m] \in Nat /\ ended[m] \in Nat /\ faults \in Nat
        /\ queue[m] + Cardinality(InHand(m)) + ended[m] <= 1 + faults
    BY MaxFaultsAssumption DEF Inductive, RabbitTypeOK, Paid, Copies
  <2> QED BY <2>2, <2>3, HandsAreFinite
<1> QED BY <1>1, InductiveInvariant, PTL

\* "Consumers MUST treat this as 'do not ack'": a message whose Send returned no error is
\* kept until a handler has dealt with it, unless it died in the producer's buffers.
THEOREM AcceptedStays == Spec => []AcceptedKept
<1>1. Inductive => AcceptedKept
  <2> SUFFICES ASSUME Inductive, NEW m \in accepted \ vanished
               PROVE  queue[m] + Held(m) + ended[m] > 0
    BY DEF AcceptedKept
  <2> DEFINE S == {c \in Consumers : unacked[c] = m}
  <2>1. /\ IsFiniteSet(S) /\ Cardinality(S) \in Nat
        /\ Cardinality(S) = 0 <=> S = {}
    BY ConsumersAssumption, FS_Subset, FS_CardinalityType, FS_EmptySet
  <2>2. m \in Messages /\ queue[m] \in Nat /\ ended[m] \in Nat
    BY DEF Inductive, RabbitTypeOK
  <2>3. queue[m] > 0 \/ ended[m] > 0 \/ S # {}
    BY <2>2 DEF Inductive, Kept, Exists
  <2> HIDE DEF S
  <2>4. queue[m] + Cardinality(S) + ended[m] > 0
    BY <2>1, <2>2, <2>3
  <2> QED BY <2>4 DEF S, Held
<1> QED BY <1>1, InductiveInvariant, PTL

-----------------------------------------------------------------------------
(* What the broker's queue promises: its copies, seen from QueuePromise *)

Sent == [m \in Messages |-> IF m \in sent THEN 1 ELSE 0]
Waiting == [m \in Messages |-> queue[m] + Held(m)]
brokerView == <<Sent, Waiting, ended, faults, FALSE>>

Unacked(m) == {c \in Consumers : unacked[c] = m}

\* How the number of deliveries of a message that wait for an acknowledgement changes with
\* one connection, and how it compares with the hands that have the message.
LEMMA HeldMoves ==
  ASSUME NEW c \in Consumers, NEW u \in Messages \cup {Nobody}, NEW m \in Messages,
         unacked \in [Consumers -> Messages \cup {Nobody}],
         unacked' = [unacked EXCEPT ![c] = u]
  PROVE  /\ Held(m) \in Nat /\ Held(m)' \in Nat
         /\ (u = m <=> unacked[c] = m) => Held(m)' = Held(m)
         /\ u = m /\ unacked[c] # m => Held(m)' = Held(m) + 1
         /\ u # m /\ unacked[c] = m => Held(m)' = Held(m) - 1 /\ Held(m) > 0
<1>1. IsFiniteSet(Unacked(m)) /\ Held(m) = Cardinality(Unacked(m)) /\ Held(m) \in Nat
  BY ConsumersAssumption, FS_Subset, FS_CardinalityType DEF Unacked, Held
<1>2. /\ Held(m)' = Cardinality(Unacked(m)') /\ Held(m)' \in Nat
  <2>1. IsFiniteSet(Unacked(m)')
    BY ConsumersAssumption, FS_Subset DEF Unacked
  <2> QED BY <2>1, FS_CardinalityType DEF Unacked, Held
<1>3. CASE u = m <=> unacked[c] = m
  <2>1. Unacked(m)' = Unacked(m)
    BY <1>3 DEF Unacked
  <2> QED BY <1>1, <1>2, <1>3, <2>1
<1>4. CASE u = m /\ unacked[c] # m
  <2>1. Unacked(m)' = Unacked(m) \cup {c} /\ c \notin Unacked(m)
    BY <1>4 DEF Unacked
  <2>2. Cardinality(Unacked(m)') = Cardinality(Unacked(m)) + 1
    BY <1>1, <2>1, FS_AddElement
  <2> QED BY <1>1, <1>2, <1>4, <2>2
<1>5. CASE u # m /\ unacked[c] = m
  <2>1. Unacked(m)' = Unacked(m) \ {c} /\ c \in Unacked(m)
    BY <1>5 DEF Unacked
  <2>2. Cardinality(Unacked(m)') = Cardinality(Unacked(m)) - 1
    BY <1>1, <2>1, FS_RemoveElement
  <2>3. Held(m)' = Held(m) - 1
    BY <1>1, <1>2, <2>2
  <2>4. Held(m) > 0
    BY <1>1, <1>2, <2>3
  <2> QED BY <1>1, <1>2, <1>5, <2>3, <2>4
<1> QED BY <1>3, <1>4, <1>5

\* A delivery that waits is in hand; a hand whose connection broke has one that does not.
LEMMA HandsHold ==
  ASSUME RabbitTypeOK, NEW m \in Messages
  PROVE  /\ Held(m) \in Nat /\ Held(m) <= Cardinality(InHand(m))
         /\ (\E c \in Consumers : unacked[c] = m) => Held(m) > 0
         /\ \A c \in InHand(m) : unacked[c] # m => Held(m) < Cardinality(InHand(m))
<1>1. /\ IsFiniteSet(InHand(m)) /\ Cardinality(InHand(m)) \in Nat
      /\ IsFiniteSet(Unacked(m)) /\ Held(m) = Cardinality(Unacked(m)) /\ Held(m) \in Nat
  BY HandsAreFinite, ConsumersAssumption, FS_Subset, FS_CardinalityType DEF Unacked, Held
<1>2. Unacked(m) \subseteq InHand(m)
  BY NobodyAssumption DEF RabbitTypeOK, InHand, Unacked
<1>3. Held(m) <= Cardinality(InHand(m))
  BY <1>1, <1>2, FS_Subset
<1>4. ASSUME \E c \in Consumers : unacked[c] = m PROVE Held(m) > 0
  <2>1. Unacked(m) # {}
    BY <1>4 DEF Unacked
  <2>2. Cardinality(Unacked(m)) # 0
    BY <1>1, <2>1, FS_EmptySet
  <2> QED BY <1>1, <2>2
<1>5. ASSUME NEW c \in InHand(m), unacked[c] # m PROVE Held(m) < Cardinality(InHand(m))
  <2>1. Unacked(m) \subseteq InHand(m) \ {c}
    BY <1>2, <1>5 DEF Unacked
  <2>2. /\ IsFiniteSet(InHand(m) \ {c})
        /\ Cardinality(InHand(m) \ {c}) = Cardinality(InHand(m)) - 1
    BY <1>1, FS_RemoveElement
  <2>3. Cardinality(Unacked(m)) <= Cardinality(InHand(m) \ {c})
    BY <2>1, <2>2, FS_Subset
  <2> QED BY <1>1, <2>2, <2>3
<1> QED BY <1>1, <1>3, <1>4, <1>5

\* Numbers as the promise sees them.
LEMMA ViewTypes ==
  ASSUME RabbitTypeOK
  PROVE  /\ Sent \in [Messages -> Nat] /\ Waiting \in [Messages -> Nat]
         /\ ended \in [Messages -> Nat] /\ faults \in Nat
         /\ \A m \in Messages : Waiting[m] = queue[m] + Held(m)
         /\ \A m \in Messages : Sent[m] = IF m \in sent THEN 1 ELSE 0
<1>1. \A m \in Messages : Held(m) \in Nat
  BY HandsHold
<1> HIDE DEF Held
<1> QED BY <1>1, MaxFaultsAssumption DEF RabbitTypeOK, Sent, Waiting

\* A delivery moves a copy from the queue to a connection, and one that is handed back or
\* lost with its connection goes the other way: the broker's copies stay.
LEMMA CopiesMove ==
  ASSUME RabbitTypeOK, NEW c \in Consumers,
         \/ \E m \in Messages : /\ unacked[c] = Nobody /\ queue[m] > 0
                               /\ queue' = [queue EXCEPT ![m] = @ - 1]
                               /\ unacked' = [unacked EXCEPT ![c] = m]
         \/ GiveBack(c)
  PROVE  Waiting' = Waiting
<1>t. /\ queue \in [Messages -> Nat] /\ unacked \in [Consumers -> Messages \cup {Nobody}]
      /\ \A m \in Messages : Held(m) \in Nat
  BY HandsHold DEF RabbitTypeOK
<1> SUFFICES ASSUME NEW m \in Messages PROVE queue'[m] + Held(m)' = queue[m] + Held(m)
  BY DEF Waiting
<1>1. CASE GiveBack(c)
  <2>1. /\ queue'[m] = IF m = unacked[c] THEN queue[m] + 1 ELSE queue[m]
        /\ unacked' = [unacked EXCEPT ![c] = Nobody]
    BY <1>1 DEF GiveBack
  <2>2. /\ unacked[c] = m => Held(m)' = Held(m) - 1
        /\ unacked[c] # m => Held(m)' = Held(m)
    BY <1>t, <2>1, HeldMoves, NobodyAssumption
  <2> QED BY <1>t, <2>1, <2>2
<1>2. CASE \E n \in Messages : /\ unacked[c] = Nobody /\ queue[n] > 0
                             /\ queue' = [queue EXCEPT ![n] = @ - 1]
                             /\ unacked' = [unacked EXCEPT ![c] = n]
  <2>1. PICK n \in Messages : /\ unacked[c] = Nobody /\ queue[n] > 0
                             /\ queue' = [queue EXCEPT ![n] = @ - 1]
                             /\ unacked' = [unacked EXCEPT ![c] = n]
    BY <1>2
  <2>2. /\ n = m => Held(m)' = Held(m) + 1
        /\ n # m => Held(m)' = Held(m)
    BY <1>t, <2>1, HeldMoves, NobodyAssumption
  <2>3. queue'[m] = IF n = m THEN queue[m] - 1 ELSE queue[m]
    BY <1>t, <2>1
  <2> QED BY <1>t, <2>1, <2>2, <2>3
<1> QED BY <1>1, <1>2

\* An acknowledgement takes the copy that was delivered, or, when its connection was lost,
\* none; then a fault has paid for the message to be dealt with again.
LEMMA AckPromised ==
  ASSUME Inductive, NEW c \in Consumers, Ack(c)
  PROVE  Broker!Next
<1>t. /\ RabbitTypeOK /\ Waiting \in [Messages -> Nat] /\ ended \in [Messages -> Nat]
      /\ unacked \in [Consumers -> Messages \cup {Nobody}] /\ faults \in Nat
      /\ queue \in [Messages -> Nat]
      /\ \A m \in Messages : Waiting[m] = queue[m] + Held(m)
      /\ \A m \in Messages : Sent[m] = IF m \in sent THEN 1 ELSE 0
  BY ViewTypes DEF Inductive, RabbitTypeOK
<1>1. PICK h \in Messages : h = consumer[c].hand
  BY DEF Ack, Inductive, RabbitTypeOK, Consumer
<1>2. /\ ended' = [ended EXCEPT ![h] = @ + 1]
      /\ unacked' = [unacked EXCEPT ![c] = Nobody]
      /\ UNCHANGED <<queue, sent, faults>>
  BY <1>1 DEF Ack, producerSide
<1>3. UNCHANGED Sent
  BY <1>2 DEF Sent
<1>h. ASSUME NEW m \in Messages
      PROVE  /\ Held(m) \in Nat
             /\ unacked[c] # m => Held(m)' = Held(m)
             /\ unacked[c] = m => Held(m)' = Held(m) - 1 /\ Held(m) > 0
  <2>1. m # Nobody /\ unacked \in [Consumers -> Messages \cup {Nobody}]
    BY <1>t, NobodyAssumption
  <2>2. unacked' = [unacked EXCEPT ![c] = Nobody] /\ Nobody \in Messages \cup {Nobody}
    BY <1>2
  <2>3. /\ Held(m) \in Nat
        /\ (Nobody = m <=> unacked[c] = m) => Held(m)' = Held(m)
        /\ Nobody # m /\ unacked[c] = m => Held(m)' = Held(m) - 1 /\ Held(m) > 0
    BY <2>1, <2>2, HeldMoves
  <2> QED BY <2>1, <2>3
<1>4. CASE unacked[c] = h
  <2>1. /\ Held(h) \in Nat /\ Held(h)' = Held(h) - 1 /\ Held(h) > 0
    BY <1>4, <1>h
  <2>2. \A m \in Messages : m # h => Held(m)' = Held(m)
    BY <1>4, <1>h
  <2>3. Waiting[h] > 0
    BY <1>t, <2>1
  <2>4. Waiting' = [Waiting EXCEPT ![h] = @ - 1]
    <3>1. queue[h] + Held(h)' = (queue[h] + Held(h)) - 1
      BY <1>t, <2>1
    <3> HIDE DEF Held
    <3> QED BY <1>2, <2>2, <3>1 DEF Waiting
  <2>5. Broker!DealWith(h)
    BY <1>2, <1>3, <2>3, <2>4 DEF Broker!DealWith, Broker!DealsWith, Sent, Waiting
  <2> QED BY <2>5 DEF Broker!Next
<1>5. CASE unacked[c] # h
  <2>1. unacked[c] = Nobody
    BY <1>1, <1>5 DEF Inductive, RabbitTypeOK
  <2>2. Waiting' = Waiting
    <3>1. \A m \in Messages : Held(m)' = Held(m)
      BY <1>h, <2>1, NobodyAssumption
    <3> QED BY <1>2, <3>1 DEF Waiting
  <2>3. h \in sent
    BY <1>1, UnsentIsNowhere
  <2>4. Waiting[h] + ended[h] > 0
    <3>1. Exists(h)
      BY <1>1 DEF Inductive, Kept
    <3>2. Held(h) \in Nat /\ ((\E d \in Consumers : unacked[d] = h) => Held(h) > 0)
      BY <1>t, HandsHold
    <3> QED BY <1>t, <3>1, <3>2 DEF Exists
  <2>5. Waiting[h] + ended[h] < 1 + faults
    <3>1. Held(h) \in Nat /\ Held(h) < Cardinality(InHand(h))
      <4>1. c \in InHand(h)
        BY <1>1 DEF InHand
      <4> QED BY <1>t, <1>5, <4>1, HandsHold
    <3>2. queue[h] + Cardinality(InHand(h)) + ended[h] <= 1 + faults
      BY DEF Inductive, Paid, Copies
    <3>3. Cardinality(InHand(h)) \in Nat
      BY HandsAreFinite
    <3> QED BY <1>t, <3>1, <3>2, <3>3
  <2>6. Sent[h] = 1
    BY <1>t, <2>3
  <2>7. Sent[h] > 0 /\ Waiting[h] + ended[h] < Sent[h] + faults
    BY <2>5, <2>6
  <2>8. Broker!DealWithAgain(h)
    BY <1>2, <1>3, <2>2, <2>4, <2>7
       DEF Broker!DealWithAgain, Broker!DealsWith, Broker!Paid, Sent, Waiting
  <2> QED BY <2>8 DEF Broker!Next
<1> QED BY <1>4, <1>5

\* A step of a consumer is one of the promise, or changes nothing in its view.
LEMMA ConsumerPromised ==
  ASSUME Inductive, NEW c \in Consumers,
         \/ \E m \in Messages : Deliver(c, m)
         \/ Handling(c) \/ Recovers(c) \/ Breaks(c) \/ CloseConsumer(c)
  PROVE  Broker!Next \/ UNCHANGED brokerView
<1>t. RabbitTypeOK /\ faults \in Nat
  BY ViewTypes DEF Inductive
<1>1. UNCHANGED Sent
  BY DEF Deliver, Handling, Ack, NotForMe, Nack, Recovers, NoticesClosed, Reconnect, Resubscribe,
         ResubscribeFails, Breaks, CloseConsumer, producerSide, Sent
<1>2. CASE Ack(c)
  BY <1>2, AckPromised
<1>3. CASE \E m \in Messages : Deliver(c, m)
  <2>1. PICK m \in Messages : Deliver(c, m)
    BY <1>3
  <2>2. consumer[c].hand = Nobody
    BY <2>1 DEF Deliver, RabbitTypeOK, Inductive
  <2>3. unacked[c] = Nobody
    BY <2>2 DEF RabbitTypeOK, Inductive
  <2>4. UNCHANGED <<ended, faults>> /\ Waiting' = Waiting
    BY <1>t, <2>1, <2>3, CopiesMove DEF Deliver
  <2> QED BY <1>1, <2>4 DEF brokerView
<1>4. CASE Nack(c)
  <2>1. UNCHANGED <<ended, faults>> /\ Waiting' = Waiting
    BY <1>t, <1>4, CopiesMove DEF Nack
  <2> QED BY <1>1, <2>1 DEF brokerView
<1>5. CASE Breaks(c) \/ CloseConsumer(c)
  <2>1. UNCHANGED ended /\ Waiting' = Waiting /\ faults' = faults + 1
    BY <1>t, <1>5, CopiesMove DEF Breaks, CloseConsumer, Fault
  <2>2. Broker!Breaks
    BY <1>1, <2>1 DEF Broker!Breaks, Sent, Waiting
  <2> QED BY <2>2 DEF Broker!Next
<1>6. CASE NotForMe(c) \/ Recovers(c)
  <2>1. UNCHANGED <<queue, unacked, ended, faults>>
    BY <1>6 DEF NotForMe, Recovers, NoticesClosed, Reconnect, Resubscribe, ResubscribeFails
  <2>2. Waiting' = Waiting
    BY <2>1 DEF Waiting, Held
  <2> QED BY <1>1, <2>1, <2>2 DEF brokerView
<1> QED BY <1>2, <1>3, <1>4, <1>5, <1>6 DEF Handling

\* A publication arrives, or breaks: it arrives before the fault that it is returned for.
LEMMA ProducerPromised ==
  ASSUME Inductive, ProducerStep
  PROVE  Broker!Next \/ UNCHANGED brokerView
<1>t. /\ Waiting \in [Messages -> Nat] /\ ended \in [Messages -> Nat] /\ faults \in Nat
      /\ queue \in [Messages -> Nat] /\ producer \in Producer
      /\ \A m \in Messages : Waiting[m] = queue[m] + Held(m)
      /\ \A m \in Messages : Sent[m] = IF m \in sent THEN 1 ELSE 0
      /\ \A m \in Messages : Held(m) \in Nat
  BY ViewTypes, HandsHold DEF Inductive, RabbitTypeOK
<1>1. UNCHANGED ended /\ \A m \in Messages : Held(m)' = Held(m)
  BY ProducerLeavesHands DEF Held
<1>2. ASSUME NEW n \in Messages, Enqueue(n) PROVE Waiting' = [Waiting EXCEPT ![n] = @ + 1]
  <2>1. queue[n] + 1 + Held(n) = (queue[n] + Held(n)) + 1
    BY <1>t
  <2>2. \A m \in Messages : queue'[m] = IF m = n THEN queue[m] + 1 ELSE queue[m]
    BY <1>2, <1>t DEF Enqueue
  <2> HIDE DEF Held
  <2> QED BY <1>1, <2>1, <2>2 DEF Waiting
<1>3. UNCHANGED queue => UNCHANGED Waiting
  BY <1>1 DEF Waiting
<1>4. UNCHANGED sent => UNCHANGED Sent
  BY DEF Sent
<1>5. ASSUME Publishing
      PROVE  /\ producer.message \in Messages /\ producer.message \in sent
             /\ Waiting[producer.message] + ended[producer.message] <= faults
  <2>1. PICK n \in Messages : n = producer.message
    BY <1>5, <1>t DEF Publishing, Inductive, Sending, Producer
  <2>2. n \in sent /\ queue[n] + Cardinality(InHand(n)) + ended[n] <= faults
    BY <2>1, NobodyAssumption DEF Inductive, Sending, Paid, Copies
  <2>3. Held(n) \in Nat /\ Held(n) <= Cardinality(InHand(n)) /\ Cardinality(InHand(n)) \in Nat
    BY HandsHold, HandsAreFinite DEF Inductive
  <2>4. Waiting[n] + ended[n] <= faults
    BY <1>t, <2>2, <2>3
  <2> QED BY <2>1, <2>2, <2>4
<1>6. CASE \E m \in Messages : Send(m)
  <2>1. PICK m \in Messages : Send(m)
    BY <1>6
  <2>2. Sent' = [Sent EXCEPT ![m] = @ + 1]
    <3>1. m \notin sent /\ sent' = sent \cup {m}
      BY <2>1 DEF Send
    <3>2. /\ Sent' = [n \in Messages |-> IF n \in sent' THEN 1 ELSE 0]
          /\ Sent[m] + 1 = 1
      BY <3>1 DEF Sent
    <3>3. \A n \in Messages : Sent'[n] = IF n = m THEN Sent[m] + 1 ELSE Sent[n]
      BY <1>t, <3>1, <3>2
    <3> QED BY <1>t, <3>2, <3>3 DEF Sent
  <2>3. UNCHANGED <<Waiting, ended, faults>>
    BY <1>1, <1>3, <2>1 DEF Send
  <2>4. Broker!Send(m)
    BY <2>2, <2>3 DEF Broker!Send, Sent, Waiting
  <2> QED BY <2>4 DEF Broker!Next
<1>7. CASE Publish
  <2>1. PICK n \in Messages : n = producer.message
    BY <1>5, <1>7 DEF Publish
  <2>2. Enqueue(n) /\ UNCHANGED <<sent, faults>> /\ n \in sent /\ Waiting[n] + ended[n] <= faults
    BY <1>5, <1>7, <2>1 DEF Publish
  <2>3. Sent[n] = 1 /\ Waiting[n] + ended[n] < 1 + faults
    BY <1>t, <2>2
  <2>4. Sent[n] > 0 /\ Waiting[n] + ended[n] < Sent[n] + faults
    BY <2>3
  <2>5. Broker!Publish(n)
    BY <1>1, <1>2, <1>4, <2>2, <2>4
       DEF Broker!Publish, Broker!Paid, Broker!Arrives, Sent, Waiting
  <2> QED BY <2>5 DEF Broker!Next
<1>8. CASE PublishBreaks
  <2>1. PICK n \in Messages : n = producer.message
    BY <1>5, <1>8 DEF PublishBreaks
  <2>2. faults' = faults + 1 /\ UNCHANGED sent /\ (Enqueue(n) \/ UNCHANGED queue)
    BY <1>8, <2>1 DEF PublishBreaks, Fault
  <2>3. n \in sent
    BY <1>5, <1>8, <2>1 DEF PublishBreaks
  <2>4. Sent[n] > 0
    BY <1>t, <2>3
  <2>5. UNCHANGED Waiting \/ Waiting' = [Waiting EXCEPT ![n] = @ + 1]
    BY <1>2, <1>3, <2>2
  <2>6. Broker!Breaks
    BY <1>1, <1>4, <2>2, <2>4, <2>5 DEF Broker!Breaks, Broker!Arrives, Sent, Waiting
  <2> QED BY <2>6 DEF Broker!Next
<1>9. CASE PublishVanishes \/ RedialFails \/ ProducerBreaks
  <2>1. faults' = faults + 1 /\ UNCHANGED <<queue, sent>>
    BY <1>9 DEF PublishVanishes, RedialFails, ProducerBreaks, Fault
  <2>2. Broker!Breaks
    BY <1>1, <1>3, <1>4, <2>1 DEF Broker!Breaks, Sent, Waiting
  <2> QED BY <2>2 DEF Broker!Next
<1>10. CASE PublishDown \/ Redial
  BY <1>1, <1>3, <1>4, <1>10 DEF PublishDown, Redial, brokerView
<1> QED BY <1>6, <1>7, <1>8, <1>9, <1>10 DEF ProducerStep, Produces, ProducerFails

-----------------------------------------------------------------------------
(* The channels of mode all *)

At(channel, message) == {i \in 1 .. Len(channel) : channel[i] = message}

LEMMA Counts ==
  ASSUME NEW S, NEW channel \in Seq(S), NEW message
  PROVE  /\ IsFiniteSet(At(channel, message))
         /\ Count(channel, message) = Cardinality(At(channel, message))
         /\ Count(channel, message) \in Nat
<1>1. IsFiniteSet(1 .. Len(channel))
  BY FS_Interval
<1>2. At(channel, message) \subseteq 1 .. Len(channel)
  BY DEF At
<1> QED BY <1>1, <1>2, FS_Subset, FS_CardinalityType DEF At, Count

\* A message that is sent is counted once more.
LEMMA AppendCounts ==
  ASSUME NEW S, NEW channel \in Seq(S), NEW sending \in S, NEW message
  PROVE  Count(Append(channel, sending), message) =
           Count(channel, message) + IF sending = message THEN 1 ELSE 0
<1> DEFINE longer == Append(channel, sending)
<1>1. /\ longer \in Seq(S) /\ Len(longer) = Len(channel) + 1 /\ longer[Len(channel) + 1] = sending
      /\ \A i \in 1 .. Len(channel) : longer[i] = channel[i]
  OBVIOUS
<1>2. Len(channel) + 1 \notin At(channel, message)
  BY DEF At
<1> HIDE DEF longer
<1>c. /\ Count(longer, message) = Cardinality(At(longer, message))
      /\ Count(channel, message) = Cardinality(At(channel, message))
      /\ IsFiniteSet(At(channel, message)) /\ Count(channel, message) \in Nat
  BY <1>1, Counts
<1>3. CASE sending = message
  <2>1. At(longer, message) = At(channel, message) \cup {Len(channel) + 1}
    BY <1>1, <1>3 DEF At
  <2>2. Cardinality(At(longer, message)) = Cardinality(At(channel, message)) + 1
    BY <1>2, <1>c, <2>1, FS_AddElement
  <2> QED BY <1>3, <1>c, <2>2 DEF longer
<1>4. CASE sending # message
  <2>1. At(longer, message) = At(channel, message)
    BY <1>1, <1>4 DEF At
  <2> QED BY <1>4, <1>c, <2>1 DEF longer
<1> QED BY <1>3, <1>4

\* A message that is taken is counted once less: the others move up by one place.
LEMMA TailCounts ==
  ASSUME NEW S, NEW channel \in Seq(S), channel # <<>>, NEW message
  PROVE  Count(channel, message) =
           Count(Tail(channel), message) + IF Head(channel) = message THEN 1 ELSE 0
<1> DEFINE shorter == Tail(channel)
           Moved == {i + 1 : i \in At(shorter, message)}
           up == [i \in At(shorter, message) |-> i + 1]
<1>1. /\ shorter \in Seq(S) /\ Len(channel) = Len(shorter) + 1 /\ Len(shorter) \in Nat
      /\ Head(channel) = channel[1]
      /\ \A i \in 1 .. Len(shorter) : shorter[i] = channel[i + 1]
  OBVIOUS
<1> HIDE DEF shorter
<1>2. IsFiniteSet(Moved) /\ Cardinality(Moved) = Cardinality(At(shorter, message))
  <2>1. up \in Bijection(At(shorter, message), Moved)
    <3>1. At(shorter, message) \subseteq Nat
      BY DEF At
    <3> QED BY <3>1 DEF Bijection, Injection, Surjection, IsInjective
  <2>2. ExistsBijection(At(shorter, message), Moved)
    BY <2>1 DEF ExistsBijection
  <2>3. IsFiniteSet(At(shorter, message))
    BY <1>1, Counts
  <2> QED BY <2>2, <2>3, FS_Bijection
<1>3. 1 \notin Moved
  BY DEF At
<1>4. ASSUME NEW i \in 1 .. Len(channel), channel[i] = message, i # 1 PROVE i \in Moved
  <2>1. i - 1 \in At(shorter, message) /\ i = (i - 1) + 1
    BY <1>1, <1>4 DEF At
  <2> QED BY <2>1
<1>5. Moved \subseteq At(channel, message)
  BY <1>1 DEF At
<1>c. /\ Count(shorter, message) = Cardinality(At(shorter, message))
      /\ Count(channel, message) = Cardinality(At(channel, message))
      /\ Count(shorter, message) \in Nat
  BY <1>1, Counts
<1> HIDE DEF Moved
<1>6. CASE Head(channel) = message
  <2>1. At(channel, message) = Moved \cup {1}
    <3>1. 1 \in At(channel, message)
      BY <1>1, <1>6 DEF At
    <3>2. \A i \in At(channel, message) : i = 1 \/ i \in Moved
      BY <1>4 DEF At
    <3> QED BY <1>5, <3>1, <3>2
  <2>2. Cardinality(At(channel, message)) = Cardinality(Moved) + 1
    BY <1>2, <1>3, <2>1, FS_AddElement
  <2> QED BY <1>2, <1>6, <1>c, <2>2 DEF shorter
<1>7. CASE Head(channel) # message
  <2>1. At(channel, message) = Moved
    BY <1>1, <1>4, <1>5, <1>7 DEF At
  <2> QED BY <1>2, <1>7, <1>c, <2>1 DEF shorter
<1> QED BY <1>6, <1>7

LEMMA EmptyCounts == \A message : Count(<<>>, message) = 0
<1>1. \A message : At(<<>>, message) = {}
  BY DEF At
<1> QED BY <1>1, FS_EmptySet DEF Count, At

\* The types of the channels, without the bounds on what the checker has yet to send, on
\* what is parked and on what was forgone: these follow from where they came from.
ChannelTyped ==
  /\ events \in Seq(Event) /\ Len(events) <= BufSize
  /\ uploads \in 0 .. BufSize
  /\ commands \in Seq(Command) /\ Len(commands) <= BufSize
  /\ busy \in [Workers -> Nat]
  /\ busy["processor"] <= 1 /\ busy["uploader"] <= 2 /\ busy["commander"] <= 1
  /\ parked \in Nat /\ forgone \in Nat
  /\ closed \subseteq Consumes /\ stopped \in BOOLEAN
  /\ posted \in [Message -> Nat] /\ handled \in [Message -> Nat] /\ lost \in [Message -> Nat]
  /\ Finished <= MaxFinished /\ Issued <= MaxCommands

ChannelInductive == ChannelTyped /\ MessagesKept /\ UploadsFollow /\ LostAtTheEnd

LEMMA KindsOf ==
  /\ Message = {"note", "downloaded", "transcoded", "mine", "other", "upload"}
  /\ Workers = {"processor", "uploader", "commander", "checker"}
BY DEF Message, Event, Command, Workers, Consumes

\* What the program holds of each message, before and after a step.
LEMMA MemoryIs ==
  /\ InMemory = [m \in Message |-> InMemory[m]]
  /\ \A e \in Event : InMemory[e] = Count(events, e)
  /\ InMemory["upload"] = uploads
  /\ InMemory["mine"] = Count(commands, "mine")
  /\ InMemory["other"] = Count(commands, "other") + parked
<1> HIDE DEF Count
<1> QED BY DEF InMemory, Message, Event, Command

LEMMA MemoryWillBe ==
  /\ InMemory' = [m \in Message |-> InMemory'[m]]
  /\ \A e \in Event : InMemory'[e] = Count(events', e)
  /\ InMemory'["upload"] = uploads'
  /\ InMemory'["mine"] = Count(commands', "mine")
  /\ InMemory'["other"] = Count(commands', "other") + parked'
<1> HIDE DEF Count
<1> QED BY DEF InMemory, Message, Event, Command

LEMMA ChannelNumbers ==
  ASSUME ChannelTyped
  PROVE  /\ BufSize \in Nat \ {0} /\ Files \in Nat \ {0}
         /\ MaxFinished \in Nat /\ MaxCommands \in Nat
         /\ busy["processor"] \in Nat /\ busy["checker"] \in Nat
         /\ busy["uploader"] \in Nat /\ busy["commander"] \in Nat
         /\ uploads \in Nat /\ parked \in Nat /\ forgone \in Nat
         /\ \A m \in Message : posted[m] \in Nat /\ handled[m] \in Nat /\ lost[m] \in Nat
         /\ InMemory \in [Message -> Nat]
<1>1. \A m : Count(events, m) \in Nat /\ Count(commands, m) \in Nat
  BY Counts DEF ChannelTyped
<1>2. uploads \in Nat /\ parked \in Nat
  BY MemoryQueueAssumption DEF ChannelTyped
<1>3. \A m \in Message : InMemory[m] \in Nat
  <2> HIDE DEF Count
  <2> QED BY <1>1, <1>2, KindsOf, MemoryIs DEF Event
<1> QED BY <1>2, <1>3, KindsOf, MemoryIs, MemoryQueueAssumption DEF ChannelTyped

LEMMA NumbersThen ==
  ASSUME ChannelTyped'
  PROVE  InMemory' \in [Message -> Nat]
<1>1. \A m : Count(events', m) \in Nat /\ Count(commands', m) \in Nat
  BY Counts DEF ChannelTyped
<1>2. uploads' \in Nat /\ parked' \in Nat
  BY MemoryQueueAssumption DEF ChannelTyped
<1>3. \A m \in Message : InMemory'[m] \in Nat
  <2> HIDE DEF Count
  <2> QED BY <1>1, <1>2, KindsOf, MemoryWillBe DEF Event
<1> QED BY <1>3, MemoryWillBe

\* One more of one message, and one less.
LEMMA OneMore ==
  ASSUME NEW f \in [Message -> Nat], NEW g \in [Message -> Nat], NEW m \in Message,
         \A l \in Message : g[l] = f[l] + IF l = m THEN 1 ELSE 0
  PROVE  /\ g = [f EXCEPT ![m] = @ + 1]
         /\ f = [g EXCEPT ![m] = @ - 1] /\ g[m] > 0
<1>1. g[m] = f[m] + 1 /\ f[m] = g[m] - 1 /\ g[m] > 0
  OBVIOUS
<1>2. \A l \in Message \ {m} : g[l] = f[l]
  OBVIOUS
<1> QED BY <1>1, <1>2

\* The product that UploadsFollow is about, when one more of either event was handled.
LEMMA Products ==
  ASSUME NEW k \in Nat, NEW n \in Nat
  PROVE  k * (n + 1) = k * n + k /\ k * n \in Nat
OBVIOUS

LEMMA Bounds ==
  ASSUME NEW k \in Nat \ {0}, NEW a \in Nat, NEW b \in Nat, NEW max \in Nat, a + b <= max
  PROVE  k * a + b <= k * max
<1>1. PICK c \in Nat : max = a + b + c
  <2>1. max - (a + b) \in Nat /\ max = a + b + (max - (a + b))
    OBVIOUS
  <2> QED BY <2>1
<1>2. PICK j \in Nat : k = j + 1
  <2>1. k - 1 \in Nat /\ k = (k - 1) + 1
    OBVIOUS
  <2> QED BY <2>1
<1>3. k * max = k * a + k * b + k * c
  BY <1>1
<1>4. k * b = j * b + b /\ j * b \in Nat /\ k * c \in Nat /\ k * a \in Nat
  BY <1>2
<1> QED BY <1>3, <1>4

LEMMA ChannelTypes == ChannelInductive => MemoryTypeOK
<1> SUFFICES ASSUME ChannelInductive PROVE MemoryTypeOK
  OBVIOUS
<1> USE DEF ChannelInductive
<1>1. /\ Files \in Nat \ {0} /\ MaxFinished \in Nat /\ MaxCommands \in Nat
      /\ busy["processor"] \in Nat /\ busy["checker"] \in Nat
      /\ parked \in Nat /\ forgone \in Nat
      /\ \A m \in Message : posted[m] \in Nat /\ handled[m] \in Nat /\ lost[m] \in Nat
      /\ InMemory \in [Message -> Nat]
  BY ChannelNumbers
<1>2. \A m \in Message : handled[m] <= posted[m] /\ InMemory[m] <= posted[m]
  BY <1>1 DEF MessagesKept
<1>3. handled["downloaded"] + handled["transcoded"] <= MaxFinished
  <2>1. \A m \in {"downloaded", "transcoded"} :
          handled[m] \in Nat /\ posted[m] \in Nat /\ handled[m] <= posted[m]
    BY <1>1, <1>2, KindsOf
  <2>2. posted["downloaded"] + posted["transcoded"] <= MaxFinished
    BY DEF ChannelTyped, Finished
  <2> QED BY <1>1, <2>1, <2>2
<1>4. Files * handled["downloaded"] + handled["transcoded"] <= Files * MaxFinished
  BY <1>1, <1>3, KindsOf, Bounds
<1>5. /\ busy["checker"] <= Files * MaxFinished /\ forgone <= Files * MaxFinished
      /\ Files * MaxFinished \in Nat
  <2>1. Files * handled["downloaded"] \in Nat /\ Files * MaxFinished \in Nat
    BY <1>1, KindsOf
  <2> QED BY <1>1, <1>4, <2>1, KindsOf DEF UploadsFollow
<1>6. parked <= MaxCommands
  <2>1. Count(commands, "other") \in Nat
    BY Counts DEF ChannelTyped
  <2>2. parked <= InMemory["other"]
    <3> HIDE DEF Count
    <3> QED BY <1>1, <2>1, MemoryIs
  <2>3. posted["other"] <= MaxCommands
    <3>1. posted["mine"] \in Nat /\ posted["other"] \in Nat
      BY <1>1, KindsOf
    <3>2. posted["mine"] + posted["other"] <= MaxCommands
      BY DEF ChannelTyped, Issued
    <3> QED BY <1>1, <3>1, <3>2
  <2> QED BY <1>1, <1>2, <2>2, <2>3, KindsOf
<1> QED BY <1>1, <1>5, <1>6 DEF ChannelTyped, MemoryTypeOK

\* What a step may do to a message: Send takes it, a handler gets it, or it stays; and when
\* the channels are shut it may be lost.
Shut == closed # {} \/ stopped

Taken ==
  /\ UNCHANGED <<handled, lost, closed, stopped>>
  /\ \E m \in Message : /\ posted' = [posted EXCEPT ![m] = @ + 1]
                        /\ InMemory' = [InMemory EXCEPT ![m] = @ + 1]

Given ==
  /\ UNCHANGED <<posted, lost, closed, stopped>>
  /\ \E m \in Message : /\ InMemory[m] > 0
                        /\ handled' = [handled EXCEPT ![m] = @ + 1]
                        /\ InMemory' = [InMemory EXCEPT ![m] = @ - 1]

Stays == /\ UNCHANGED <<posted, handled, lost, InMemory, stopped>>
         /\ closed \subseteq closed'

Goes ==
  /\ UNCHANGED <<posted, handled>>
  /\ Shut' /\ closed \subseteq closed'
  /\ \A m \in Message : /\ lost'[m] + InMemory'[m] = lost[m] + InMemory[m]
                        /\ InMemory'[m] <= InMemory[m]
  /\ ~ stopped' => \A m \in Message : lost'[m] # lost[m] => m = "other" /\ "commander" \in closed

Books == Taken \/ Given \/ Stays \/ Goes

LEMMA BooksBalance ==
  ASSUME ChannelInductive, ChannelTyped', Books
  PROVE  MessagesKept'
<1> USE DEF ChannelInductive
<1>1. /\ \A m \in Message : posted[m] \in Nat /\ handled[m] \in Nat /\ lost[m] \in Nat
      /\ \A m \in Message : InMemory[m] \in Nat /\ posted[m] = handled[m] + InMemory[m] + lost[m]
      /\ posted \in [Message -> Nat] /\ handled \in [Message -> Nat] /\ InMemory \in [Message -> Nat]
  BY ChannelNumbers DEF MessagesKept, ChannelTyped
<1>2. \A m \in Message : lost'[m] \in Nat /\ InMemory'[m] \in Nat
  BY NumbersThen DEF ChannelTyped
<1>3. CASE Taken
  BY <1>1, <1>3 DEF Taken, MessagesKept
<1>4. CASE Given
  BY <1>1, <1>4 DEF Given, MessagesKept
<1>5. CASE Stays
  BY <1>1, <1>5 DEF Stays, MessagesKept
<1>6. CASE Goes
  <2>1. ASSUME NEW m \in Message PROVE posted'[m] = handled'[m] + InMemory'[m] + lost'[m]
    <3>1. /\ posted'[m] = posted[m] /\ handled'[m] = handled[m]
          /\ lost'[m] + InMemory'[m] = lost[m] + InMemory[m]
      BY <1>6 DEF Goes
    <3>2. /\ handled[m] \in Nat /\ lost[m] \in Nat /\ InMemory[m] \in Nat
          /\ lost'[m] \in Nat /\ InMemory'[m] \in Nat
          /\ posted[m] = handled[m] + InMemory[m] + lost[m]
      BY <1>1, <1>2
    <3> QED BY <3>1, <3>2
  <2> QED BY <2>1 DEF MessagesKept
<1> QED BY <1>3, <1>4, <1>5, <1>6 DEF Books

\* The messages that a step moves, from the channels that it changes.
LEMMA EventSent ==
  ASSUME ChannelTyped, ChannelTyped', NEW event \in Event, Emit(event),
         UNCHANGED <<uploads, commands, parked, closed, stopped, handled, lost>>
  PROVE  Taken
<1>1. \A e \in Event : Count(events', e) = Count(events, e) + IF event = e THEN 1 ELSE 0
  BY AppendCounts DEF Emit, ChannelTyped
<1>2. /\ InMemory \in [Message -> Nat] /\ InMemory' \in [Message -> Nat] /\ event \in Message
  BY ChannelNumbers, NumbersThen DEF Message
<1>3. \A l \in Message : InMemory'[l] = InMemory[l] + IF l = event THEN 1 ELSE 0
  <2> HIDE DEF Count
  <2> QED BY <1>1, <1>2, KindsOf, MemoryIs, MemoryWillBe DEF Event
<1>4. InMemory' = [InMemory EXCEPT ![event] = @ + 1]
  BY <1>2, <1>3, OneMore
<1> QED BY <1>2, <1>4 DEF Taken, Emit, Posts

LEMMA EventGiven ==
  ASSUME ChannelTyped, ChannelTyped', TakeEvent
  PROVE  Given
<1>1. /\ \A e \in Event : Count(events, e) = Count(events', e) + IF Head(events) = e THEN 1 ELSE 0
      /\ Head(events) \in Event
  BY TailCounts DEF TakeEvent, CanTakeEvent, ChannelTyped
<1>2. /\ InMemory \in [Message -> Nat] /\ InMemory' \in [Message -> Nat] /\ Head(events) \in Message
  BY <1>1, ChannelNumbers, NumbersThen DEF Message
<1>3. \A l \in Message : InMemory[l] = InMemory'[l] + IF l = Head(events) THEN 1 ELSE 0
  <2> HIDE DEF Count
  <2>1. UNCHANGED <<uploads, commands, parked>>
    BY DEF TakeEvent
  <2> QED BY <1>1, <1>2, <2>1, KindsOf, MemoryIs, MemoryWillBe DEF Event
<1>4. InMemory' = [InMemory EXCEPT ![Head(events)] = @ - 1] /\ InMemory[Head(events)] > 0
  BY <1>2, <1>3, OneMore
<1> QED BY <1>2, <1>4 DEF Given, TakeEvent, Handles

LEMMA UploadsMove ==
  ASSUME ChannelTyped, ChannelTyped'
  PROVE  /\ (\E w \in Workers : QueueUpload(w)) => Taken
         /\ TakeUpload => Given
<1>1. /\ InMemory \in [Message -> Nat] /\ InMemory' \in [Message -> Nat] /\ "upload" \in Message
      /\ uploads \in Nat
  BY ChannelNumbers, NumbersThen, KindsOf
<1>2. UNCHANGED <<events, commands, parked>> =>
        \A l \in Message \ {"upload"} : InMemory'[l] = InMemory[l]
  <2> HIDE DEF Count
  <2> QED BY KindsOf, MemoryIs, MemoryWillBe DEF Event
<1>3. ASSUME NEW w \in Workers, QueueUpload(w) PROVE Taken
  <2>1. \A l \in Message : InMemory'[l] = InMemory[l] + IF l = "upload" THEN 1 ELSE 0
    BY <1>1, <1>2, <1>3, MemoryIs, MemoryWillBe DEF QueueUpload
  <2>2. InMemory' = [InMemory EXCEPT !["upload"] = @ + 1]
    BY <1>1, <2>1, OneMore
  <2> QED BY <1>1, <1>3, <2>2 DEF Taken, QueueUpload, Posts
<1>4. ASSUME TakeUpload PROVE Given
  <2>1. \A l \in Message : InMemory[l] = InMemory'[l] + IF l = "upload" THEN 1 ELSE 0
    BY <1>1, <1>2, <1>4, MemoryIs, MemoryWillBe DEF TakeUpload
  <2>2. InMemory' = [InMemory EXCEPT !["upload"] = @ - 1] /\ InMemory["upload"] > 0
    BY <1>1, <2>1, OneMore
  <2> QED BY <1>1, <1>4, <2>2 DEF Given, TakeUpload, Handles
<1> QED BY <1>3, <1>4

LEMMA CommandsMove ==
  ASSUME ChannelTyped, ChannelTyped'
  PROVE  /\ (\E k \in Command : Request(k)) => Taken
         /\ Execute => Given
         /\ Park \/ PutBack => Stays
<1>1. /\ InMemory \in [Message -> Nat] /\ InMemory' \in [Message -> Nat] /\ Command \subseteq Message
      /\ parked \in Nat
  BY ChannelNumbers, NumbersThen DEF Message
<1>2. ASSUME NEW k \in Command, commands' = Append(commands, k)
      PROVE  \A l \in Command : Count(commands', l) = Count(commands, l) + IF k = l THEN 1 ELSE 0
  BY <1>2, AppendCounts DEF ChannelTyped
<1>3. ASSUME NEW k \in Command, Takes(k)
      PROVE  \A l \in Command : Count(commands, l) = Count(commands', l) + IF k = l THEN 1 ELSE 0
  BY <1>3, TailCounts DEF ChannelTyped, Takes, CanTake
<1>4. UNCHANGED <<events, uploads>> =>
        \A l \in Message \ Command : InMemory'[l] = InMemory[l]
  <2> HIDE DEF Count
  <2> QED BY KindsOf, MemoryIs, MemoryWillBe DEF Event, Command
<1>c. \A l \in Command : Count(commands, l) \in Nat /\ Count(commands', l) \in Nat
  BY Counts DEF ChannelTyped
<1> HIDE DEF Count
<1>5. ASSUME NEW k \in Command, Request(k) PROVE Taken
  <2>1. \A l \in Message : InMemory'[l] = InMemory[l] + IF l = k THEN 1 ELSE 0
    <3>1. UNCHANGED <<events, uploads, parked>>
      BY <1>5 DEF Request
    <3>2. \A l \in Command : Count(commands', l) = Count(commands, l) + IF k = l THEN 1 ELSE 0
      BY <1>2, <1>5 DEF Request
    <3>3. \A l \in Command : InMemory'[l] = InMemory[l] + IF l = k THEN 1 ELSE 0
      BY <1>1, <1>c, <3>1, <3>2, MemoryIs, MemoryWillBe DEF Command
    <3> QED BY <1>1, <1>4, <3>1, <3>3
  <2>2. InMemory' = [InMemory EXCEPT ![k] = @ + 1]
    BY <1>1, <2>1, OneMore
  <2> QED BY <1>1, <1>5, <2>2 DEF Taken, Request, Posts
<1>6. ASSUME Execute PROVE Given
  <2>1. \A l \in Message : InMemory[l] = InMemory'[l] + IF l = "mine" THEN 1 ELSE 0
    <3>1. UNCHANGED <<events, uploads, parked>>
      BY <1>6 DEF Execute
    <3>2. "mine" \in Command /\ Takes("mine")
      BY <1>6 DEF Execute, Command
    <3>3. \A l \in Command : Count(commands, l) = Count(commands', l) + IF "mine" = l THEN 1 ELSE 0
      BY <1>3, <3>2
    <3>4. \A l \in Command : InMemory[l] = InMemory'[l] + IF l = "mine" THEN 1 ELSE 0
      BY <1>1, <1>c, <3>1, <3>3, MemoryIs, MemoryWillBe DEF Command
    <3> QED BY <1>1, <1>4, <3>1, <3>2, <3>4
  <2>2. InMemory' = [InMemory EXCEPT !["mine"] = @ - 1] /\ InMemory["mine"] > 0
    BY <1>1, <2>1, OneMore, KindsOf
  <2> QED BY <1>1, <1>6, <2>2, KindsOf DEF Given, Execute, Handles
<1>7. ASSUME Park \/ PutBack PROVE Stays
  <2>1. \A l \in Command : InMemory'[l] = InMemory[l]
    <3>1. CASE Park
      BY <1>1, <1>3, <1>c, <3>1, MemoryIs, MemoryWillBe DEF Park, Command
    <3>2. CASE PutBack
      BY <1>1, <1>2, <1>c, <3>2, MemoryIs, MemoryWillBe DEF PutBack, CanPutBack, Command
    <3> QED BY <1>7, <3>1, <3>2
  <2>2. UNCHANGED <<events, uploads>>
    BY <1>7 DEF Park, PutBack
  <2>3. InMemory' = InMemory
    BY <1>1, <1>4, <2>1, <2>2
  <2> QED BY <1>7, <2>3 DEF Stays, Park, PutBack, history
<1> QED BY <1>5, <1>6, <1>7

LEMMA EndsMove ==
  ASSUME ChannelTyped, ChannelTyped', Ends
  PROVE  Stays \/ Goes
<1>1. /\ InMemory \in [Message -> Nat] /\ InMemory' \in [Message -> Nat] /\ "other" \in Message
      /\ parked \in Nat /\ lost \in [Message -> Nat]
  BY ChannelNumbers, NumbersThen, KindsOf DEF ChannelTyped
<1>2. ASSUME NEW w \in Consumes, Close(w) \/ GiveUp(w) PROVE Stays
  <2>1. UNCHANGED <<events, uploads, commands, parked, stopped, posted, handled, lost>>
        /\ closed \subseteq closed'
    BY <1>2 DEF Close, GiveUp, channels, history
  <2>2. \A l \in Message : InMemory'[l] = InMemory[l]
    <3> HIDE DEF Count
    <3> QED BY <2>1, KindsOf, MemoryIs, MemoryWillBe DEF Event
  <2> QED BY <1>1, <2>1, <2>2 DEF Stays
<1>3. ASSUME Discard PROVE Goes
  <2>1. /\ UNCHANGED <<events, uploads, commands, closed, stopped, posted, handled>>
        /\ parked' = parked - 1 /\ parked > 0
        /\ lost' = [lost EXCEPT !["other"] = @ + 1]
        /\ "commander" \in closed
    BY <1>3 DEF Discard, channels
  <2>2. \A l \in Message \ {"other"} : InMemory'[l] = InMemory[l] /\ lost'[l] = lost[l]
    <3> HIDE DEF Count
    <3> QED BY <1>1, <2>1, KindsOf, MemoryIs, MemoryWillBe DEF Event
  <2>3. Count(commands, "other") \in Nat
    BY Counts DEF ChannelTyped
  <2>4. InMemory'["other"] = InMemory["other"] - 1 /\ lost'["other"] = lost["other"] + 1
    <3> HIDE DEF Count
    <3> QED BY <1>1, <2>1, <2>3, MemoryIs, MemoryWillBe
  <2>5. \A m \in Message : /\ lost'[m] + InMemory'[m] = lost[m] + InMemory[m]
                           /\ InMemory'[m] <= InMemory[m]
    <3>1. lost["other"] \in Nat /\ InMemory["other"] \in Nat
      BY <1>1
    <3>2. \A m \in Message : InMemory[m] \in Nat
      BY <1>1
    <3> QED BY <2>2, <2>4, <3>1, <3>2
  <2> QED BY <2>1, <2>2, <2>5 DEF Goes, Shut
<1>4. ASSUME Stop PROVE Goes
  <2>1. /\ UNCHANGED <<closed, posted, handled>> /\ stopped' = TRUE
        /\ events' = <<>> /\ uploads' = 0 /\ commands' = <<>> /\ parked' = 0
        /\ \A m \in Message : lost'[m] = lost[m] + InMemory[m]
    BY <1>4 DEF Stop
  <2>2. \A m \in Message : InMemory'[m] = 0
    <3> HIDE DEF Count
    <3> QED BY <2>1, EmptyCounts, KindsOf, MemoryWillBe DEF Event
  <2>3. \A m \in Message : /\ lost'[m] + InMemory'[m] = lost[m] + InMemory[m]
                           /\ InMemory'[m] <= InMemory[m]
    <3>1. \A m \in Message : InMemory[m] \in Nat /\ lost[m] \in Nat
      BY <1>1
    <3> QED BY <2>1, <2>2, <3>1
  <2> QED BY <2>1, <2>3 DEF Goes, Shut
<1> QED BY <1>2, <1>3, <1>4 DEF Ends

\* Every step keeps the books.
LEMMA EveryStepBooks ==
  ASSUME ChannelTyped, ChannelTyped', MemoryNext
  PROVE  Books
<1>1. CASE Notes \/ (\E event \in Event : Finishes(event)) \/ \E w \in Workers : Answer(w)
  BY <1>1, EventSent DEF Notes, Finishes, Answer, Event, Books
<1>2. CASE (\E k \in Command : Request(k)) \/ Execute \/ Park \/ PutBack
  BY <1>2, CommandsMove DEF Books
<1>3. CASE TakeEvent \/ TakeUpload \/ \E w \in Workers : QueueUpload(w)
  BY <1>3, EventGiven, UploadsMove DEF Books
<1>4. CASE Ends
  BY <1>4, EndsMove DEF Books
<1> QED BY <1>1, <1>2, <1>3, <1>4 DEF MemoryNext, Progress, Consume

-----------------------------------------------------------------------------
(* The other parts of the invariant *)

\* A worker that has n things to send now.
LEMMA BusyChanges ==
  ASSUME ChannelTyped, NEW w \in Workers, NEW n \in Nat, busy' = [busy EXCEPT ![w] = n]
  PROVE  /\ busy' \in [Workers -> Nat] /\ busy'[w] = n
         /\ \A v \in Workers \ {w} : busy'[v] = busy[v]
BY DEF ChannelTyped

LEMMA NothingPosted ==
  ASSUME ChannelTyped, UNCHANGED posted
  PROVE  Finished' <= MaxFinished /\ Issued' <= MaxCommands
BY DEF ChannelTyped, Finished, Issued

\* What is sent first, what was called for, and what was given up.
LEMMA SendersHold ==
  ASSUME ChannelInductive,
         Notes \/ (\E event \in Event : Finishes(event)) \/ \E k \in Command : Request(k)
  PROVE  (ChannelTyped /\ UploadsFollow /\ LostAtTheEnd)'
<1> USE DEF ChannelInductive
<1>n. /\ \A m \in Message : posted[m] \in Nat
      /\ posted["downloaded"] \in Nat /\ posted["transcoded"] \in Nat
      /\ posted["mine"] \in Nat /\ posted["other"] \in Nat
      /\ posted \in [Message -> Nat] /\ MaxFinished \in Nat /\ MaxCommands \in Nat
      /\ BufSize \in Nat
  BY ChannelNumbers, KindsOf DEF ChannelTyped
<1>1. PICK m \in Message \ {"upload"} : /\ Posts(m)
                                     /\ (m \in {"downloaded", "transcoded"} => Finished < MaxFinished)
                                     /\ (m \in Command => Issued < MaxCommands)
  BY KindsOf DEF Notes, Finishes, Request, Emit, Event, Command
<1>2. UNCHANGED <<uploads, busy, parked, closed, stopped, handled, lost, forgone>>
  BY DEF Notes, Finishes, Request
<1>3. /\ events' \in Seq(Event) /\ Len(events') <= BufSize
      /\ commands' \in Seq(Command) /\ Len(commands') <= BufSize
  <2>1. /\ events \in Seq(Event) /\ Len(events) <= BufSize
        /\ commands \in Seq(Command) /\ Len(commands) <= BufSize
    BY DEF ChannelTyped
  <2>2. CASE \E k \in Command : Request(k)
    <3>1. PICK k \in Command : Request(k)
      BY <2>2
    <3>2. commands' = Append(commands, k) /\ Len(commands) < BufSize /\ UNCHANGED events
      BY <3>1 DEF Request, RoomForCommand
    <3> QED BY <1>n, <2>1, <3>2
  <2>3. CASE Notes \/ \E event \in Event : Finishes(event)
    <3>1. PICK event \in Event : Emit(event) /\ UNCHANGED commands
      BY <2>3 DEF Notes, Finishes, Event
    <3>2. events' = Append(events, event) /\ Len(events) < BufSize
      BY <3>1 DEF Emit, RoomForEvent
    <3> QED BY <1>n, <2>1, <3>1, <3>2
  <2> QED BY <2>2, <2>3
<1>4. /\ posted' \in [Message -> Nat] /\ posted'["upload"] = posted["upload"]
      /\ \A l \in Message : posted'[l] = IF l = m THEN posted[l] + 1 ELSE posted[l]
  <2>1. posted[m] + 1 \in Nat /\ m # "upload" /\ "upload" \in Message
    BY <1>n, KindsOf
  <2>2. posted' = [posted EXCEPT ![m] = posted[m] + 1]
    BY <1>1, <1>n DEF Posts
  <2> QED BY <1>n, <2>1, <2>2
<1>5. Finished' <= MaxFinished /\ Issued' <= MaxCommands
  <2>0. /\ Finished = posted["downloaded"] + posted["transcoded"] /\ Finished <= MaxFinished
        /\ Issued = posted["mine"] + posted["other"] /\ Issued <= MaxCommands
        /\ Finished' = posted'["downloaded"] + posted'["transcoded"]
        /\ Issued' = posted'["mine"] + posted'["other"]
    BY DEF ChannelTyped, Finished, Issued
  <2>1. CASE m \in {"downloaded", "transcoded"}
    <3>1. Finished' = Finished + 1 /\ Issued' = Issued /\ Finished \in Nat
      BY <1>4, <1>n, <2>0, <2>1, KindsOf
    <3> QED BY <1>1, <1>n, <2>0, <2>1, <3>1
  <2>2. CASE m \in Command
    <3>1. Issued' = Issued + 1 /\ Finished' = Finished /\ Issued \in Nat
      BY <1>4, <1>n, <2>0, <2>2, KindsOf DEF Command
    <3> QED BY <1>1, <1>n, <2>0, <2>2, <3>1
  <2>3. CASE m = "note"
    <3>1. Issued' = Issued /\ Finished' = Finished
      BY <1>4, <1>n, <2>0, <2>3, KindsOf
    <3> QED BY <2>0, <3>1
  <2> QED BY <1>1, <2>1, <2>2, <2>3, KindsOf DEF Command
<1>6. ChannelTyped'
  BY <1>2, <1>3, <1>4, <1>5 DEF ChannelTyped
<1> QED BY <1>2, <1>4, <1>6 DEF UploadsFollow, LostAtTheEnd

\* An event that was handled calls for upload jobs.
LEMMA ProcessorHolds ==
  ASSUME ChannelInductive, TakeEvent
  PROVE  (ChannelTyped /\ UploadsFollow /\ LostAtTheEnd)'
<1> USE DEF ChannelInductive
<1>n. /\ Files \in Nat /\ busy["checker"] \in Nat /\ busy["processor"] = 0
      /\ \A m \in Message : handled[m] \in Nat
      /\ forgone \in Nat /\ posted["upload"] \in Nat
      /\ handled["downloaded"] \in Nat /\ handled["transcoded"] \in Nat
      /\ handled \in [Message -> Nat] /\ busy \in [Workers -> Nat]
      /\ UNCHANGED <<uploads, commands, parked, closed, stopped, posted, lost, forgone>>
  BY ChannelNumbers, KindsOf DEF ChannelTyped, TakeEvent, CanTakeEvent
<1>1. PICK e \in Event : e = Head(events)
  BY DEF TakeEvent, CanTakeEvent, ChannelTyped
<1>2. events' \in Seq(Event) /\ Len(events') <= BufSize
  BY MemoryQueueAssumption DEF TakeEvent, CanTakeEvent, ChannelTyped
<1>3. handled' \in [Message -> Nat]
      /\ \A m \in Message : handled'[m] = IF m = e THEN handled[m] + 1 ELSE handled[m]
  <2>1. e \in Message /\ handled[e] + 1 \in Nat
    BY <1>n DEF Message
  <2>2. handled' = [handled EXCEPT ![e] = handled[e] + 1]
    BY <1>1, <1>n DEF TakeEvent, Handles
  <2> QED BY <1>n, <2>1, <2>2
<1>4. PICK p \in {0, 1}, c \in Nat :
        /\ p = IF e = "transcoded" THEN 1 ELSE 0
        /\ c = IF e = "downloaded" THEN busy["checker"] + Files ELSE busy["checker"]
  <2>1. PICK p \in {0, 1} : p = IF e = "transcoded" THEN 1 ELSE 0
    OBVIOUS
  <2>2. PICK c \in Nat : c = IF e = "downloaded" THEN busy["checker"] + Files ELSE busy["checker"]
    BY <1>n
  <2> QED BY <2>1, <2>2
<1>5. /\ busy' \in [Workers -> Nat] /\ busy'["processor"] = p /\ busy'["checker"] = c
      /\ busy'["uploader"] = busy["uploader"] /\ busy'["commander"] = busy["commander"]
  <2>1. busy' = [busy EXCEPT !["processor"] = p, !["checker"] = c]
    BY <1>1, <1>4, <1>n DEF TakeEvent, Workers, Consumes
  <2> QED BY <1>n, <2>1 DEF Workers, Consumes
<1>6. ChannelTyped'
  <2>1. Finished' <= MaxFinished /\ Issued' <= MaxCommands
    BY <1>n, NothingPosted
  <2>2. busy'["processor"] <= 1 /\ busy'["uploader"] <= 2 /\ busy'["commander"] <= 1
    BY <1>4, <1>5 DEF ChannelTyped
  <2> QED BY <1>2, <1>3, <1>5, <1>n, <2>1, <2>2 DEF ChannelTyped
<1>7. UploadsFollow'
  <2>1. Files * handled["downloaded"] + handled["transcoded"]
          = posted["upload"] + busy["checker"] + forgone
    BY <1>n DEF UploadsFollow
  <2>2. CASE e = "downloaded"
    <3>1. /\ handled'["downloaded"] = handled["downloaded"] + 1
          /\ handled'["transcoded"] = handled["transcoded"]
      BY <1>3, <2>2, KindsOf
    <3>2. /\ Files * handled'["downloaded"] = Files * handled["downloaded"] + Files
          /\ Files * handled["downloaded"] \in Nat
      BY <1>n, <3>1, Products
    <3>3. p = 0 /\ c = busy["checker"] + Files
      BY <1>4, <2>2
    <3> QED BY <1>5, <1>n, <2>1, <3>1, <3>2, <3>3 DEF UploadsFollow
  <2>3. CASE e = "transcoded"
    <3>1. /\ handled'["downloaded"] = handled["downloaded"]
          /\ handled'["transcoded"] = handled["transcoded"] + 1
      BY <1>3, <2>3, KindsOf
    <3>2. p = 1 /\ c = busy["checker"]
      BY <1>4, <2>3
    <3>3. PICK x \in Nat : x = Files * handled["downloaded"]
      BY <1>n, Products
    <3>4. x = Files * handled'["downloaded"]
      BY <3>1, <3>3
    <3>5. x + handled["transcoded"] + 1 = posted["upload"] + 1 + busy["checker"] + forgone
      BY <1>n, <2>1, <3>3
    <3> QED BY <1>5, <1>n, <3>1, <3>2, <3>4, <3>5 DEF UploadsFollow
  <2>4. CASE e = "note"
    <3>1. /\ handled'["downloaded"] = handled["downloaded"]
          /\ handled'["transcoded"] = handled["transcoded"]
      BY <1>3, <2>4, KindsOf
    <3>2. p = 0 /\ c = busy["checker"] /\ Files * handled["downloaded"] \in Nat
      BY <1>4, <1>n, <2>4, Products
    <3> QED BY <1>5, <1>n, <2>1, <3>1, <3>2 DEF UploadsFollow
  <2> QED BY <2>2, <2>3, <2>4 DEF Event
<1> QED BY <1>6, <1>7, <1>n DEF LostAtTheEnd

\* An upload job that was to be sent is sent, or given up.
LEMMA UploadsHold ==
  ASSUME ChannelInductive, NEW w \in Workers, QueueUpload(w) \/ GiveUp(w)
  PROVE  (ChannelTyped /\ UploadsFollow /\ LostAtTheEnd)'
<1> USE DEF ChannelInductive
<1>n. /\ BufSize \in Nat /\ uploads \in Nat /\ forgone \in Nat
      /\ \A v \in Workers : busy[v] \in Nat
      /\ posted["upload"] \in Nat /\ posted \in [Message -> Nat] /\ "upload" \in Message
      /\ UNCHANGED <<events, commands, parked, closed, stopped, handled, lost>>
      /\ closed \subseteq Consumes /\ "processor" \in Workers /\ "checker" \in Workers
  BY ChannelNumbers, KindsOf DEF ChannelTyped, QueueUpload, GiveUp, channels
<1>1. busy[w] - 1 \in Nat /\ busy' = [busy EXCEPT ![w] = @ - 1]
  BY <1>n DEF QueueUpload, CanQueueUpload, GiveUp
<1>2. /\ busy' \in [Workers -> Nat] /\ busy'[w] = busy[w] - 1
      /\ \A v \in Workers \ {w} : busy'[v] = busy[v]
  BY <1>1, BusyChanges
<1>3. \A v \in Workers : busy'[v] \in Nat /\ busy'[v] <= busy[v]
  BY <1>1, <1>2, <1>n
<1>4. CASE QueueUpload(w)
  <2>1. /\ posted' \in [Message -> Nat] /\ posted'["upload"] = posted["upload"] + 1
        /\ \A m \in Message \ {"upload"} : posted'[m] = posted[m]
    <3>1. posted' = [posted EXCEPT !["upload"] = posted["upload"] + 1]
      BY <1>4 DEF QueueUpload, Posts
    <3> QED BY <1>n, <3>1
  <2>2. uploads' \in 0 .. BufSize /\ UNCHANGED forgone /\ w \in {"processor", "checker"}
    BY <1>4, <1>n DEF QueueUpload, CanQueueUpload, RoomForUpload
  <2>3. Finished' = Finished /\ Issued' = Issued
    BY <2>1, KindsOf DEF Finished, Issued
  <2>4. ChannelTyped'
    <3>1. busy'["processor"] <= 1 /\ busy'["uploader"] <= 2 /\ busy'["commander"] <= 1
      <4>1. \A v \in Consumes : busy'[v] \in Nat /\ busy[v] \in Nat /\ busy'[v] <= busy[v]
        BY <1>3, <1>n DEF Workers
      <4>2. /\ busy["processor"] <= 1 /\ busy["uploader"] <= 2 /\ busy["commander"] <= 1
        BY DEF ChannelTyped
      <4> QED BY <4>1, <4>2 DEF Consumes
    <3> QED BY <1>2, <1>n, <2>1, <2>2, <2>3, <3>1 DEF ChannelTyped
  <2>5. busy'["processor"] + busy'["checker"] + 1 = busy["processor"] + busy["checker"]
    BY <1>2, <1>n, <2>2
  <2>6. UploadsFollow'
    BY <1>3, <1>n, <2>1, <2>2, <2>5 DEF UploadsFollow
  <2> QED BY <1>n, <2>2, <2>4, <2>6 DEF LostAtTheEnd
<1>5. CASE GiveUp(w)
  <2>1. /\ UNCHANGED <<uploads, posted>> /\ w \in closed /\ w # "checker"
        /\ forgone' = IF w = "processor" THEN forgone + 1 ELSE forgone
    BY <1>5, <1>n DEF GiveUp, channels, Consumes
  <2>2. forgone' \in Nat /\ (forgone' # forgone => "processor" \in closed)
    BY <1>n, <2>1
  <2>3. ChannelTyped'
    <3>1. busy'["processor"] <= 1 /\ busy'["uploader"] <= 2 /\ busy'["commander"] <= 1
      <4>1. \A v \in Consumes : busy'[v] \in Nat /\ busy[v] \in Nat /\ busy'[v] <= busy[v]
        BY <1>3, <1>n DEF Workers
      <4>2. /\ busy["processor"] <= 1 /\ busy["uploader"] <= 2 /\ busy["commander"] <= 1
        BY DEF ChannelTyped
      <4> QED BY <4>1, <4>2 DEF Consumes
    <3>2. Finished' <= MaxFinished /\ Issued' <= MaxCommands
      BY <2>1, NothingPosted
    <3> QED BY <1>2, <1>n, <2>1, <2>2, <3>1, <3>2 DEF ChannelTyped
  <2>4. busy'["processor"] + busy'["checker"] + forgone' = busy["processor"] + busy["checker"] + forgone
    BY <1>2, <1>n, <2>1
  <2>5. UploadsFollow'
    BY <1>3, <1>n, <2>1, <2>2, <2>4 DEF UploadsFollow
  <2> QED BY <1>n, <2>2, <2>3, <2>5 DEF LostAtTheEnd
<1> QED BY <1>4, <1>5

\* The uploader and the commander.
LEMMA WorkersHold ==
  ASSUME ChannelInductive,
         TakeUpload \/ Execute \/ Park \/ PutBack \/ \E w \in Workers : Answer(w)
  PROVE  (ChannelTyped /\ UploadsFollow /\ LostAtTheEnd)'
<1> USE DEF ChannelInductive
<1>n. /\ BufSize \in Nat /\ uploads \in Nat /\ parked \in Nat
      /\ \A v \in Workers : busy[v] \in Nat
      /\ \A m \in Message : posted[m] \in Nat /\ handled[m] \in Nat
      /\ busy["uploader"] <= 2 /\ busy["commander"] <= 1
      /\ busy \in [Workers -> Nat]
      /\ UNCHANGED <<closed, stopped, lost, forgone>>
  BY ChannelNumbers, KindsOf
     DEF ChannelTyped, TakeUpload, Execute, Park, PutBack, Answer, history
<1>1. /\ busy' \in [Workers -> Nat]
      /\ busy'["processor"] = busy["processor"] /\ busy'["checker"] = busy["checker"]
      /\ busy'["uploader"] <= 2 /\ busy'["commander"] <= 1
  <2>1. PICK w \in {"uploader", "commander"}, n \in Nat :
          /\ busy' = [busy EXCEPT ![w] = n]
          /\ n <= IF w = "uploader" THEN 2 ELSE 1
    <3>1. CASE TakeUpload
      <4>1. PICK n \in EventsPerUpload : busy' = [busy EXCEPT !["uploader"] = n]
        BY <3>1 DEF TakeUpload
      <4>2. n \in Nat /\ n <= IF "uploader" = "uploader" THEN 2 ELSE 1
        BY DEF EventsPerUpload
      <4> QED BY <4>1, <4>2
    <3>2. CASE Execute
      <4>1. 1 \in Nat /\ busy' = [busy EXCEPT !["commander"] = 1]
        BY <3>2 DEF Execute
      <4>2. 1 <= IF "commander" = "uploader" THEN 2 ELSE 1
        OBVIOUS
      <4> QED BY <4>1, <4>2
    <3>3. CASE Park \/ PutBack
      <4>1. busy' = [busy EXCEPT !["uploader"] = busy["uploader"]] /\ busy["uploader"] \in Nat
        BY <1>n, <3>3, KindsOf DEF Park, PutBack
      <4> QED BY <1>n, <4>1
    <3>4. ASSUME NEW w \in Workers, Answer(w)
          PROVE  \E v \in {"uploader", "commander"}, n \in Nat :
                   /\ busy' = [busy EXCEPT ![v] = n]
                   /\ n <= IF v = "uploader" THEN 2 ELSE 1
      <4>1. /\ w \in {"uploader", "commander"} /\ busy[w] - 1 \in Nat
            /\ busy' = [busy EXCEPT ![w] = busy[w] - 1]
            /\ busy[w] <= IF w = "uploader" THEN 2 ELSE 1
        BY <1>n, <3>4 DEF Answer, CanAnswer
      <4>2. busy[w] - 1 <= IF w = "uploader" THEN 2 ELSE 1
        BY <1>n, <4>1
      <4> QED BY <4>1, <4>2
    <3> QED BY <3>1, <3>2, <3>3, <3>4
  <2> QED BY <1>n, <2>1, KindsOf
<1>2. uploads' \in 0 .. BufSize
  BY <1>n DEF TakeUpload, CanTakeUpload, Execute, Park, PutBack, Answer, ChannelTyped
<1>3. events' \in Seq(Event) /\ Len(events') <= BufSize
  <2>1. events \in Seq(Event) /\ Len(events) <= BufSize /\ "note" \in Event
    BY DEF ChannelTyped, Event
  <2>2. UNCHANGED events \/ (events' = Append(events, "note") /\ Len(events) < BufSize)
    BY DEF TakeUpload, Execute, Park, PutBack, Answer, Emit, RoomForEvent
  <2> QED BY <1>n, <2>1, <2>2
<1>4. /\ commands' \in Seq(Command) /\ Len(commands') <= BufSize
      /\ parked' \in Nat
  <2>1. commands \in Seq(Command) /\ Len(commands) <= BufSize /\ "other" \in Command
    BY DEF ChannelTyped, Command
  <2>2. CASE TakeUpload \/ \E w \in Workers : Answer(w)
    BY <1>n, <2>1, <2>2 DEF TakeUpload, Answer
  <2>3. CASE Execute \/ Park
    <3>1. commands # <<>> /\ commands' = Tail(commands) /\ parked' \in {parked, parked + 1}
      BY <2>3 DEF Execute, Park, Takes, CanTake
    <3> QED BY <1>n, <2>1, <3>1
  <2>4. CASE PutBack
    <3>1. commands' = Append(commands, "other") /\ Len(commands) < BufSize
          /\ parked > 0 /\ parked' = parked - 1
      BY <2>4 DEF PutBack, CanPutBack, RoomForCommand
    <3> QED BY <1>n, <2>1, <3>1
  <2> QED BY <2>2, <2>3, <2>4
<1>5. /\ posted' \in [Message -> Nat] /\ handled' \in [Message -> Nat]
      /\ \A m \in Message \ {"note"} : posted'[m] = posted[m]
      /\ \A m \in {"downloaded", "transcoded"} : handled'[m] = handled[m]
  <2>1. PICK m \in {"upload", "mine"} : UNCHANGED handled \/ handled' = [handled EXCEPT ![m] = @ + 1]
    BY DEF TakeUpload, Execute, Park, PutBack, Answer, Handles, history
  <2>2. UNCHANGED posted \/ posted' = [posted EXCEPT !["note"] = @ + 1]
    BY DEF TakeUpload, Execute, Park, PutBack, Answer, Emit, Posts, history
  <2>3. posted \in [Message -> Nat] /\ handled \in [Message -> Nat]
    BY DEF ChannelTyped
  <2> QED BY <1>n, <2>1, <2>2, <2>3, KindsOf
<1>6. Finished' = Finished /\ Issued' = Issued
  BY <1>5, KindsOf DEF Finished, Issued
<1>7. ChannelTyped'
  BY <1>1, <1>2, <1>3, <1>4, <1>5, <1>6, <1>n DEF ChannelTyped
<1> QED BY <1>1, <1>5, <1>7, <1>n, KindsOf DEF UploadsFollow, LostAtTheEnd

\* The end of a consumer, and of the process.
LEMMA EndsHold ==
  ASSUME ChannelInductive, Discard \/ Stop \/ \E w \in Consumes : Close(w)
  PROVE  (ChannelTyped /\ UploadsFollow /\ LostAtTheEnd)'
<1> USE DEF ChannelInductive
<1>n. /\ BufSize \in Nat /\ parked \in Nat /\ forgone \in Nat
      /\ busy["processor"] \in Nat /\ busy["checker"] \in Nat
      /\ \A m \in Message : lost[m] \in Nat /\ InMemory[m] \in Nat
      /\ lost \in [Message -> Nat] /\ "other" \in Message /\ posted["upload"] \in Nat
      /\ UNCHANGED <<posted, handled>>
  BY ChannelNumbers, KindsOf DEF ChannelTyped, Discard, Stop, Close, history
<1>1. CASE \E w \in Consumes : Close(w)
  <2>1. PICK w \in Consumes : Close(w)
    BY <1>1
  <2>2. /\ UNCHANGED <<events, uploads, commands, busy, parked, stopped, posted, handled, lost, forgone>>
        /\ closed' = closed \cup {w}
    BY <2>1 DEF Close, channels, history
  <2>3. Finished' <= MaxFinished /\ Issued' <= MaxCommands
    BY <2>2, NothingPosted
  <2>4. ChannelTyped'
    BY <2>2, <2>3 DEF ChannelTyped
  <2> QED BY <2>2, <2>4 DEF UploadsFollow, LostAtTheEnd
<1>2. CASE Discard
  <2>1. /\ UNCHANGED <<events, uploads, commands, busy, closed, stopped, forgone>>
        /\ parked' = parked - 1 /\ parked > 0 /\ "commander" \in closed
        /\ lost' = [lost EXCEPT !["other"] = lost["other"] + 1]
    BY <1>2 DEF Discard, channels
  <2>2. parked' \in Nat /\ lost' \in [Message -> Nat]
        /\ \A m \in Message \ {"other"} : lost'[m] = lost[m]
    BY <1>n, <2>1
  <2> QED BY <1>n, <2>1, <2>2 DEF ChannelTyped, UploadsFollow, LostAtTheEnd, Finished, Issued
<1>3. CASE Stop
  <2>1. /\ stopped' = TRUE /\ events' = <<>> /\ uploads' = 0 /\ commands' = <<>>
        /\ busy' = Idle /\ parked' = 0 /\ UNCHANGED closed
        /\ lost' = [m \in Message |-> lost[m] + InMemory[m]]
        /\ forgone' = forgone + busy["processor"] + busy["checker"]
    BY <1>3 DEF Stop
  <2>2. /\ busy' \in [Workers -> Nat] /\ \A w \in Workers : busy'[w] = 0
        /\ events' \in Seq(Event) /\ Len(events') = 0
        /\ commands' \in Seq(Command) /\ Len(commands') = 0
        /\ forgone' \in Nat
    BY <1>n, <2>1 DEF Idle
  <2>3. lost' \in [Message -> Nat]
    BY <1>n, <2>1
  <2>4. ChannelTyped'
    <3>1. Finished' <= MaxFinished /\ Issued' <= MaxCommands
      BY <1>n, NothingPosted
    <3>2. 0 \in 0 .. BufSize /\ 0 <= BufSize /\ 0 <= 1 /\ 0 <= 2 /\ 0 \in Nat
      BY <1>n
    <3> QED BY <1>n, <2>1, <2>2, <2>3, <3>1, <3>2, KindsOf DEF ChannelTyped
  <2>5. UploadsFollow'
    <3>1. busy'["processor"] = 0 /\ busy'["checker"] = 0
      BY <2>2, KindsOf
    <3>2. posted["upload"] \in Nat /\ posted["upload"] + 0 + 0 + forgone'
            = posted["upload"] + busy["processor"] + busy["checker"] + forgone
      BY <1>n, <2>1
    <3> QED BY <1>n, <3>1, <3>2 DEF UploadsFollow
  <2> QED BY <2>1, <2>4, <2>5 DEF LostAtTheEnd
<1> QED BY <1>1, <1>2, <1>3

LEMMA ChannelNext == ChannelInductive /\ [Next]_queueVars => ChannelInductive'
<1> SUFFICES ASSUME ChannelInductive, [Next]_queueVars PROVE ChannelInductive'
  OBVIOUS
<1>1. CASE MemoryNext
  <2>1. (ChannelTyped /\ UploadsFollow /\ LostAtTheEnd)'
    BY <1>1, SendersHold, ProcessorHolds, UploadsHold, WorkersHold, EndsHold
       DEF MemoryNext, Progress, Consume, Ends, Workers
  <2>2. MessagesKept'
    BY <1>1, <2>1, EveryStepBooks, BooksBalance DEF ChannelInductive
  <2> QED BY <2>1, <2>2 DEF ChannelInductive
<1>2. CASE UNCHANGED memoryVars
  <2>1. UNCHANGED InMemory
    BY <1>2 DEF memoryVars, channels, InMemory, Count
  <2> QED BY <1>2, <2>1 DEF memoryVars, channels, history, ChannelInductive, ChannelTyped,
          MessagesKept, UploadsFollow, LostAtTheEnd, Finished, Issued
<1> QED BY <1>1, <1>2 DEF Next, queueVars

LEMMA ChannelInit == Init => ChannelInductive
<1> SUFFICES ASSUME Init PROVE ChannelInductive
  OBVIOUS
<1>1. /\ BufSize \in Nat /\ Files \in Nat /\ MaxFinished \in Nat /\ MaxCommands \in Nat
      /\ Files * 0 = 0
  BY MemoryQueueAssumption
<1>2. events = <<>> /\ commands = <<>> /\ uploads = 0 /\ parked = 0
  BY DEF Init, MemoryInit
<1>3. \A m \in Message : InMemory[m] = 0
  <2> HIDE DEF Count
  <2> QED BY <1>2, EmptyCounts, KindsOf, MemoryIs DEF Event
<1>4. \A m \in Message : posted[m] = 0 /\ handled[m] = 0 /\ lost[m] = 0
  BY DEF Init, MemoryInit, Never
<1>5. ChannelTyped
  <2>1. Finished = 0 /\ Issued = 0
    BY <1>4, KindsOf DEF Finished, Issued
  <2>2. /\ events \in Seq(Event) /\ Len(events) = 0
        /\ commands \in Seq(Command) /\ Len(commands) = 0
    BY <1>2
  <2>3. busy \in [Workers -> Nat] /\ \A w \in Workers : busy[w] = 0
    BY DEF Init, MemoryInit, Idle
  <2>4. posted \in [Message -> Nat] /\ handled \in [Message -> Nat] /\ lost \in [Message -> Nat]
    BY DEF Init, MemoryInit, Never
  <2>5. closed = {} /\ stopped = FALSE /\ forgone = 0
    BY DEF Init, MemoryInit
  <2>6. busy["processor"] <= 1 /\ busy["uploader"] <= 2 /\ busy["commander"] <= 1
    BY <2>3, KindsOf
  <2>7. uploads \in 0 .. BufSize /\ parked \in Nat
    BY <1>1, <1>2
  <2>8. Len(events) <= BufSize /\ Len(commands) <= BufSize
    BY <1>1, <2>2
  <2>9. Finished <= MaxFinished /\ Issued <= MaxCommands
    BY <1>1, <2>1
  <2> QED BY <2>2, <2>3, <2>4, <2>5, <2>6, <2>7, <2>8, <2>9 DEF ChannelTyped
<1>6. MessagesKept
  BY <1>3, <1>4 DEF MessagesKept
<1>7. UploadsFollow
  BY <1>1, <1>4, KindsOf DEF Init, MemoryInit, Idle, UploadsFollow
<1> QED BY <1>4, <1>5, <1>6, <1>7, KindsOf DEF Init, MemoryInit, ChannelInductive, LostAtTheEnd

-----------------------------------------------------------------------------
(* What stands still *)

\* Whatever is pending leads to someone who waits for room in a channel: a command that
\* was parked, or is in its channel, to the commander and the full events channel; an
\* event to the processor and the full uploads channel; an upload to the uploader.
LEMMA StandsStill ==
  ASSUME MemoryTypeOK, Pending, ~ CanProgress
  PROVE  Deadlocked
<1>t. /\ BufSize \in Nat \ {0} /\ uploads \in 0 .. BufSize /\ parked \in Nat
      /\ events \in Seq(Event) /\ Len(events) <= BufSize
      /\ commands \in Seq(Command) /\ Len(commands) <= BufSize
      /\ \A w \in Workers : busy[w] \in Nat
  BY MemoryQueueAssumption DEF MemoryTypeOK
<1>1. \A w \in {"processor", "checker"} : busy[w] > 0 => uploads = BufSize
  BY <1>t DEF CanProgress, CanQueueUpload, RoomForUpload, Workers, Consumes
<1>2. \A w \in {"uploader", "commander"} : busy[w] > 0 => Len(events) = BufSize
  BY <1>t DEF CanProgress, CanAnswer, RoomForEvent, Workers, Consumes
<1>3. uploads > 0 => busy["uploader"] > 0
  BY <1>t DEF CanProgress, CanTakeUpload, Workers, Consumes
<1>4. events # <<>> => busy["processor"] > 0
  BY <1>t DEF CanProgress, CanTakeEvent, Workers, Consumes
<1>5. commands # <<>> => busy["commander"] > 0
  <2> SUFFICES ASSUME commands # <<>> PROVE busy["commander"] > 0
    OBVIOUS
  <2>1. Head(commands) \in Command
    BY <1>t
  <2>2. busy["commander"] # 0
    BY <2>1 DEF CanProgress, CanTake
  <2> QED BY <1>t, <2>2 DEF Workers, Consumes
<1>6. parked > 0 => commands # <<>>
  BY <1>t DEF CanProgress, CanPutBack, RoomForCommand
<1>7. Len(events) = BufSize => events # <<>>
  BY <1>t
<1>8. events # <<>> \/ uploads > 0
  BY <1>1, <1>2, <1>3, <1>5, <1>6, <1>7, <1>t DEF Pending, Workers, Consumes
<1> QED BY <1>1, <1>2, <1>3, <1>4, <1>7, <1>8, <1>t DEF Deadlocked

-----------------------------------------------------------------------------
(* What the channels promise *)

channelView == <<posted, InMemory, handled, 0, Shut>>

\* What is sent waits until a handler gets it, or is lost with channels that are shut.
LEMMA ChannelPromised ==
  ASSUME ChannelInductive, ChannelInductive', MemoryNext
  PROVE  Channel!Next \/ UNCHANGED channelView
<1>1. Books
  BY EveryStepBooks DEF ChannelInductive
<1>2. CASE Taken
  <2>1. PICK m \in Message : /\ posted' = [posted EXCEPT ![m] = @ + 1]
                             /\ InMemory' = [InMemory EXCEPT ![m] = @ + 1]
                             /\ UNCHANGED <<handled, closed, stopped>>
    BY <1>2 DEF Taken
  <2>2. Channel!Send(m)
    BY <2>1 DEF Channel!Send, Channel!Arrives
  <2> QED BY <2>2 DEF Channel!Next
<1>3. CASE Given
  <2>1. PICK m \in Message : /\ InMemory[m] > 0
                             /\ handled' = [handled EXCEPT ![m] = @ + 1]
                             /\ InMemory' = [InMemory EXCEPT ![m] = @ - 1]
                             /\ UNCHANGED <<posted, closed, stopped>>
    BY <1>3 DEF Given
  <2>2. Channel!DealWith(m)
    BY <2>1 DEF Channel!DealWith, Channel!DealsWith
  <2> QED BY <2>2 DEF Channel!Next
<1>4. CASE Stays
  <2>1. UNCHANGED <<posted, handled, InMemory>> /\ stopped' = stopped /\ closed \subseteq closed'
    BY <1>4 DEF Stays
  <2>2. CASE Shut' = Shut
    BY <2>1, <2>2 DEF channelView
  <2>3. CASE Shut' # Shut
    <3>1. (closed' # {} \/ stopped') = TRUE
      BY <2>1, <2>3 DEF Shut
    <3> QED BY <2>1, <3>1 DEF Channel!Shut, Channel!Next
  <2> QED BY <2>2, <2>3
<1>5. CASE Goes
  <2>1. /\ UNCHANGED <<posted, handled>> /\ (closed' # {} \/ stopped') = TRUE
        /\ \A m \in Message : InMemory'[m] <= InMemory[m]
        /\ InMemory' \in [Message -> Nat]
    BY <1>5, NumbersThen DEF Goes, Shut, ChannelInductive
  <2>2. Channel!Lose
    BY <2>1 DEF Channel!Lose
  <2> QED BY <2>2 DEF Channel!Next
<1> QED BY <1>1, <1>2, <1>3, <1>4, <1>5 DEF Books

-----------------------------------------------------------------------------
(* Either queue *)

\* The types of both queues: a channel never holds more than it has room for, and what the
\* consumers have yet to send, or put back, is bounded by what was downloaded and issued.
THEOREM QueueTypes == Spec => []TypeOK
<1>1. Init => kind \in Kinds
  BY DEF Init
<1>2. kind \in Kinds /\ [Next]_queueVars => (kind \in Kinds)'
  BY DEF Next, queueVars
<1>3. kind \in Kinds /\ Inductive /\ ChannelInductive => TypeOK
  BY ChannelTypes DEF TypeOK, Inductive
<1> QED BY <1>1, <1>2, <1>3, ChannelInit, ChannelNext, InductiveInvariant, PTL DEF Spec

\* What the broker has accepted is kept until it was dealt with, unless it died in the
\* producer's connection. In mode all every event, upload job and command that was sent was
\* handled once, or is in its channel or parked, or was lost, and no upload job that an
\* event called for is missing; what was lost or forgone is a command that was parked when
\* its consumer was closed, an upload job of a processor that was closed, or what the
\* process held when it ended.
THEOREM NothingIsLost == Spec => []NothingLost
<1>1. ChannelInductive /\ AcceptedKept => NothingLost
  BY DEF ChannelInductive, NothingLost
<1> QED BY <1>1, ChannelInit, ChannelNext, AcceptedStays, PTL DEF Spec

\* When something is pending and nobody in the program can go on, the processor waits for
\* room for an upload and the uploader for room for an event, whatever the room in the
\* channels and the number of files, downloads and commands.
THEOREM OneDeadlock == Spec => []StallsInOneWay
<1>1. TypeOK => StallsInOneWay
  BY StandsStill DEF TypeOK, StallsInOneWay
<1> QED BY <1>1, QueueTypes, PTL

\* Once the processor and the uploader wait for each other they do so until one of them is
\* closed or the process ends: no sender, no command and no goroutine of the checker makes
\* room for either.
THEOREM DeadlockStays ==
  Spec => [][Deadlocked => Deadlocked' \/ closed # {} \/ stopped']_queueVars
<1>1. TypeOK /\ Next => (Deadlocked => Deadlocked' \/ closed # {} \/ stopped')
  <2> SUFFICES ASSUME TypeOK, Next, Deadlocked, closed = {}, ~ stopped' PROVE Deadlocked'
    OBVIOUS
  <2>t. /\ BufSize \in Nat \ {0} /\ uploads \in 0 .. BufSize
        /\ events \in Seq(Event) /\ busy \in [Workers -> Nat]
    BY MemoryQueueAssumption DEF TypeOK, MemoryTypeOK
  <2>1. ~ RoomForEvent /\ ~ RoomForUpload
        /\ busy["processor"] # 0 /\ busy["uploader"] # 0
    BY <2>t DEF Deadlocked, RoomForEvent, RoomForUpload, Workers, Consumes
  <2>2. CASE UNCHANGED memoryVars
    BY <2>2 DEF memoryVars, channels, Deadlocked
  <2>3. CASE \E k \in Command : Request(k)
    BY <2>3 DEF Request, Deadlocked
  <2>4. CASE Execute \/ Park
    BY <2>4, <2>t DEF Execute, Park, Deadlocked, Workers, Consumes
  <2>5. CASE PutBack
    BY <2>5 DEF PutBack, Deadlocked
  <2>8. CASE \E w \in Consumes : Close(w)
    BY <2>8 DEF Close, channels, Deadlocked
  <2>9. ~ (Discard \/ Stop \/ \E w \in Consumes : GiveUp(w))
    BY DEF Discard, Stop, GiveUp
  <2>6. ~ (Notes \/ \E event \in Event : Finishes(event))
    BY <2>1 DEF Notes, Finishes, Emit
  <2>7. ~ (TakeEvent \/ TakeUpload \/ \E w \in Workers : QueueUpload(w) \/ Answer(w))
    BY <2>1 DEF TakeEvent, CanTakeEvent, TakeUpload, CanTakeUpload, QueueUpload, CanQueueUpload,
                Answer, CanAnswer
  <2> QED BY <2>2, <2>3, <2>4, <2>5, <2>6, <2>7, <2>8, <2>9
          DEF Next, MemoryNext, Progress, Consume, Ends
<1> QED BY <1>1, QueueTypes, PTL DEF Spec

\* Either queue keeps the promise of QueuePromise: a message comes from a call of Send, it
\* leaves only when a handler has dealt with it, or with channels that are shut, and what
\* comes twice is paid for by a fault.
THEOREM Implements == Spec => KeepsPromise
<1>1. Init => Broker!Init /\ Channel!Init
  <2> SUFFICES ASSUME Init PROVE Broker!Init /\ Channel!Init
    OBVIOUS
  <2>1. \A m \in Messages : Held(m) = 0
    <3>1. \A m \in Messages : Unacked(m) = {}
      BY NobodyAssumption DEF Init, RabbitInit, Unacked
    <3> QED BY <3>1, FS_EmptySet DEF Held, Unacked
  <2>2. Broker!Init
    <3> HIDE DEF Held
    <3> QED BY <2>1 DEF Init, RabbitInit, Broker!Init
  <2>3. InMemory = [m \in Message |-> 0]
    <3>1. ChannelTyped /\ \A m \in Message : posted[m] = 0 /\ handled[m] = 0 /\ lost[m] = 0
      BY ChannelInit DEF ChannelInductive, Init, MemoryInit, Never
    <3>2. \A m \in Message : InMemory[m] = 0
      BY <3>1, ChannelInit, ChannelNumbers DEF ChannelInductive, MessagesKept
    <3> QED BY <3>2, MemoryIs
  <2>4. Channel!Init
    BY <2>3 DEF Init, MemoryInit, Never, Channel!Init
  <2> QED BY <2>2, <2>4
<1>2. Inductive /\ [Next]_queueVars => [Broker!Next]_brokerView
  <2> SUFFICES ASSUME Inductive, [Next]_queueVars PROVE Broker!Next \/ UNCHANGED brokerView
    OBVIOUS
  <2>1. CASE RabbitNext
    BY <2>1, ProducerPromised, ConsumerPromised DEF RabbitNext, ProducerStep
  <2>2. CASE UNCHANGED rabbitVars
    BY <2>2 DEF rabbitVars, brokerView, Sent, Waiting, Held
  <2> QED BY <2>1, <2>2 DEF Next, queueVars
<1>3. ChannelInductive /\ [Next]_queueVars => [Channel!Next]_channelView
  <2> SUFFICES ASSUME ChannelInductive, [Next]_queueVars
               PROVE  Channel!Next \/ UNCHANGED channelView
    OBVIOUS
  <2>1. CASE MemoryNext
    BY <2>1, ChannelPromised, ChannelNext
  <2>2. CASE UNCHANGED memoryVars
    BY <2>2 DEF memoryVars, channels, history, channelView, InMemory, Count, Shut
  <2> QED BY <2>1, <2>2 DEF Next, queueVars
<1>4. Spec => []Inductive /\ []ChannelInductive
  BY InductiveInvariant, ChannelInit, ChannelNext, PTL DEF Spec
<1> QED BY <1>1, <1>2, <1>3, <1>4, PTL
        DEF Spec, KeepsPromise, Broker!Spec, Channel!Spec, brokerView, channelView, Sent, Waiting, Shut

=============================================================================

--------------------------- MODULE RabbitConsumers --------------------------
(* The consumers of RabbitQueue: consumeMessages, reconnect, resubscribeTopic. *)
EXTENDS RabbitQueue

producerSide == <<producer, sent, accepted, vanished>>

Becomes(c, pc, hand, link) ==
  consumer' = [consumer EXCEPT ![c] = [pc |-> pc, hand |-> hand, link |-> link]]
Step(c, pc) == Becomes(c, pc, consumer[c].hand, consumer[c].link)
Done(c) == Becomes(c, "ready", Nobody, consumer[c].link)

Deliver(c, m) ==
  /\ consumer[c].link = "open" /\ consumer[c].pc = "ready"
  /\ queue[m] > 0
  /\ queue' = [queue EXCEPT ![m] = @ - 1]
  /\ unacked' = [unacked EXCEPT ![c] = m]
  /\ Becomes(c, "handling", m, consumer[c].link)
  /\ UNCHANGED <<target, producerSide, ended, faults>>

ForMe(c) == target[consumer[c].hand] \in {c, Nobody}

\* Mutant of Ack: a handler's message is put back, as after an error worth a retry.
AckPutsBack(c) ==
  /\ consumer[c].pc = "handling" /\ ForMe(c)
  /\ ended' = [ended EXCEPT ![consumer[c].hand] = @ + 1]
  /\ GiveBack(c)
  /\ Done(c)
  /\ UNCHANGED <<target, producerSide, faults>>

\* The handler has dealt with the message, or failed for good: both are acknowledged,
\* in vain when the connection was lost meanwhile.
Ack(c) ==
  /\ consumer[c].pc = "handling" /\ ForMe(c)
  /\ ended' = [ended EXCEPT ![consumer[c].hand] = @ + 1]
  /\ unacked' = [unacked EXCEPT ![c] = Nobody]
  /\ Done(c)
  /\ UNCHANGED <<target, queue, producerSide, faults>>

\* Mutant of NotForMe: a message for another worker is acknowledged like an error.
AckNotForMe(c) ==
  /\ consumer[c].pc = "handling" /\ ~ ForMe(c)
  /\ unacked' = [unacked EXCEPT ![c] = Nobody]
  /\ Done(c)
  /\ UNCHANGED <<target, queue, producerSide, ended, faults>>

NotForMe(c) ==
  /\ consumer[c].pc = "handling" /\ ~ ForMe(c)
  /\ Step(c, "sleeping")
  /\ UNCHANGED <<target, queue, producerSide, unacked, ended, faults>>

Nack(c) ==
  /\ consumer[c].pc = "sleeping"
  /\ GiveBack(c)
  /\ Done(c)
  /\ UNCHANGED <<target, producerSide, ended, faults>>

\* The connection is lost, or the broker closes the channel on it, at any time.
Breaks(c) ==
  /\ consumer[c].link = "open" /\ consumer[c].pc # "closed"
  /\ Fault
  /\ \E link \in {"channel", "down"} : Becomes(c, consumer[c].pc, consumer[c].hand, link)
  /\ GiveBack(c)
  /\ UNCHANGED <<target, producerSide, ended>>

NoticesClosed(c) ==
  /\ consumer[c].pc = "ready" /\ consumer[c].link # "open"
  /\ Step(c, "dial")
  /\ UNCHANGED <<target, queue, producerSide, unacked, ended, faults>>

\* A connection that is alive is left alone, even when its channel is closed. A dial
\* that fails is tried again.
Reconnect(c) ==
  /\ consumer[c].pc = "dial"
  /\ Becomes(c, "subscribe", consumer[c].hand,
             IF consumer[c].link = "channel" THEN "channel" ELSE "open")
  /\ UNCHANGED <<target, queue, producerSide, unacked, ended, faults>>

Resubscribe(c) ==
  /\ consumer[c].pc = "subscribe" /\ consumer[c].link = "open"
  /\ Step(c, "ready")
  /\ UNCHANGED <<target, queue, producerSide, unacked, ended, faults>>

\* Mutant of ResubscribeFails: the connection is not invalidated.
KeepConnection(c) ==
  /\ consumer[c].pc = "subscribe" /\ consumer[c].link # "open"
  /\ Step(c, "dial")
  /\ UNCHANGED <<target, queue, producerSide, unacked, ended, faults>>

ResubscribeFails(c) ==
  /\ consumer[c].pc = "subscribe" /\ consumer[c].link # "open"
  /\ Becomes(c, "dial", consumer[c].hand, "down")
  /\ UNCHANGED <<target, queue, producerSide, unacked, ended, faults>>

\* Close, or the end of the worker.
CloseConsumer(c) ==
  /\ consumer[c].pc # "closed"
  /\ Fault
  /\ Becomes(c, "closed", Nobody, "down")
  /\ GiveBack(c)
  /\ UNCHANGED <<target, producerSide, ended>>

-----------------------------------------------------------------------------

Produces == Publish \/ PublishDown \/ Redial
ProducerFails == PublishVanishes \/ PublishBreaks \/ RedialFails \/ ProducerBreaks
Handling(c) == Ack(c) \/ NotForMe(c) \/ Nack(c)
Recovers(c) == NoticesClosed(c) \/ Reconnect(c) \/ Resubscribe(c) \/ ResubscribeFails(c)

RabbitNext ==
  \/ \E m \in Messages : Send(m)
  \/ Produces \/ ProducerFails
  \/ \E c \in Consumers :
       \/ \E m \in Messages : Deliver(c, m)
       \/ Handling(c) \/ Recovers(c)
       \/ Breaks(c) \/ CloseConsumer(c)

\* Handlers return, the broker comes back, and it does not give a message to other
\* consumers for ever while its target is ready again and again.
RabbitFairness ==
  /\ \A c \in Consumers, m \in Messages : SF_rabbitVars(Deliver(c, m))
  /\ \A c \in Consumers : WF_rabbitVars(Handling(c)) /\ WF_rabbitVars(Recovers(c))

-----------------------------------------------------------------------------

Held(m) == Cardinality({c \in Consumers : unacked[c] = m})

\* "Consumers MUST treat this as 'do not ack'": what the broker has got is in the queue,
\* delivered over a connection that lives or dealt with by a handler, whatever breaks.
AcceptedKept ==
  \A m \in accepted \ vanished : queue[m] + Held(m) + ended[m] > 0

\* A message is dealt with once, and once more for every connection that broke.
CopiesPaidByFaults == \A m \in Messages : queue[m] + Held(m) + ended[m] <= 1 + faults

\* A message in the queue is dealt with as long as a consumer that may do so is not
\* closed: consumers take up their queue again after whatever broke. Two messages for
\* different workers are another matter: each worker may get the other's message again
\* and again, sleep, and give it back while the other does the same.
Closed(m) == \A c \in Consumers : target[m] \in {c, Nobody} => consumer[c].pc = "closed"
Swapped(m) == \E n \in Messages : target[n] # target[m] /\ Nobody \notin {target[m], target[n]}
QueueDrains == \A m \in Messages : queue[m] > 0 ~> (ended[m] > 0 \/ Closed(m) \/ Swapped(m))

=============================================================================

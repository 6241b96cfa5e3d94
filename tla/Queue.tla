-------------------------------- MODULE Queue -------------------------------
(* The message queue of the program, of the kind that the configuration names. *)
EXTENDS RabbitConsumers, MemoryQueue

VARIABLE kind  \* QUEUE_TYPE

queueVars == <<kind, rabbitVars, memoryVars>>

Kinds == {"rabbitmq", "channel"}

TypeOK == kind \in Kinds /\ RabbitTypeOK /\ MemoryTypeOK

Init ==
  /\ kind \in Kinds
  /\ RabbitInit
  /\ kind = "channel" => target = [m \in Messages |-> Nobody]
  /\ MemoryInit

Next ==
  \/ kind = "rabbitmq" /\ RabbitNext /\ UNCHANGED <<kind, memoryVars>>
  \/ kind = "channel" /\ MemoryNext /\ UNCHANGED <<kind, rabbitVars>>

Spec == Init /\ [][Next]_queueVars /\ RabbitFairness

-----------------------------------------------------------------------------

\* "Put the message back on the queue so a peer can take it". The queue of the broker loses
\* nothing that it has accepted, whatever breaks and whoever gets a message first, except
\* for what dies in the buffers of the producer's connection. The channels lose nothing,
\* event, upload job or command, as long as the process lives and no consumer is closed:
\* a consumer that is closed loses what it had parked, and a processor that is closed the
\* upload jobs it was sending; and a process that stops loses all that it holds.
NothingLost == AcceptedKept /\ MessagesKept /\ UploadsFollow /\ LostAtTheEnd

\* The queue of the broker under QueuePromise, where a copy is that of the broker: one it
\* holds, or has delivered over a connection that lives. It is never shut.
Broker == INSTANCE QueuePromise WITH
  sent <- [m \in Messages |-> IF m \in sent THEN 1 ELSE 0],
  waiting <- [m \in Messages |-> queue[m] + Held(m)],
  shut <- FALSE

\* The channels of mode all under QueuePromise, where nothing breaks, but they are shut
\* when a consumer is closed or the process stops.
Channel == INSTANCE QueuePromise WITH
  Messages <- Message,
  sent <- posted,
  waiting <- InMemory,
  ended <- handled,
  faults <- 0,
  shut <- closed # {} \/ stopped

\* The comments on ErrNotForMe and Handler (queue.go): "do not ack" what is for another
\* consumer, "ack" what was processed. Handed back, redelivered or published again, a
\* message leaves either queue only when a handler has dealt with it, or with channels that
\* are shut, and comes twice only after a fault.
KeepsPromise == Broker!Spec /\ Channel!Spec

=============================================================================

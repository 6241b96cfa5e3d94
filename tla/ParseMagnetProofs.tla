-------------------------- MODULE ParseMagnetProofs --------------------------
(***************************************************************************)
(* Theorems about ParseMagnet, for any calls, magnets, replicas, workers   *)
(* and faults: a waiting call has exactly one chance of a reply, and the   *)
(* module implements ParseCalls.                                           *)
(***************************************************************************)
EXTENDS ParseMagnet, SequenceTheorems, TLAPS

(* Queues *)

\* A publication leaves the queue as it was, or adds the message to its end.
LEMMA PublishType ==
  ASSUME NEW T, NEW q \in Seq(T), NEW m \in T, NEW next,
         faults \in 0 .. MaxFaults, Publish(q, next, m)
  PROVE  /\ next \in Seq(T)
         /\ faults' \in 0 .. MaxFaults
         /\ \A i \in 1 .. Len(next) :
              next[i] = m \/ \E j \in 1 .. Len(q) : next[i] = q[j]
<1>1. CASE next = Append(q, m) /\ UNCHANGED faults
  <2>1. next \in Seq(T)
    BY <1>1
  <2>2. \A i \in 1 .. Len(next) : next[i] = m \/ \E j \in 1 .. Len(q) : next[i] = q[j]
    BY <1>1
  <2> QED BY <1>1, <2>1, <2>2
<1>2. CASE next = q /\ Fault("lost")
  BY <1>2, FaultsAssumption DEF Fault
<1>3. CASE next = q \o <<m, m>> /\ Fault("duplicated")
  <2>1. next \in Seq(T)
    BY <1>3
  <2>2. \A i \in 1 .. Len(next) : next[i] = m \/ \E j \in 1 .. Len(q) : next[i] = q[j]
    BY <1>3
  <2>3. faults' \in 0 .. MaxFaults
    BY <1>3, FaultsAssumption DEF Fault
  <2> QED BY <2>1, <2>2, <2>3
<1> QED BY <1>1, <1>2, <1>3 DEF Publish

\* The count of faults stays within its bound.
LEMMA FaultType ==
  ASSUME faults \in 0 .. MaxFaults, NEW kind, Fault(kind)
  PROVE  faults' \in 0 .. MaxFaults
BY FaultsAssumption DEF Fault

\* A delivery takes the head of a queue, a redelivery puts it back.
LEMMA QueueEnds ==
  ASSUME NEW T, NEW q \in Seq(T)
  PROVE  /\ q # <<>> => /\ Head(q) \in T
                        /\ Len(q) >= 1 /\ Head(q) = q[1]
                        /\ Tail(q) \in Seq(T)
                        /\ \A i \in 1 .. Len(Tail(q)) : \E j \in 1 .. Len(q) : Tail(q)[i] = q[j]
         /\ \A m \in T : /\ <<m>> \o q \in Seq(T)
                         /\ \A i \in 1 .. Len(<<m>> \o q) :
                              \/ (<<m>> \o q)[i] = m
                              \/ \E j \in 1 .. Len(q) : (<<m>> \o q)[i] = q[j]
<1>1. ASSUME q # <<>>
      PROVE  /\ Head(q) \in T /\ Len(q) >= 1 /\ Head(q) = q[1]
             /\ Tail(q) \in Seq(T)
             /\ \A i \in 1 .. Len(Tail(q)) : \E j \in 1 .. Len(q) : Tail(q)[i] = q[j]
  <2>1. Len(Tail(q)) = Len(q) - 1 /\ Tail(q) \in Seq(T)
    BY <1>1
  <2>2. \A i \in 1 .. Len(Tail(q)) : Tail(q)[i] = q[i + 1] /\ i + 1 \in 1 .. Len(q)
    BY <1>1, <2>1
  <2> QED BY <1>1, <2>1, <2>2
<1>2. ASSUME NEW m \in T
      PROVE  /\ <<m>> \o q \in Seq(T)
             /\ \A i \in 1 .. Len(<<m>> \o q) :
                  \/ (<<m>> \o q)[i] = m
                  \/ \E j \in 1 .. Len(q) : (<<m>> \o q)[i] = q[j]
  OBVIOUS
<1> QED BY <1>1, <1>2

\* The channel of capacity 1 is empty after its message was received.
LEMMA SingletonTail ==
  ASSUME NEW T, NEW q \in Seq(T), Len(q) = 1
  PROVE  Tail(q) = <<>>
<1>1. q # <<>>
  BY EmptySeq
<1>2. Tail(q) \in Seq(T) /\ Len(Tail(q)) = 0
  BY <1>1, HeadTailProperties
<1> QED BY <1>2, EmptySeq

-----------------------------------------------------------------------------
(* Types *)

\* Nothing has happened before the first call.
LEMMA InitInductive == Init => Inductive
<1> SUFFICES ASSUME Init PROVE Inductive
  OBVIOUS
<1> USE CallsAssumption, FaultsAssumption DEF Init
<1>1. TypeOK
  BY DEF TypeOK, Outcome, Idle
<1>2. OneChance
  BY DEF OneChance, Chance, Slot, Carried, Filled, Idle
<1>3. Replies
  BY DEF Replies, Filled, Idle
<1>4. Results
  BY DEF Results
<1> QED BY <1>1, <1>2, <1>3, <1>4 DEF Inductive

\* The steps of a call keep the types.
LEMMA CallType ==
  ASSUME TypeOK, Replies, NEW c \in Calls, CallStep(c)
  PROVE  TypeOK'
<1> USE CallsAssumption DEF bus, queues, caller, TypeOK
<1>1. CASE CacheHit(c)
  BY <1>1 DEF CacheHit, Settle, Outcome
<1>2. CASE Register(c)
  BY <1>2, FaultType DEF Register
<1>3. CASE Send(c)
  BY <1>3, PublishType DEF Send
<1>4. CASE SendFails(c)
  <2>1. requests' \in Seq(Calls)
    <3>1. requests \in Seq(Calls) /\ Append(requests, c) \in Seq(Calls)
      OBVIOUS
    <3> QED BY <1>4, <3>1 DEF SendFails
  <2>2. pc' \in [Calls -> {"idle", "send", "wait", "cancel", "store", "returned"}]
        /\ result' \in [Calls -> Outcome]
    BY <1>4 DEF SendFails, Settle, Outcome
  <2> QED BY <1>4, <2>1, <2>2, FaultType DEF SendFails
<1>5. CASE Timeout(c)
  BY <1>5 DEF Timeout, Settle, Outcome
<1>6. CASE Cancel(c)
  BY <1>6 DEF Cancel
<1>7. CASE Receive(c)
  <2>1. channel' \in [Calls -> Seq(Answer)]
    BY <1>7, QueueEnds DEF Receive
  <2>2. pc' \in [Calls -> {"idle", "send", "wait", "cancel", "store", "returned"}]
        /\ result' \in [Calls -> Outcome]
    BY <1>7 DEF Receive, Settle, Outcome
  <2> QED BY <1>7, <2>1, <2>2 DEF Receive
<1>8. CASE Store(c)
  BY <1>8, FaultType DEF Store
<1> QED BY <1>1, <1>2, <1>3, <1>4, <1>5, <1>6, <1>7, <1>8 DEF CallStep

\* The steps of a worker keep the types.
LEMMA WorkerType ==
  ASSUME TypeOK, NEW w \in Workers, WorkerStep(w)
  PROVE  TypeOK'
<1> USE CallsAssumption DEF bus, queues, caller, TypeOK
<1>1. CASE TakeRequest(w)
  <2>1. Head(requests) \in Calls /\ requests' \in Seq(Calls)
    BY <1>1, QueueEnds DEF TakeRequest
  <2>2. worker' \in [Workers -> Worker \cup {Idle}]
    BY <1>1, <2>1 DEF TakeRequest, Worker
  <2> QED BY <1>1, <2>1, <2>2 DEF TakeRequest
<1>2. CASE Respond(w)
  <2>1. worker[w] \in Worker
    BY <1>2 DEF Respond, Idle
  <2>2. PICK ok \in BOOLEAN :
          /\ Publish(results, results', [call |-> worker[w].call, ok |-> ok])
          /\ answers' = answers \cup {[call |-> worker[w].call, ok |-> ok]}
    BY <1>2 DEF Respond
  <2>3. [call |-> worker[w].call, ok |-> ok] \in Answer
    BY <2>1 DEF Answer, Worker
  <2>4. results' \in Seq(Answer) /\ faults' \in 0 .. MaxFaults
    BY <2>2, <2>3, PublishType
  <2>5. worker' \in [Workers -> Worker \cup {Idle}]
    BY <1>2, <2>1 DEF Respond, Worker
  <2> QED BY <1>2, <2>2, <2>3, <2>4, <2>5 DEF Respond
<1>3. CASE AckRequest(w)
  BY <1>3 DEF AckRequest
<1>4. CASE LoseRequest(w)
  <2>1. worker[w] \in Worker
    BY <1>4 DEF LoseRequest, Idle
  <2>2. requests' \in Seq(Calls)
    BY <1>4, <2>1, QueueEnds DEF LoseRequest, Worker
  <2>3. worker' \in [Workers -> Worker \cup {Idle}]
    BY <1>4, <2>1 DEF LoseRequest, Worker
  <2> QED BY <1>4, <2>2, <2>3, FaultType DEF LoseRequest
<1>5. CASE CrashWorker(w)
  BY <1>5 DEF CrashWorker
<1> QED BY <1>1, <1>2, <1>3, <1>4, <1>5 DEF WorkerStep

\* Whoever takes a result holds what was the head of the queue.
LEMMA TakeType ==
  ASSUME TypeOK, NEW r \in Replicas, NEW at \in {"deliver", "done"}, Take(r, at)
  PROVE  /\ Head(results) \in Answer
         /\ results' \in Seq(Answer)
         /\ consumer' \in [Replicas -> Consumer \cup {Idle}]
<1>1. Head(results) \in Answer /\ results' \in Seq(Answer)
  BY QueueEnds DEF Take, TypeOK
<1>2. [pc |-> at, answer |-> Head(results), held |-> TRUE] \in Consumer
  BY <1>1 DEF Consumer
<1> QED BY <1>1, <1>2 DEF Take, TypeOK

\* The steps of a replica's consumer, and its crash, keep the types.
LEMMA ReplicaType ==
  ASSUME TypeOK, NEW r \in Replicas, ReplicaStep(r)
  PROVE  TypeOK'
<1> USE CallsAssumption DEF bus, queues, caller
<1>1. CASE MatchResult(r)
  BY <1>1, TakeType DEF MatchResult, Take, TypeOK
<1>2. CASE DropResult(r)
  BY <1>2, TakeType DEF DropResult, Take, TypeOK
<1>3. CASE Deliver(r)
  <2>1. consumer[r] \in Consumer
    BY <1>3 DEF Deliver, Idle, TypeOK
  <2>2. <<consumer[r].answer>> \in Seq(Answer)
    BY <2>1 DEF Consumer
  <2>3. channel' \in [Calls -> Seq(Answer)]
    BY <1>3, <2>2 DEF Deliver, TypeOK
  <2>4. consumer' \in [Replicas -> Consumer \cup {Idle}]
    BY <1>3, <2>1 DEF Deliver, Consumer, TypeOK
  <2> QED BY <1>3, <2>3, <2>4 DEF Deliver, TypeOK
<1>4. CASE AckResult(r)
  BY <1>4 DEF AckResult, TypeOK
<1>5. CASE LoseResult(r)
  <2>1. consumer[r] \in Consumer
    BY <1>5 DEF LoseResult, Idle, TypeOK
  <2>2. results' \in Seq(Answer)
    BY <1>5, <2>1, QueueEnds DEF LoseResult, Consumer, TypeOK
  <2>3. consumer' \in [Replicas -> Consumer \cup {Idle}]
    BY <1>5, <2>1 DEF LoseResult, Consumer, TypeOK
  <2> QED BY <1>5, <2>2, <2>3, FaultType DEF LoseResult, TypeOK
<1>6. CASE CrashReplica(r)
  <2>1. results' \in Seq(Answer)
    <3>1. CASE consumer[r].pc # "idle" /\ consumer[r].held
      <4>1. consumer[r].answer \in Answer
        BY <3>1 DEF TypeOK, Consumer, Idle
      <4> QED BY <1>6, <3>1, <4>1, QueueEnds DEF CrashReplica, TypeOK
    <3>2. CASE ~ (consumer[r].pc # "idle" /\ consumer[r].held)
      BY <1>6, <3>2 DEF CrashReplica, TypeOK
    <3> QED BY <3>1, <3>2
  <2>2. /\ pc' \in [Calls -> {"idle", "send", "wait", "cancel", "store", "returned"}]
        /\ result' \in [Calls -> Outcome]
        /\ channel' \in [Calls -> Seq(Answer)]
        /\ pending' \subseteq Calls
    BY <1>6 DEF CrashReplica, TypeOK, Outcome
  <2> QED BY <1>6, <2>1, <2>2, FaultType DEF CrashReplica, TypeOK
<1> QED BY <1>1, <1>2, <1>3, <1>4, <1>5, <1>6 DEF ReplicaStep

\* Every step keeps the types.
LEMMA TypeNext == TypeOK /\ Replies /\ [Next]_vars => TypeOK'
<1> SUFFICES ASSUME TypeOK, Replies, [Next]_vars PROVE TypeOK'
  OBVIOUS
<1>1. ASSUME NEW m \in Magnets, Expire(m) PROVE TypeOK'
  BY <1>1 DEF Expire, TypeOK, bus, queues, caller
<1>2. CASE UNCHANGED vars
  BY <1>2 DEF vars, TypeOK
<1> QED BY <1>1, <1>2, CallType, WorkerType, ReplicaType DEF Next

-----------------------------------------------------------------------------
(* The chance of a reply *)

\* Registering creates the chance; receiving, cancelling and failing give it up.
LEMMA CallChance ==
  ASSUME Inductive, NEW c \in Calls, CallStep(c), NEW d \in Calls
  PROVE  Chance(d)'
<1> USE CallsAssumption DEF Inductive, TypeOK
<1>0. Chance(d)
  BY DEF OneChance, Chance
<1>1. CASE CacheHit(c)
  BY <1>0, <1>1 DEF CacheHit, Settle, Chance, Slot, Carried, Filled, bus
<1>2. CASE Register(c)
  BY <1>0, <1>2 DEF Register, Chance, Slot, Carried, Filled
<1>3. CASE Send(c)
  BY <1>0, <1>3 DEF Send, Chance, Slot, Carried, Filled, bus
<1>4. CASE SendFails(c)
  BY <1>0, <1>4 DEF SendFails, Settle, Chance, Slot, Carried, Filled, bus
<1>5. CASE Timeout(c)
  BY <1>0, <1>5 DEF Timeout, Settle, Chance, Slot, Carried, Filled, bus
<1>6. CASE Cancel(c)
  BY <1>0, <1>6 DEF Cancel, Chance, Slot, Carried, Filled
<1>7. CASE Receive(c)
  BY <1>0, <1>7 DEF Receive, Settle, Chance, Slot, Carried, Filled, Replies
<1>8. CASE Store(c)
  BY <1>0, <1>8 DEF Store, Chance, Slot, Carried, Filled, bus
<1> QED BY <1>1, <1>2, <1>3, <1>4, <1>5, <1>6, <1>7, <1>8 DEF CallStep

\* Deliver hands over the chance that matching took from the map, a crash ends it.
LEMMA ReplicaChance ==
  ASSUME Inductive, NEW r \in Replicas, ReplicaStep(r), NEW d \in Calls
  PROVE  Chance(d)'
<1> USE CallsAssumption DEF Inductive, TypeOK
<1>0. Chance(d)
  BY DEF OneChance
<1>1. CASE MatchResult(r)
  <2>1. /\ consumer[r].pc = "idle" /\ consumer'[r].pc = "deliver"
        /\ consumer'[r].answer = Head(results)
        /\ \A s \in Replicas : s # r => consumer'[s] = consumer[s]
        /\ Home[Head(results).call] = r /\ Head(results).call \in pending
        /\ pending' = pending \ {Head(results).call}
        /\ UNCHANGED <<pc, channel>>
    BY <1>1 DEF MatchResult, Take, Registered, caller
  <2>2. Home[d] \in Replicas
    OBVIOUS
  <2>3. CASE Head(results).call = d
    BY <1>0, <2>1, <2>2, <2>3 DEF Chance, Slot, Carried, Filled
  <2>4. CASE Head(results).call # d
    BY <1>0, <2>1, <2>2, <2>4 DEF Chance, Slot, Carried, Filled
  <2> QED BY <2>3, <2>4
<1>2. CASE DropResult(r)
  BY <1>0, <1>2 DEF DropResult, Take, Chance, Slot, Carried, Filled, caller
<1>3. CASE Deliver(r)
  <2>1. /\ consumer[r].pc = "deliver" /\ consumer'[r].pc = "done"
        /\ \A s \in Replicas : s # r => consumer'[s] = consumer[s]
        /\ UNCHANGED <<pc, pending>>
        /\ consumer[r].answer.call # d => channel'[d] = channel[d]
        /\ consumer[r].answer.call = d => channel'[d] # <<>>
    BY <1>3 DEF Deliver, caller
  <2>2. Home[d] \in Replicas
    OBVIOUS
  <2>3. CASE consumer[r].answer.call = d /\ Home[d] = r
    BY <1>0, <2>1, <2>3 DEF Chance, Slot, Carried, Filled
  <2>4. CASE consumer[r].answer.call # d
    BY <1>0, <2>1, <2>2, <2>4 DEF Chance, Slot, Carried, Filled
  <2>5. Home[consumer[r].answer.call] = r
    BY <2>1 DEF Replies
  <2> QED BY <2>3, <2>4, <2>5
<1>4. CASE AckResult(r)
  BY <1>0, <1>4 DEF AckResult, Chance, Slot, Carried, Filled, caller, bus, Idle
<1>5. CASE LoseResult(r)
  BY <1>0, <1>5 DEF LoseResult, Chance, Slot, Carried, Filled, caller, bus
<1>6. CASE CrashReplica(r)
  BY <1>0, <1>6 DEF CrashReplica, Chance, Slot, Carried, Filled, Idle
<1> QED BY <1>1, <1>2, <1>3, <1>4, <1>5, <1>6 DEF ReplicaStep

\* Every step keeps OneChance.
LEMMA ChanceNext == Inductive /\ [Next]_vars => OneChance'
<1> SUFFICES ASSUME Inductive, [Next]_vars, NEW d \in Calls PROVE Chance(d)'
  BY DEF OneChance
<1>0. Chance(d)
  BY DEF Inductive, OneChance
<1>1. ASSUME NEW m \in Magnets, Expire(m) PROVE Chance(d)'
  BY <1>0, <1>1 DEF Expire, bus, caller, Chance, Slot, Carried, Filled
<1>2. ASSUME NEW w \in Workers, WorkerStep(w) PROVE Chance(d)'
  BY <1>0, <1>2 DEF WorkerStep, TakeRequest, Respond, AckRequest, LoseRequest,
       CrashWorker, bus, caller, Chance, Slot, Carried, Filled
<1>3. CASE UNCHANGED vars
  BY <1>0, <1>3 DEF vars, Chance, Slot, Carried, Filled
<1> QED BY <1>1, <1>2, <1>3, CallChance, ReplicaChance DEF Next

-----------------------------------------------------------------------------
(* Where replies and results come from *)

\* A magnet that was resolved stays so: answers are never forgotten.
LEMMA ResolvedStays ==
  ASSUME answers \subseteq answers', NEW m, Promise!Resolved(m)
  PROVE  Promise!Resolved(m)'
BY DEF Promise!Resolved

\* A call adds nothing to what is in flight.
LEMMA CallReplies ==
  ASSUME Inductive, NEW c \in Calls, CallStep(c)
  PROVE  Replies'
<1> USE CallsAssumption DEF Inductive, TypeOK, bus, queues, caller
<1>1. UNCHANGED <<results, consumer, answers>>
  BY DEF CallStep, CacheHit, Register, Send, SendFails, Timeout, Cancel, Receive, Store
<1>2. ASSUME NEW d \in Calls, Filled(d)' PROVE channel'[d] = channel[d]
  <2>1. CASE Receive(c)
    <3>1. channel[c] \in Seq(Answer) /\ Len(channel[c]) = 1
      BY <2>1 DEF Receive, Replies, Filled
    <3>2. Tail(channel[c]) = <<>>
      BY <3>1, SingletonTail
    <3> QED BY <1>2, <2>1, <3>2 DEF Receive, Filled
  <2>2. CASE ~ Receive(c)
    BY <2>2 DEF CallStep, CacheHit, Register, Send, SendFails, Timeout, Cancel, Store
  <2> QED BY <2>1, <2>2
<1>3. ASSUME NEW d \in Calls, Filled(d)'
      PROVE  /\ Len(channel'[d]) = 1
             /\ Head(channel'[d]).call = d
             /\ Head(channel'[d]) \in answers
  BY <1>2, <1>3 DEF Filled, Replies
<1> QED BY <1>1, <1>3 DEF Replies

\* What a worker publishes is its answer.
LEMMA WorkerReplies ==
  ASSUME Inductive, NEW w \in Workers, WorkerStep(w)
  PROVE  Replies' /\ answers \subseteq answers'
<1> USE CallsAssumption DEF Inductive, TypeOK, bus, queues, caller
<1>1. CASE Respond(w)
  <2>1. PICK ok \in BOOLEAN :
          /\ Publish(results, results', [call |-> worker[w].call, ok |-> ok])
          /\ answers' = answers \cup {[call |-> worker[w].call, ok |-> ok]}
    BY <1>1 DEF Respond
  <2>2. [call |-> worker[w].call, ok |-> ok] \in Answer
    BY <1>1 DEF Respond, Answer, Worker, Idle
  <2>3. \A i \in 1 .. Len(results') : results'[i] \in answers'
    <3> DEFINE a == [call |-> worker[w].call, ok |-> ok]
    <3>1. \A i \in 1 .. Len(results') :
            results'[i] = a \/ \E j \in 1 .. Len(results) : results'[i] = results[j]
      <4> HIDE DEF a
      <4> QED BY <2>1, <2>2, PublishType DEF a
    <3>2. \A j \in 1 .. Len(results) : results[j] \in answers
      BY DEF Replies
    <3> HIDE DEF a
    <3>3. a \in answers' /\ answers \subseteq answers'
      BY <2>1 DEF a
    <3> QED BY <3>1, <3>2, <3>3
  <2>4. UNCHANGED <<consumer, channel>>
    BY <1>1 DEF Respond
  <2> QED BY <2>1, <2>3, <2>4 DEF Replies, Filled
<1>2. CASE ~ Respond(w)
  BY <1>2 DEF WorkerStep, TakeRequest, AckRequest, LoseRequest, CrashWorker, Replies, Filled
<1> QED BY <1>1, <1>2

\* A replica hands results on as they are, to the call they are for.
LEMMA ReplicaReplies ==
  ASSUME Inductive, NEW r \in Replicas, ReplicaStep(r)
  PROVE  Replies'
<1> USE CallsAssumption DEF Inductive, TypeOK, bus, queues, caller
<1>1. ASSUME NEW at \in {"deliver", "done"}, Take(r, at),
             at = "deliver" => Head(results).call \in Registered(r)
      PROVE  Replies'
  <2>1. /\ Head(results) \in answers
        /\ \A i \in 1 .. Len(results') : results'[i] \in answers
    BY <1>1, QueueEnds DEF Take, Replies
  <2>2. /\ consumer'[r] = [pc |-> at, answer |-> Head(results), held |-> TRUE]
        /\ \A s \in Replicas : s # r => consumer'[s] = consumer[s]
        /\ UNCHANGED <<channel, answers>>
    BY <1>1 DEF Take
  <2>3. at = "deliver" => Home[Head(results).call] = r
    BY <1>1 DEF Registered
  <2>4. \A s \in Replicas :
          /\ consumer'[s].pc # "idle" => consumer'[s].answer \in answers'
          /\ consumer'[s].pc = "deliver" => Home[consumer'[s].answer.call] = s
    <3>1. consumer'[r].pc = at /\ consumer'[r].answer = Head(results)
      BY <2>2
    <3>2. answers' = answers
      BY <2>2
    <3> QED BY <2>1, <2>2, <2>3, <3>1, <3>2 DEF Replies
  <2> QED BY <2>1, <2>2, <2>4 DEF Replies, Filled
<1>2. CASE MatchResult(r)
  BY <1>1, <1>2 DEF MatchResult
<1>3. CASE DropResult(r)
  BY <1>1, <1>3 DEF DropResult
<1>4. CASE Deliver(r)
  <2> DEFINE c == consumer[r].answer.call
  <2>1. /\ consumer[r].answer \in answers /\ c \in Calls
        /\ UNCHANGED <<results, answers>>
    BY <1>4 DEF Deliver, Replies, Answer
  <2>2. \A s \in Replicas :
          /\ consumer'[s].pc # "idle" => consumer'[s].answer \in answers'
          /\ consumer'[s].pc = "deliver" => Home[consumer'[s].answer.call] = s
    BY <1>4, <2>1 DEF Deliver, Replies
  <2>3. \A d \in Calls : \/ channel'[d] = channel[d]
                         \/ d = c /\ channel'[d] = <<consumer[r].answer>>
    BY <1>4 DEF Deliver
  <2>4. /\ Len(<<consumer[r].answer>>) = 1
        /\ Head(<<consumer[r].answer>>) = consumer[r].answer
    OBVIOUS
  <2>5. ASSUME NEW d \in Calls, Filled(d)'
        PROVE  /\ Len(channel'[d]) = 1
               /\ Head(channel'[d]).call = d
               /\ Head(channel'[d]) \in answers'
    BY <2>1, <2>3, <2>4, <2>5 DEF Replies, Filled
  <2> QED BY <2>1, <2>2, <2>5 DEF Replies
<1>5. CASE AckResult(r)
  BY <1>5 DEF AckResult, Replies, Filled, Idle
<1>6. ASSUME NEW a \in answers, results' = <<a>> \o results
      PROVE  \A i \in 1 .. Len(results') : results'[i] \in answers
  BY <1>6, QueueEnds DEF Replies
<1>7. CASE LoseResult(r)
  <2>1. \A i \in 1 .. Len(results') : results'[i] \in answers'
    BY <1>6, <1>7 DEF LoseResult, Replies
  <2> QED BY <1>7, <2>1 DEF LoseResult, Replies, Filled
<1>8. CASE CrashReplica(r)
  <2>1. \A i \in 1 .. Len(results') : results'[i] \in answers'
    BY <1>6, <1>8 DEF CrashReplica, Replies
  <2>2. \A d \in Calls : channel'[d] = channel[d] \/ channel'[d] = <<>>
    BY <1>8 DEF CrashReplica
  <2> QED BY <1>8, <2>1, <2>2 DEF CrashReplica, Replies, Filled, Idle
<1> QED BY <1>2, <1>3, <1>4, <1>5, <1>7, <1>8 DEF ReplicaStep

\* A call settles on what it was told.
LEMMA CallResults ==
  ASSUME Inductive, NEW c \in Calls, CallStep(c)
  PROVE  Results'
<1> USE CallsAssumption DEF Inductive, TypeOK, bus, queues, caller
<1>1. \A m : Promise!Resolved(m)' <=> Promise!Resolved(m)
  BY DEF Promise!Resolved, CallStep, CacheHit, Register, Send, SendFails, Timeout,
         Cancel, Receive, Store
<1> DEFINE Settled(d) == /\ pc[d] \in {"idle", "send", "wait"} <=> result[d] = "none"
                         /\ pc[d] = "cancel" => result[d] \in {"timeout", "sendError"}
                         /\ pc[d] = "store" => result[d] = "metadata"
                         /\ result[d] = "metadata" => Promise!Resolved(Magnet[d])
<1>2. ASSUME NEW d \in Calls PROVE Settled(d)'
  <2>1. Settled(d)
    BY DEF Results
  <2>2. CASE CacheHit(c)
    BY <1>1, <2>1, <2>2 DEF CacheHit, Settle, Results
  <2>3. CASE Register(c)
    BY <1>1, <2>1, <2>3 DEF Register
  <2>4. CASE Send(c)
    BY <1>1, <2>1, <2>4 DEF Send
  <2>5. CASE SendFails(c)
    BY <1>1, <2>1, <2>5 DEF SendFails, Settle
  <2>6. CASE Timeout(c)
    BY <1>1, <2>1, <2>6 DEF Timeout, Settle
  <2>7. CASE Cancel(c)
    BY <1>1, <2>1, <2>7 DEF Cancel
  <2>8. CASE Receive(c)
    <3>1. Head(channel[c]).ok => Promise!Resolved(Magnet[c])
      BY <2>8 DEF Receive, Replies, Filled, Promise!Resolved
    <3> QED BY <1>1, <2>1, <2>8, <3>1 DEF Receive, Settle
  <2>9. CASE Store(c)
    BY <1>1, <2>1, <2>9 DEF Store
  <2> QED BY <2>2, <2>3, <2>4, <2>5, <2>6, <2>7, <2>8, <2>9 DEF CallStep
<1>3. \A m \in cache' : Promise!Resolved(m)'
  <2>1. CASE Store(c)
    BY <1>1, <2>1 DEF Store, Results
  <2>2. CASE ~ Store(c)
    <3>1. cache' = cache
      BY <2>2 DEF CallStep, CacheHit, Register, Send, SendFails, Timeout, Cancel, Receive
    <3> QED BY <1>1, <3>1 DEF Results
  <2> QED BY <2>1, <2>2
<1> QED BY <1>2, <1>3 DEF Results

\* Workers and replicas settle nothing, a crash apart.
LEMMA OthersResults ==
  ASSUME Inductive,
         \/ \E w \in Workers : WorkerStep(w)
         \/ \E r \in Replicas : ReplicaStep(r)
         \/ \E m \in Magnets : Expire(m)
         \/ UNCHANGED vars
  PROVE  Results'
<1> USE CallsAssumption DEF Inductive, TypeOK, bus, queues, caller
<1>1. answers \subseteq answers'
  BY WorkerReplies DEF ReplicaStep, MatchResult, DropResult, Take, Deliver, AckResult,
       LoseResult, CrashReplica, Expire, vars
<1>2. \A m : Promise!Resolved(m) => Promise!Resolved(m)'
  BY <1>1, ResolvedStays
<1>3. cache' \subseteq cache
  BY DEF WorkerStep, TakeRequest, Respond, AckRequest, LoseRequest, CrashWorker,
         ReplicaStep, MatchResult, DropResult, Take, Deliver, AckResult,
         LoseResult, CrashReplica, Expire, vars
<1>4. CASE UNCHANGED <<pc, result>>
  BY <1>2, <1>3, <1>4 DEF Results
<1>5. ASSUME NEW r \in Replicas, CrashReplica(r) PROVE Results'
  <2>1. \A d \in Calls :
          \/ pc'[d] = pc[d] /\ result'[d] = result[d]
          \/ pc'[d] = "returned" /\ result'[d] = "crashed"
    BY <1>5 DEF CrashReplica
  <2> QED BY <1>2, <1>3, <2>1 DEF Results
<1>6. UNCHANGED <<pc, result>> \/ \E r \in Replicas : CrashReplica(r)
  BY DEF WorkerStep, TakeRequest, Respond, AckRequest, LoseRequest, CrashWorker,
         ReplicaStep, MatchResult, DropResult, Take, Deliver, AckResult,
         LoseResult, Expire, vars
<1> QED BY <1>4, <1>5, <1>6

-----------------------------------------------------------------------------
(* Theorems *)

\* Every step keeps the invariant.
LEMMA InductiveNext == Inductive /\ [Next]_vars => Inductive'
<1> SUFFICES ASSUME Inductive, [Next]_vars PROVE Inductive'
  OBVIOUS
<1>1. TypeOK'
  BY TypeNext DEF Inductive
<1>2. OneChance'
  BY ChanceNext
<1>3. Replies'
  <2>1. ASSUME NEW m \in Magnets, Expire(m) PROVE Replies'
    BY <2>1 DEF Expire, Inductive, Replies, Filled, bus, queues
  <2>2. CASE UNCHANGED vars
    BY <2>2 DEF vars, Inductive, Replies, Filled
  <2> QED BY <2>1, <2>2, CallReplies, WorkerReplies, ReplicaReplies DEF Next
<1>4. Results'
  BY CallResults, OthersResults DEF Next
<1> QED BY <1>1, <1>2, <1>3, <1>4 DEF Inductive

\* The inductive invariant.
THEOREM InductiveInvariant == Spec => []Inductive
BY InitInductive, InductiveNext, PTL DEF Spec

\* The type invariant.
THEOREM TypeCorrect == Spec => []TypeOK
BY InductiveInvariant, PTL DEF Inductive

\* A call that waits has one chance of a reply, never two and never none, however
\* many replicas, duplicates, redeliveries and crashes there are.
THEOREM ChanceIsUnique == Spec => []OneChance
BY InductiveInvariant, PTL DEF Inductive

\* A step of the module is a step of ParseCalls, or changes nothing in its view.
LEMMA PromiseNext ==
  ASSUME Inductive, Inductive', [Next]_vars
  PROVE  [Promise!Next]_<<[c \in Calls |-> IF pc[c] = "returned" THEN result[c] ELSE "none"],
                          answers>>
<1> DEFINE outcome == [c \in Calls |-> IF pc[c] = "returned" THEN result[c] ELSE "none"]
<1> USE CallsAssumption DEF Inductive, TypeOK, bus, queues, caller
<1>1. ASSUME NEW w \in Workers, WorkerStep(w)
      PROVE  Promise!Next \/ UNCHANGED <<outcome, answers>>
  <2>1. CASE Respond(w)
    <3>1. PICK ok \in BOOLEAN : answers' = answers \cup {[call |-> worker[w].call, ok |-> ok]}
      BY <2>1 DEF Respond
    <3>2. [call |-> worker[w].call, ok |-> ok] \in Promise!Answer
      BY <2>1 DEF Respond, Promise!Answer, Worker, Idle
    <3>3. UNCHANGED outcome
      BY <2>1 DEF Respond
    <3> QED BY <3>1, <3>2, <3>3 DEF Promise!Next, Promise!Respond
  <2>2. CASE ~ Respond(w)
    BY <1>1, <2>2 DEF WorkerStep, TakeRequest, AckRequest, LoseRequest, CrashWorker
  <2> QED BY <2>1, <2>2
<1>2. ASSUME NEW r \in Replicas, ReplicaStep(r)
      PROVE  Promise!Next \/ UNCHANGED <<outcome, answers>>
  <2>1. CASE CrashReplica(r)
    <3> DEFINE gone == {c \in Calls : Home[c] = r /\ pc[c] \notin {"idle", "returned"}}
    <3>1. /\ pc' = [c \in Calls |-> IF c \in gone THEN "returned" ELSE pc[c]]
          /\ result' = [c \in Calls |-> IF c \in gone THEN "crashed" ELSE result[c]]
          /\ UNCHANGED answers
      BY <2>1 DEF CrashReplica
    <3>2. \A c \in Calls : pc[c] = "returned" => result[c] # "none"
      BY DEF Results
    <3>3. outcome' = [c \in Calls |-> IF c \in gone /\ outcome[c] = "none"
                                     THEN "crashed" ELSE outcome[c]]
      BY <3>1, <3>2
    <3> QED BY <3>1, <3>3 DEF Promise!Next, Promise!Crash
  <2>2. CASE ~ CrashReplica(r)
    BY <1>2, <2>2 DEF ReplicaStep, MatchResult, DropResult, Take, Deliver, AckResult, LoseResult
  <2> QED BY <2>1, <2>2
<1>3. ASSUME NEW c \in Calls, CallStep(c)
      PROVE  Promise!Next \/ UNCHANGED <<outcome, answers>>
  <2>1. /\ UNCHANGED answers
        /\ \A d \in Calls : d # c => pc'[d] = pc[d] /\ result'[d] = result[d]
    BY <1>3 DEF CallStep, CacheHit, Register, Send, SendFails, Timeout, Cancel, Receive,
         Store, Settle
  <2>2. CASE pc[c] = "returned" \/ pc'[c] # "returned"
    <3>1. pc[c] # "returned"
      BY <1>3 DEF CallStep, CacheHit, Register, Send, SendFails, Timeout, Cancel, Receive, Store
    <3>2. UNCHANGED outcome
      BY <2>1, <2>2, <3>1
    <3> QED BY <2>1, <3>2
  <2>3. CASE pc[c] # "returned" /\ pc'[c] = "returned"
    <3>1. outcome[c] = "none" /\ outcome' = [outcome EXCEPT ![c] = result'[c]]
      BY <2>1, <2>3
    <3>2. result'[c] \in Promise!Outcome \ {"none"}
      BY <2>3 DEF Results, Outcome, Promise!Outcome
    <3>3. result'[c] = "metadata" => Promise!Resolved(Magnet[c])
      BY <2>1 DEF Results, Promise!Resolved
    <3>4. result'[c] = "failed" => [call |-> c, ok |-> FALSE] \in answers
      <4>1. result'[c] = "failed" => Receive(c) /\ ~ Head(channel[c]).ok
        BY <1>3, <2>3 DEF CallStep, CacheHit, Register, Send, SendFails, Timeout, Cancel,
             Receive, Store, Settle, Results
      <4>2. ASSUME Receive(c), ~ Head(channel[c]).ok
            PROVE  Head(channel[c]) = [call |-> c, ok |-> FALSE]
        <5>1. Head(channel[c]) \in Answer /\ Head(channel[c]).call = c
          BY <4>2 DEF Receive, Replies, Filled
        <5> QED BY <4>2, <5>1 DEF Answer
      <4> QED BY <4>1, <4>2 DEF Receive, Replies, Filled
    <3> QED BY <2>1, <3>1, <3>2, <3>3, <3>4 DEF Promise!Next, Promise!Return
  <2> QED BY <2>2, <2>3
<1>4. ASSUME NEW m \in Magnets, Expire(m) PROVE UNCHANGED <<outcome, answers>>
  BY <1>4 DEF Expire
<1>5. CASE UNCHANGED vars
  BY <1>5 DEF vars
<1> QED BY <1>1, <1>2, <1>3, <1>4, <1>5 DEF Next

\* parseViaWorker and fetchTorrentMetadata keep the promise of ParseCalls.
THEOREM Implements == Spec => KeepsPromise
<1>1. Init => Promise!Init
  BY DEF Init, Promise!Init
<1>2. Spec => []Inductive
  BY InductiveInvariant
<1> QED BY <1>1, <1>2, PromiseNext, PTL DEF Spec, KeepsPromise, Promise!Spec

=============================================================================

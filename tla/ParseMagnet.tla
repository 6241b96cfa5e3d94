---------------------------- MODULE ParseMagnet -----------------------------
(***************************************************************************)
(* Resolving a magnet by a worker: parseViaWorker registers a request at   *)
(* the ParseMagnetBus of its server replica, publishes it on               *)
(* parse-magnet-jobs and waits. A worker publishes the answer on           *)
(* parse-magnet-results, from where the results consumer of any replica    *)
(* may take it and hand it to its own bus.                                 *)
(***************************************************************************)
EXTENDS Naturals, Sequences

CONSTANTS
  Calls,    \* calls of parseViaWorker or fetchTorrentMetadata, and their request ids
  Fetches,  \* those of fetchTorrentMetadata, which look into the cache first
  Magnets, Magnet, \* Magnet[c] is the magnet of call c
  Replicas, Home,  \* Home[c] is the server replica that runs call c
  Workers,  \* consumers of parse-magnet-jobs
  Faults,   \* kinds of faults: send, lost, duplicated, connection, crash, redis
  MaxFaults \* bound on the number of faults

ASSUME CallsAssumption == /\ Fetches \subseteq Calls
                          /\ Magnet \in [Calls -> Magnets]
                          /\ Home \in [Calls -> Replicas]
ASSUME FaultsAssumption == MaxFaults \in Nat

VARIABLES
  pc,       \* where call c is
  result,   \* the outcome it has settled on
  pending,  \* the registrations in the maps of all buses
  channel,  \* channel[c]: the buffered channel of call c
  requests, \* parse-magnet-jobs
  results,  \* parse-magnet-results
  worker,   \* local state of the workers
  consumer, \* local state of the results consumers, one in each replica
  cache,    \* magnets whose metadata is in Redis
  answers,  \* history: the answers workers have given
  faults    \* the number of faults so far

caller == <<pc, result>>
bus == <<pending, channel>>
queues == <<requests, results>>
vars == <<pc, result, pending, channel, requests, results, worker, consumer,
          cache, answers, faults>>

Answer == [call : Calls, ok : BOOLEAN]
Outcome == {"none", "metadata", "failed", "timeout", "sendError", "crashed"}

Idle == [pc |-> "idle"]
Worker == [pc : {"parsing", "done"}, call : Calls, held : BOOLEAN]
Consumer == [pc : {"deliver", "done"}, answer : Answer, held : BOOLEAN]

TypeOK ==
  /\ pc \in [Calls -> {"idle", "send", "wait", "cancel", "store", "returned"}]
  /\ result \in [Calls -> Outcome]
  /\ pending \subseteq Calls
  /\ channel \in [Calls -> Seq(Answer)]
  /\ requests \in Seq(Calls)
  /\ results \in Seq(Answer)
  /\ worker \in [Workers -> Worker \cup {Idle}]
  /\ consumer \in [Replicas -> Consumer \cup {Idle}]
  /\ cache \subseteq Magnets
  /\ answers \subseteq Answer
  /\ faults \in 0 .. MaxFaults

Init ==
  /\ pc = [c \in Calls |-> "idle"]
  /\ result = [c \in Calls |-> "none"]
  /\ pending = {}
  /\ channel = [c \in Calls |-> <<>>]
  /\ requests = <<>>
  /\ results = <<>>
  /\ worker = [w \in Workers |-> Idle]
  /\ consumer = [r \in Replicas |-> Idle]
  /\ cache = {}
  /\ answers = {}
  /\ faults = 0

-----------------------------------------------------------------------------
(* Faults and the broker *)

Fault(kind) == /\ kind \in Faults
               /\ faults < MaxFaults
               /\ faults' = faults + 1

\* Without publisher confirms a publication may be lost; Send may repeat one that
\* the broker has taken.
Publish(q, next, m) ==
  \/ next = Append(q, m) /\ UNCHANGED faults
  \/ next = q /\ Fault("lost")
  \/ next = q \o <<m, m>> /\ Fault("duplicated")

-----------------------------------------------------------------------------
(* The caller *)

Settle(c, at, outcome) == /\ pc' = [pc EXCEPT ![c] = at]
                          /\ result' = [result EXCEPT ![c] = outcome]

\* fetchTorrentMetadata finds the magnet in the cache.
CacheHit(c) ==
  /\ pc[c] = "idle" /\ c \in Fetches
  /\ Magnet[c] \in cache
  /\ Settle(c, "returned", "metadata")
  /\ UNCHANGED <<bus, queues, worker, consumer, cache, answers, faults>>

\* The call registers a fresh request id; a fetch does so after a miss, or an
\* error of the cache.
Register(c) ==
  /\ pc[c] = "idle"
  /\ \/ (c \in Fetches => Magnet[c] \notin cache) /\ UNCHANGED faults
     \/ c \in Fetches /\ Magnet[c] \in cache /\ Fault("redis")
  /\ pc' = [pc EXCEPT ![c] = "send"]
  /\ pending' = pending \cup {c}
  /\ UNCHANGED <<result, channel, queues, worker, consumer, cache, answers>>

Send(c) ==
  /\ pc[c] = "send"
  /\ Publish(requests, requests', c)
  /\ pc' = [pc EXCEPT ![c] = "wait"]
  /\ UNCHANGED <<result, bus, results, worker, consumer, cache, answers>>

\* Send gave up; its last attempt may have reached the broker all the same.
SendFails(c) ==
  /\ pc[c] = "send"
  /\ Fault("send")
  /\ requests' \in {requests, Append(requests, c)}
  /\ Settle(c, "cancel", "sendError")
  /\ UNCHANGED <<bus, results, worker, consumer, cache, answers>>

\* Mutant of Timeout: the deadline holds for Send and not for Wait.
TimeoutOfSend(c) ==
  /\ pc[c] = "send"
  /\ Settle(c, "cancel", "timeout")
  /\ UNCHANGED <<bus, queues, worker, consumer, cache, answers, faults>>

\* Wait chooses the deadline, also if a reply is there by now.
Timeout(c) ==
  /\ pc[c] = "wait"
  /\ Settle(c, "cancel", "timeout")
  /\ UNCHANGED <<bus, queues, worker, consumer, cache, answers, faults>>

Cancel(c) ==
  /\ pc[c] = "cancel"
  /\ pending' = pending \ {c}
  /\ pc' = [pc EXCEPT ![c] = "returned"]
  /\ UNCHANGED <<result, channel, queues, worker, consumer, cache, answers, faults>>

\* Wait chooses the reply. Metadata is cached before the call returns.
Receive(c) ==
  /\ pc[c] = "wait"
  /\ channel[c] # <<>>
  /\ IF Head(channel[c]).ok THEN Settle(c, "store", "metadata")
                            ELSE Settle(c, "returned", "failed")
  /\ channel' = [channel EXCEPT ![c] = Tail(@)]
  /\ UNCHANGED <<pending, queues, worker, consumer, cache, answers, faults>>

\* A failure of the cache is only logged.
Store(c) ==
  /\ pc[c] = "store"
  /\ pc' = [pc EXCEPT ![c] = "returned"]
  /\ \/ cache' = cache \cup {Magnet[c]} /\ UNCHANGED faults
     \/ UNCHANGED cache /\ Fault("redis")
  /\ UNCHANGED <<result, bus, queues, worker, consumer, answers>>

\* The metadata's time to live passes.
Expire(m) ==
  /\ m \in cache
  /\ cache' = cache \ {m}
  /\ UNCHANGED <<caller, bus, queues, worker, consumer, answers, faults>>

-----------------------------------------------------------------------------
(* The worker: ParseMagnetHandler *)

TakeRequest(w) ==
  /\ worker[w] = Idle
  /\ requests # <<>>
  /\ worker' = [worker EXCEPT ![w] = [pc |-> "parsing", call |-> Head(requests),
                                      held |-> TRUE]]
  /\ requests' = Tail(requests)
  /\ UNCHANGED <<caller, bus, results, consumer, cache, answers, faults>>

\* Mutant of Respond: the answer carries no request id.
RespondWithoutId(w) ==
  /\ worker[w].pc = "parsing"
  /\ \E ok \in BOOLEAN : Publish(results, results', [call |-> "", ok |-> ok])
  /\ worker' = [worker EXCEPT ![w].pc = "done"]
  /\ UNCHANGED <<caller, bus, requests, consumer, cache, answers>>

\* The client resolves the magnet, or fails; both are published, and an error of
\* the publication is only logged.
Respond(w) ==
  /\ worker[w].pc = "parsing"
  /\ \E ok \in BOOLEAN :
       LET answer == [call |-> worker[w].call, ok |-> ok]
       IN /\ Publish(results, results', answer)
          /\ answers' = answers \cup {answer}
  /\ worker' = [worker EXCEPT ![w].pc = "done"]
  /\ UNCHANGED <<caller, bus, requests, consumer, cache>>

AckRequest(w) ==
  /\ worker[w].pc = "done"
  /\ worker' = [worker EXCEPT ![w] = Idle]
  /\ UNCHANGED <<caller, bus, queues, consumer, cache, answers, faults>>

\* The connection is lost: the broker returns the request to its queue.
LoseRequest(w) ==
  /\ worker[w].pc # "idle" /\ worker[w].held
  /\ Fault("connection")
  /\ worker' = [worker EXCEPT ![w].held = FALSE]
  /\ requests' = <<worker[w].call>> \o requests
  /\ UNCHANGED <<caller, bus, results, consumer, cache, answers>>

\* A crash is a lost connection that the handler does not survive.
CrashWorker(w) ==
  /\ worker[w].pc # "idle" /\ ~ worker[w].held
  /\ worker' = [worker EXCEPT ![w] = Idle]
  /\ UNCHANGED <<caller, bus, queues, consumer, cache, answers, faults>>

-----------------------------------------------------------------------------
(* The results consumer: ParseMagnetResultsConsumer and Deliver *)

Take(r, at) ==
  /\ consumer[r].pc = "idle"
  /\ results # <<>>
  /\ consumer' = [consumer EXCEPT ![r] = [pc |-> at, answer |-> Head(results),
                                          held |-> TRUE]]
  /\ results' = Tail(results)
  /\ UNCHANGED <<caller, channel, requests, worker, cache, answers, faults>>

\* The calls that are registered at the bus of a replica.
Registered(r) == {c \in pending : Home[c] = r}

\* Mutant of MatchResult: the registration stays.
MatchAndKeep(r) ==
  /\ Take(r, "deliver")
  /\ Head(results).call \in Registered(r)
  /\ UNCHANGED pending

\* Deliver takes the registration of the request out of the map, under the lock.
MatchResult(r) ==
  /\ Take(r, "deliver")
  /\ Head(results).call \in Registered(r)
  /\ pending' = pending \ {Head(results).call}

\* Nobody waits at this replica: the result is dropped, and acknowledged.
DropResult(r) ==
  /\ Take(r, "done")
  /\ Head(results).call \notin Registered(r)
  /\ UNCHANGED pending

\* Mutant of Deliver: the result goes to a caller that waits, whoever it is.
DeliverToAnyone(r) ==
  /\ consumer[r].pc = "deliver"
  /\ \E c \in Calls : /\ pc[c] = "wait" /\ Home[c] = r
                      /\ channel' = [channel EXCEPT ![c] = <<consumer[r].answer>>]
  /\ consumer' = [consumer EXCEPT ![r].pc = "done"]
  /\ UNCHANGED <<caller, pending, queues, worker, cache, answers, faults>>

\* The send into the channel of capacity 1, which never blocks.
Deliver(r) ==
  /\ consumer[r].pc = "deliver"
  /\ LET c == consumer[r].answer.call
     IN channel' = IF channel[c] = <<>>
                   THEN [channel EXCEPT ![c] = <<consumer[r].answer>>]
                   ELSE channel
  /\ consumer' = [consumer EXCEPT ![r].pc = "done"]
  /\ UNCHANGED <<caller, pending, queues, worker, cache, answers, faults>>

AckResult(r) ==
  /\ consumer[r].pc = "done"
  /\ consumer' = [consumer EXCEPT ![r] = Idle]
  /\ UNCHANGED <<caller, bus, queues, worker, cache, answers, faults>>

\* The connection is lost while the handler goes on.
LoseResult(r) ==
  /\ consumer[r].pc # "idle" /\ consumer[r].held
  /\ Fault("connection")
  /\ consumer' = [consumer EXCEPT ![r].held = FALSE]
  /\ results' = <<consumer[r].answer>> \o results
  /\ UNCHANGED <<caller, bus, requests, worker, cache, answers>>

\* The replica crashes: its calls and its bus are gone, an unacknowledged result
\* returns to the queue.
CrashReplica(r) ==
  /\ Fault("crash")
  /\ LET gone == {c \in Calls : Home[c] = r /\ pc[c] \notin {"idle", "returned"}}
     IN /\ pc' = [c \in Calls |-> IF c \in gone THEN "returned" ELSE pc[c]]
        /\ result' = [c \in Calls |-> IF c \in gone THEN "crashed" ELSE result[c]]
        /\ pending' = pending \ gone
        /\ channel' = [c \in Calls |-> IF Home[c] = r THEN <<>> ELSE channel[c]]
  /\ results' = IF consumer[r].pc # "idle" /\ consumer[r].held
                THEN <<consumer[r].answer>> \o results
                ELSE results
  /\ consumer' = [consumer EXCEPT ![r] = Idle]
  /\ UNCHANGED <<requests, worker, cache, answers>>

-----------------------------------------------------------------------------

CallStep(c) ==
  \/ CacheHit(c) \/ Register(c) \/ Send(c) \/ SendFails(c)
  \/ Timeout(c) \/ Cancel(c) \/ Receive(c) \/ Store(c)

WorkerStep(w) ==
  TakeRequest(w) \/ Respond(w) \/ AckRequest(w) \/ LoseRequest(w) \/ CrashWorker(w)

ReplicaStep(r) ==
  \/ MatchResult(r) \/ DropResult(r) \/ Deliver(r) \/ AckResult(r)
  \/ LoseResult(r) \/ CrashReplica(r)

Next ==
  \/ \E c \in Calls : CallStep(c)
  \/ \E m \in Magnets : Expire(m)
  \/ \E w \in Workers : WorkerStep(w)
  \/ \E r \in Replicas : ReplicaStep(r)

Spec == Init /\ [][Next]_vars

-----------------------------------------------------------------------------
(* Safety *)

\* The three places where the one chance of a call to get a reply can be: its
\* registration, the hands of its replica's consumer, its channel.
Slot(c) == c \in pending
Carried(c) == /\ consumer[Home[c]].pc = "deliver"
              /\ consumer[Home[c]].answer.call = c
Filled(c) == channel[c] # <<>>

\* However often a request is delivered to workers and its answers to replicas, a
\* call that waits has one chance to get a reply, never two and never none: Deliver
\* finds its channel empty, and what its own replica takes while it waits reaches
\* it. Nothing is left in the map once the call has returned.
Chance(c) ==
  /\ ~ (Slot(c) /\ Carried(c)) /\ ~ (Slot(c) /\ Filled(c)) /\ ~ (Carried(c) /\ Filled(c))
  /\ pc[c] \in {"send", "wait"} => Slot(c) \/ Carried(c) \/ Filled(c)
  /\ pc[c] \in {"idle", "store", "returned"} => ~ Slot(c)
  /\ pc[c] = "idle" => ~ Carried(c) /\ ~ Filled(c)

OneChance == \A c \in Calls : Chance(c)

\* Every caller gets one outcome, and metadata only of the magnet it asked for,
\* resolved by a worker.
Promise == INSTANCE ParseCalls
             WITH outcome <- [c \in Calls |-> IF pc[c] = "returned" THEN result[c] ELSE "none"]

KeepsPromise == Promise!Spec

\* The inductive invariant of the proofs: replies in flight, settled results and
\* the cache go back to answers of workers.
Replies ==
  /\ \A i \in 1 .. Len(results) : results[i] \in answers
  /\ \A r \in Replicas :
       /\ consumer[r].pc # "idle" => consumer[r].answer \in answers
       /\ consumer[r].pc = "deliver" => Home[consumer[r].answer.call] = r
  /\ \A c \in Calls : Filled(c) => /\ Len(channel[c]) = 1
                                    /\ Head(channel[c]).call = c
                                    /\ Head(channel[c]) \in answers

Results ==
  /\ \A c \in Calls :
       /\ pc[c] \in {"idle", "send", "wait"} <=> result[c] = "none"
       /\ pc[c] = "cancel" => result[c] \in {"timeout", "sendError"}
       /\ pc[c] = "store" => result[c] = "metadata"
       /\ result[c] = "metadata" => Promise!Resolved(Magnet[c])
  /\ \A m \in cache : Promise!Resolved(m)

Inductive == TypeOK /\ OneChance /\ Replies /\ Results

-----------------------------------------------------------------------------
(* Liveness *)

\* Only the caller's own goroutine and its 120 s deadline are relied upon.
Fairness == \A c \in Calls : /\ WF_vars(Send(c)) /\ WF_vars(Timeout(c))
                             /\ WF_vars(Cancel(c)) /\ WF_vars(Store(c))

FairSpec == Spec /\ Fairness

\* Every call returns, whatever workers, consumers and queues do.
CallReturns == \A c \in Calls : pc[c] = "send" ~> pc[c] = "returned"

=============================================================================

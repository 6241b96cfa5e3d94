--------------------------- MODULE DownloadProofs ---------------------------
(***************************************************************************)
(* Theorems about the control of a download, for any number of workers,    *)
(* calls and faults. One worker at most runs the torrent because there is  *)
(* one command at most that any worker may take, and after it was taken    *)
(* all that says or knows something of the torrent names the same worker.  *)
(***************************************************************************)
EXTENDS DownloadControl, FiniteSetTheorems, TLAPS

\* A command for whoever takes it: about to be sent, in the queue, in a worker's hands.
Asks(q) == request[q].pc = "send" /\ request[q].kind = "start"
Waits(i) == i \in 1 .. Len(commands) /\ commands[i].target = NoWorker
Has(m) == worker[m].busy /\ worker[m].job.target = NoWorker

AskFree == \E q \in Requests : Asks(q)
QueueFree == \E i \in 1 .. Len(commands) : Waits(i)
HandFree == \E m \in Machines : Has(m)
Free == AskFree \/ QueueFree \/ HandFree

\* There is one at most, and none before the torrent has a row.
OneInQueue == \A i, j \in 1 .. Len(commands) : Waits(i) /\ Waits(j) => i = j
OneFree ==
  /\ AskFree => ~ QueueFree /\ ~ HandFree
  /\ QueueFree => ~ HandFree
  /\ \A p, q \in Requests : Asks(p) /\ Asks(q) => p = q
  /\ OneInQueue
  /\ \A m, n \in Machines : Has(m) /\ Has(n) => m = n
  /\ row.status = "None" => ~ Free

\* Worker m has something to do with the torrent, or is about to report that it has.
Knows(m) == worker[m].client # "absent" \/ worker[m].tracked # "no" \/ worker[m].report # "none"

Targets(h) == \A i \in 1 .. Len(commands) : commands[i].target \in {NoWorker, h}
Senders(h) == \A i \in 1 .. Len(events) : events[i].worker = h

\* Nothing names another worker than h, and nobody else knows the torrent.
Only(h) ==
  /\ row.owner \in {NoWorker, h}
  /\ Senders(h) /\ Targets(h)
  /\ \A m \in Machines : worker[m].busy => worker[m].job.target \in {NoWorker, h}
  /\ \A m \in Machines : Knows(m) => WorkerId(m) = h
  /\ sending \subseteq {h} \ {NoWorker}
  /\ \A q \in Requests : request[q].target \in {NoWorker, h}

\* As long as such a command is under way, nobody at all knows the torrent.
OneHolder == loose \/
  /\ \E h \in Owner : Only(h)
  /\ Free \/ row.status = "None" => Only(NoWorker)
  /\ OneFree

\* A worker that is down has nothing in hand; ids that are made up do not run out.
Stopped == \A m \in Machines :
  /\ ~ worker[m].up =>
       /\ worker[m].client = "absent" /\ worker[m].tracked = "no" /\ worker[m].report = "none"
       /\ ~ worker[m].busy
       /\ StableIds \/ (worker[m].self < MaxFaults /\ worker[m].self < faults.number)
  /\ StableIds \/ worker[m].self <= faults.number

Inductive == TypeOK /\ Stopped /\ OneHolder

-----------------------------------------------------------------------------
(* The queue of the commands *)

LEMMA AddTargeted ==
  ASSUME commands \in Seq(Command), NEW c \in Command, c.target # NoWorker,
         commands' = Append(commands, c) \/ commands' = <<c>> \o commands
  PROVE  /\ commands' \in Seq(Command)
         /\ QueueFree' <=> QueueFree
         /\ OneInQueue => OneInQueue'
         /\ \A h : Targets(h) /\ c.target = h => Targets(h)'
<1>1. CASE commands' = Append(commands, c)
  <2>1. /\ commands' \in Seq(Command) /\ Len(commands') = Len(commands) + 1
        /\ \A i \in 1 .. Len(commands) : commands'[i] = commands[i]
        /\ commands'[Len(commands) + 1] = c
    BY <1>1
  <2>2. \A i : Waits(i)' <=> Waits(i)
    BY <2>1 DEF Waits
  <2>3. QueueFree' <=> QueueFree
    BY <2>2 DEF QueueFree, Waits
  <2>4. OneInQueue => OneInQueue'
    BY <2>2 DEF OneInQueue, Waits
  <2>5. \A h : Targets(h) /\ c.target = h => Targets(h)'
    BY <2>1 DEF Targets
  <2> QED BY <2>1, <2>3, <2>4, <2>5
<1>2. CASE commands' = <<c>> \o commands
  <2>1. /\ commands' \in Seq(Command) /\ Len(commands') = Len(commands) + 1
        /\ \A i \in 2 .. Len(commands) + 1 : commands'[i] = commands[i - 1]
        /\ commands'[1] = c
    BY <1>2
  <2>2. \A i \in Int : Waits(i)' <=> Waits(i - 1)
    BY <2>1 DEF Waits
  <2>3. QueueFree' <=> QueueFree
    <3>1. ASSUME NEW i \in 1 .. Len(commands), Waits(i) PROVE QueueFree'
      <4>1. i + 1 \in 1 .. Len(commands') /\ Waits(i + 1)'
        BY <2>1, <3>1 DEF Waits
      <4> QED BY <4>1 DEF QueueFree
    <3>2. ASSUME NEW i \in 1 .. Len(commands'), Waits(i)' PROVE QueueFree
      <4>1. i - 1 \in 1 .. Len(commands) /\ Waits(i - 1)
        BY <2>1, <3>2 DEF Waits
      <4> QED BY <4>1 DEF QueueFree
    <3> QED BY <3>1, <3>2 DEF QueueFree
  <2>4. ASSUME OneInQueue, NEW i \in 1 .. Len(commands'), NEW j \in 1 .. Len(commands'),
               Waits(i)', Waits(j)'
        PROVE  i = j
    <3>1. Waits(i - 1) /\ Waits(j - 1)
      BY <2>1, <2>2, <2>4
    <3>2. i - 1 = j - 1
      BY <2>4, <3>1 DEF OneInQueue, Waits
    <3> QED BY <2>1, <3>2
  <2>5. \A h : Targets(h) /\ c.target = h => Targets(h)'
    BY <2>1 DEF Targets
  <2> QED BY <2>1, <2>3, <2>4, <2>5 DEF OneInQueue
<1> QED BY <1>1, <1>2

LEMMA AddFree ==
  ASSUME commands \in Seq(Command), NEW c \in Command, c.target = NoWorker,
         commands' = Append(commands, c)
  PROVE  /\ commands' \in Seq(Command)
         /\ ~ QueueFree => OneInQueue'
         /\ \A h : Targets(h) => Targets(h)'
<1>1. /\ commands' \in Seq(Command) /\ Len(commands') = Len(commands) + 1
      /\ \A i \in 1 .. Len(commands) : commands'[i] = commands[i]
      /\ commands'[Len(commands) + 1] = c
  OBVIOUS
<1>2. ASSUME ~ QueueFree, NEW i, Waits(i)' PROVE i = Len(commands) + 1
  BY <1>1, <1>2 DEF QueueFree, Waits
<1>3. \A h : Targets(h) => Targets(h)'
  BY <1>1 DEF Targets
<1> QED BY <1>1, <1>2, <1>3 DEF OneInQueue

LEMMA TakeCommand ==
  ASSUME commands \in Seq(Command), commands # <<>>, commands' = Tail(commands)
  PROVE  /\ commands' \in Seq(Command) /\ Head(commands) \in Command
         /\ QueueFree' => QueueFree
         /\ OneInQueue => OneInQueue'
         /\ Head(commands).target = NoWorker => QueueFree /\ (OneInQueue => ~ QueueFree')
         /\ \A h : Targets(h) => Targets(h)' /\ Head(commands).target \in {NoWorker, h}
<1>1. /\ commands' \in Seq(Command) /\ Len(commands') = Len(commands) - 1 /\ Len(commands) > 0
      /\ \A i \in 1 .. Len(commands') : commands'[i] = commands[i + 1]
      /\ Head(commands) = commands[1] /\ commands[1] \in Command
  OBVIOUS
<1>2. \A i \in Int : Waits(i)' => Waits(i + 1)
  BY <1>1 DEF Waits
<1>3. QueueFree' => QueueFree
  <2>1. ASSUME NEW i \in 1 .. Len(commands'), Waits(i)' PROVE QueueFree
    <3>1. i + 1 \in 1 .. Len(commands) /\ Waits(i + 1)
      BY <1>1, <2>1 DEF Waits
    <3> QED BY <3>1 DEF QueueFree
  <2> QED BY <2>1 DEF QueueFree
<1>4. ASSUME OneInQueue, NEW i \in 1 .. Len(commands'), NEW j \in 1 .. Len(commands'),
             Waits(i)', Waits(j)'
      PROVE  i = j
  <2>1. Waits(i + 1) /\ Waits(j + 1)
    BY <1>1, <1>2, <1>4
  <2>2. i + 1 = j + 1
    BY <1>4, <2>1 DEF OneInQueue, Waits
  <2> QED BY <1>1, <2>2
<1>5. ASSUME Head(commands).target = NoWorker PROVE QueueFree /\ (OneInQueue => ~ QueueFree')
  <2>1. Waits(1) /\ 1 \in 1 .. Len(commands)
    BY <1>1, <1>5 DEF Waits
  <2>2. ASSUME OneInQueue, NEW i \in 1 .. Len(commands'), Waits(i)' PROVE FALSE
    <3>1. Waits(i + 1) /\ i + 1 # 1 /\ i + 1 \in 1 .. Len(commands)
      BY <1>1, <1>2, <2>2
    <3> QED BY <2>1, <2>2, <3>1 DEF OneInQueue
  <2> QED BY <2>1, <2>2 DEF QueueFree
<1>6. \A h : Targets(h) => Targets(h)' /\ Head(commands).target \in {NoWorker, h}
  BY <1>1 DEF Targets
<1> QED BY <1>1, <1>3, <1>4, <1>5, <1>6 DEF OneInQueue

\* The queue of the events.
LEMMA AddEvent ==
  ASSUME events \in Seq(Event), NEW e \in Event, events' = Append(events, e)
  PROVE  /\ events' \in Seq(Event)
         /\ \A h : Senders(h) /\ e.worker = h => Senders(h)'
<1>1. /\ events' \in Seq(Event) /\ Len(events') = Len(events) + 1
      /\ \A i \in 1 .. Len(events) : events'[i] = events[i]
      /\ events'[Len(events) + 1] = e
  OBVIOUS
<1> QED BY <1>1 DEF Senders

LEMMA TakeEvent ==
  ASSUME events \in Seq(Event), events # <<>>, events' = Tail(events)
  PROVE  /\ events' \in Seq(Event) /\ Head(events) \in Event
         /\ \A h : Senders(h) => Senders(h)' /\ Head(events).worker = h
<1>1. /\ events' \in Seq(Event) /\ Len(events') = Len(events) - 1 /\ Len(events) > 0
      /\ \A i \in 1 .. Len(events') : events'[i] = events[i + 1]
      /\ Head(events) = events[1] /\ events[1] \in Event
  OBVIOUS
<1> QED BY <1>1 DEF Senders

-----------------------------------------------------------------------------
(* Types *)

LEMMA FaultsTyped ==
  ASSUME TypeOK, UNCHANGED faults \/ \E kind \in AllFaults : Fault(kind) \/ RecoveryFault(kind)
  PROVE  /\ faults' \in [number : 0 .. MaxFaults + 1, lossy : BOOLEAN]
         /\ faults'.number >= faults.number
<1> USE BoundsAssumption
<1>1. CASE UNCHANGED faults
  BY <1>1 DEF TypeOK
<1>2. ASSUME NEW kind \in AllFaults, Happens(kind), faults.number <= MaxFaults
      PROVE  /\ faults' \in [number : 0 .. MaxFaults + 1, lossy : BOOLEAN]
             /\ faults'.number >= faults.number
  BY <1>2 DEF TypeOK, Happens
<1>3. ASSUME NEW kind \in AllFaults, Fault(kind) \/ RecoveryFault(kind)
      PROVE  Happens(kind) /\ faults.number <= MaxFaults
  BY <1>3 DEF TypeOK, Fault, RecoveryFault
<1> QED BY <1>1, <1>2, <1>3

\* Of the ids, those of the workers' processes are all different.
LEMMA WorkerIds ==
  ASSUME TypeOK
  PROVE  /\ \A m \in Machines : WorkerId(m) \in Ids /\ WorkerId(m) # NoWorker
         /\ \A m, n \in Machines : WorkerId(m) = WorkerId(n) => m = n
<1>1. ASSUME NEW m \in Machines PROVE WorkerId(m) \in Ids /\ worker[m].self \in Nat
  BY BoundsAssumption DEF TypeOK, Process, WorkerId, Ids, Selves
<1> QED BY <1>1, NoWorkerAssumption DEF WorkerId

LEMMA Becoming ==
  ASSUME TypeOK, NEW m \in Machines, NEW p \in Process, Become(m, p)
  PROVE  /\ worker' \in [Machines -> Process]
         /\ worker'[m] = p
         /\ \A n \in Machines \ {m} : worker'[n] = worker[n]
         /\ p.self = worker[m].self => \A n \in Machines : WorkerId(n)' = WorkerId(n)
<1>1. worker \in [Machines -> Process]
  BY DEF TypeOK
<1>2. /\ worker' \in [Machines -> Process]
      /\ worker'[m] = p
      /\ \A n \in Machines \ {m} : worker'[n] = worker[n]
  BY <1>1 DEF Become
<1>3. p.self = worker[m].self => \A n \in Machines : WorkerId(n)' = WorkerId(n)
  BY <1>2 DEF WorkerId
<1> QED BY <1>2, <1>3

\* A process that is up and stays itself.
LEMMA StoppedStays ==
  ASSUME TypeOK, Stopped, NEW m \in Machines, NEW p \in Process, Become(m, p),
         p.up, p.self = worker[m].self, faults'.number \in Nat, faults'.number >= faults.number
  PROVE  Stopped'
<1> USE BoundsAssumption
<1>1. /\ worker'[m] = p
      /\ \A n \in Machines \ {m} : worker'[n] = worker[n]
  BY Becoming
<1>2. \A n \in Machines : worker[n].self \in Nat
  BY DEF TypeOK, Process, Selves
<1>3. faults.number \in Nat
  BY DEF TypeOK
<1> QED BY <1>1, <1>2, <1>3 DEF Stopped

LEMMA StoppedWaits ==
  ASSUME TypeOK, Stopped, UNCHANGED worker,
         faults'.number \in Nat, faults'.number >= faults.number
  PROVE  Stopped'
<1>2. \A n \in Machines : worker[n].self \in Nat
  BY BoundsAssumption DEF TypeOK, Process, Selves
<1>3. faults.number \in Nat
  BY DEF TypeOK
<1> QED BY <1>2, <1>3 DEF Stopped

\* Who has a command, or knows of the torrent, is up.
LEMMA BusyIsUp ==
  ASSUME TypeOK, Stopped, NEW m \in Machines, worker[m].busy \/ Knows(m)
  PROVE  worker[m].up
BY DEF TypeOK, Stopped, Knows, Process

LEMMA JobTyped ==
  ASSUME TypeOK, NEW m \in Machines
  PROVE  worker[m] \in Process /\ worker[m].job \in Command /\ Idle(m) \in Process
<1>1. worker[m] \in Process
  BY DEF TypeOK
<1>2. NoCommand \in Command
  BY DEF NoCommand, Command, Owner, AllKinds
<1> QED BY <1>1, <1>2 DEF Process, Idle

LEMMA CommandTyped ==
  ASSUME NEW action \in AllKinds, NEW target \in Owner
  PROVE  [action |-> action, target |-> target] \in Command
BY DEF Command

LEMMA RowTyped ==
  ASSUME NEW status \in Status, NEW deleted \in BOOLEAN, NEW owner \in Owner
  PROVE  [status |-> status, deleted |-> deleted, owner |-> owner] \in Row
BY DEF Row

-----------------------------------------------------------------------------
(* The calls *)

\* A step that names nobody new, and of which no new command for anyone comes.
LEMMA NoNewHolder ==
  ASSUME OneHolder, loose => loose',
         \A h \in Owner : Only(h) => Only(h)',
         OneFree => OneFree',
         Free' => Free, row'.status = "None" => row.status = "None"
  PROVE  OneHolder'
<1>1. NoWorker \in Owner
  BY DEF Owner
<1> QED BY <1>1 DEF OneHolder

LEMMA RequestTyped ==
  ASSUME TypeOK, NEW q \in Requests, NEW r \in Request, request' = [request EXCEPT ![q] = r]
  PROVE  /\ request' \in [Requests -> Request]
         /\ request'[q] = r
         /\ \A p \in Requests \ {q} : request'[p] = request[p]
BY DEF TypeOK

\* A call that goes on, or returns, has the target it had, or none.
LEMMA CallGoesOn ==
  ASSUME TypeOK, NEW q \in Requests, NEW pc \in {"send", "row"},
         Continue(q, pc) \/ Return(q)
  PROVE  /\ request' \in [Requests -> Request]
         /\ \A p \in Requests \ {q} : request'[p] = request[p]
         /\ request'[q].target \in {NoWorker, request[q].target}
         /\ Continue(q, pc) => request'[q] = [request[q] EXCEPT !.pc = pc]
         /\ Return(q) => request'[q] = IdleRequest
<1>1. request[q] \in Request
  BY DEF TypeOK
<1>2. IdleRequest \in Request
  BY DEF IdleRequest, Request, AllKinds, Owner
<1>3. CASE Continue(q, pc)
  <2>1. [request[q] EXCEPT !.pc = pc] \in Request
    BY <1>1 DEF Request
  <2>2. request' = [request EXCEPT ![q] = [request[q] EXCEPT !.pc = pc]]
    BY <1>3 DEF Continue
  <2>3. [request[q] EXCEPT !.pc = pc].target = request[q].target
    BY <1>1 DEF Request
  <2>4. ~ Return(q) \/ request'[q] = IdleRequest
    BY DEF Return, TypeOK
  <2> QED BY <2>1, <2>2, <2>3, <2>4, RequestTyped
<1>4. CASE Return(q)
  <2>1. request' = [request EXCEPT ![q] = IdleRequest]
    BY <1>4 DEF Return
  <2>2. IdleRequest.target = NoWorker
    BY DEF IdleRequest
  <2>3. Continue(q, pc) => request'[q] = [request[q] EXCEPT !.pc = pc]
    BY DEF Continue, TypeOK
  <2> QED BY <1>2, <2>1, <2>2, <2>3, RequestTyped
<1> QED BY <1>3, <1>4

\* Steps of calls that send nothing.
LEMMA QuietCall ==
  ASSUME Inductive, NEW q \in Requests,
         \A p \in Requests \ {q} : request'[p] = request[p],
         request'[q].target \in {NoWorker, request[q].target, row.owner},
         Asks(q)' => Asks(q),
         row'.owner = row.owner, row'.status = "None" => row.status = "None",
         UNCHANGED <<commands, events, worker, sending, loose>>
  PROVE  OneHolder'
<1> USE DEF Inductive
<1>1. ASSUME NEW h \in Owner, Only(h) PROVE Only(h)'
  <2>1. Senders(h)' /\ Targets(h)' /\ row'.owner \in {NoWorker, h}
    BY <1>1 DEF Only, Senders, Targets
  <2>2. \A m \in Machines : /\ worker'[m].busy => worker'[m].job.target \in {NoWorker, h}
                            /\ Knows(m)' => WorkerId(m)' = h
    BY <1>1 DEF Only, Knows, WorkerId
  <2>3. sending' \subseteq {h} \ {NoWorker}
    BY <1>1 DEF Only
  <2>4. \A p \in Requests : request'[p].target \in {NoWorker, h}
    BY <1>1 DEF Only
  <2> QED BY <2>1, <2>2, <2>3, <2>4 DEF Only
<1>2. \A p \in Requests : Asks(p)' => Asks(p)
  BY DEF Asks
<1>3. /\ AskFree' => AskFree
      /\ QueueFree' <=> QueueFree
      /\ HandFree' <=> HandFree
      /\ OneInQueue' <=> OneInQueue
      /\ \A m \in Machines : Has(m)' <=> Has(m)
  BY <1>2 DEF AskFree, QueueFree, HandFree, OneInQueue, Waits, Has
<1>4. OneFree => OneFree'
  BY <1>2, <1>3 DEF OneFree, Free
<1>5. Free' => Free
  BY <1>3 DEF Free
<1> QED BY <1>1, <1>4, <1>5, NoNewHolder

LEMMA BeginHolds ==
  ASSUME Inductive, NEW q \in Requests, Begin(q) PROVE Inductive'
<1> USE DEF Inductive
<1>1. PICK kind \in Kinds : request' = [request EXCEPT ![q] =
            [pc |-> IF kind = "start" THEN "row" ELSE "send", kind |-> kind,
             target |-> IF kind = "start" THEN NoWorker ELSE row.owner]]
  BY DEF Begin, TargetOf
<1>2. [pc |-> IF kind = "start" THEN "row" ELSE "send", kind |-> kind,
       target |-> IF kind = "start" THEN NoWorker ELSE row.owner] \in Request
  BY KindsAssumption DEF Request, TypeOK, Row, Owner
<1>3. /\ request' \in [Requests -> Request]
      /\ request'[q].target \in {NoWorker, row.owner}
      /\ ~ Asks(q)'
      /\ \A p \in Requests \ {q} : request'[p] = request[p]
  BY <1>1, <1>2, RequestTyped DEF Asks
<1>4. TypeOK'
  <2>1. calls' \in 0 .. MaxCalls
    BY BoundsAssumption DEF TypeOK, Begin
  <2>2. crowded' \in BOOLEAN
    BY DEF TypeOK, Begin, Calling
  <2> QED BY <1>3, <2>1, <2>2 DEF TypeOK, Begin, Workers
<1>5. Stopped'
  BY StoppedWaits DEF Begin, Workers, TypeOK
<1>6. OneHolder'
  BY <1>3, QuietCall DEF Begin, Workers
<1> QED BY <1>4, <1>5, <1>6

\* The torrent gets its row before the command for anyone is sent.
LEMMA StartRowHolds ==
  ASSUME Inductive, NEW q \in Requests, StartRow(q) PROVE Inductive'
<1> USE DEF Inductive
<1>1. /\ request' \in [Requests -> Request]
      /\ \A p \in Requests \ {q} : request'[p] = request[p]
      /\ request'[q].target \in {NoWorker, request[q].target}
  BY CallGoesOn DEF StartRow
<1>2. /\ row' \in Row /\ row'.owner = row.owner /\ row'.status = "Downloading"
  BY DEF StartRow, TypeOK, Row, Status
<1>3. TypeOK'
  BY <1>1, <1>2 DEF TypeOK, StartRow, Workers
<1>4. Stopped'
  BY StoppedWaits DEF StartRow, Workers, TypeOK
<1>5. OneHolder'
  <2>1. SUFFICES ASSUME ~ loose' PROVE OneHolder'
    BY DEF OneHolder
  <2>2. ~ loose /\ row.status = "None"
    BY <2>1 DEF StartRow, TypeOK
  <2>3. Only(NoWorker) /\ OneFree /\ ~ Free
    BY <2>2 DEF OneHolder, OneFree
  <2>4. Only(NoWorker)'
    <3>1. Senders(NoWorker)' /\ Targets(NoWorker)' /\ row'.owner \in {NoWorker}
      BY <1>2, <2>3 DEF Only, Senders, Targets, StartRow, Workers
    <3>2. \A m \in Machines :
             /\ worker'[m].busy => worker'[m].job.target \in {NoWorker}
             /\ Knows(m)' => WorkerId(m)' = NoWorker
      BY <2>3 DEF Only, Knows, WorkerId, StartRow, Workers
    <3>3. sending' \subseteq {NoWorker} \ {NoWorker}
      BY <2>3 DEF Only, StartRow
    <3>4. \A p \in Requests : request'[p].target \in {NoWorker}
      BY <1>1, <2>3 DEF Only
    <3> QED BY <3>1, <3>2, <3>3, <3>4 DEF Only
  <2>5. \A p \in Requests \ {q} : ~ Asks(p)'
    BY <1>1, <2>3 DEF Asks, Free, AskFree
  <2>6. ~ QueueFree' /\ ~ HandFree'
    BY <2>3 DEF Free, QueueFree, HandFree, Waits, Has, StartRow, Workers
  <2>7. OneInQueue'
    BY <2>6 DEF OneInQueue, QueueFree, Waits
  <2>8. OneFree'
    BY <1>2, <2>5, <2>6, <2>7 DEF OneFree, HandFree
  <2>9. NoWorker \in Owner
    BY DEF Owner
  <2> QED BY <2>4, <2>8, <2>9 DEF OneHolder
<1> QED BY <1>3, <1>4, <1>5

LEMMA CallFailsHolds ==
  ASSUME Inductive, NEW q \in Requests, StartRowFails(q) \/ UpdateRowFails(q)
  PROVE  Inductive'
<1> USE DEF Inductive
<1>1. /\ request' \in [Requests -> Request]
      /\ \A p \in Requests \ {q} : request'[p] = request[p]
      /\ request'[q].target \in {NoWorker, request[q].target}
      /\ request'[q] = IdleRequest
  BY CallGoesOn DEF StartRowFails, UpdateRowFails
<1>2. /\ faults' \in [number : 0 .. MaxFaults + 1, lossy : BOOLEAN]
      /\ faults'.number >= faults.number
  BY FaultsTyped DEF StartRowFails, UpdateRowFails, AllFaults
<1>3. UNCHANGED <<row, commands, events, worker, sending, loading, disk, crowded, loose, hollow, calls>>
  BY DEF StartRowFails, UpdateRowFails, history, Workers
<1>4. TypeOK'
  BY <1>1, <1>2, <1>3 DEF TypeOK
<1>5. Stopped'
  BY <1>2, <1>3, StoppedWaits
<1>6. ~ Asks(q)'
  BY <1>1 DEF Asks, IdleRequest
<1>7. OneHolder'
  BY <1>1, <1>3, <1>6, QuietCall
<1> QED BY <1>4, <1>5, <1>7

LEMMA UpdateRowHolds ==
  ASSUME Inductive, NEW q \in Requests, UpdateRow(q) PROVE Inductive'
<1> USE DEF Inductive
<1>1. /\ request' \in [Requests -> Request]
      /\ \A p \in Requests \ {q} : request'[p] = request[p]
      /\ request'[q].target \in {NoWorker, request[q].target}
      /\ request'[q] = IdleRequest
  BY CallGoesOn DEF UpdateRow, Written
<1>2. StatusAfter(request[q].kind) \in Status
      /\ (StatusAfter(request[q].kind) = "None" => row.status = "None")
  BY DEF StatusAfter, TypeOK, Row, Status
<1>3. /\ row' \in Row /\ row'.owner = row.owner
      /\ row'.status = "None" => row.status = "None"
  <2>1. row \in Row
    BY DEF TypeOK
  <2>2. CASE row.status = "None"
    BY <2>1, <2>2 DEF UpdateRow, IfPresent
  <2>3. CASE row.status # "None"
    <3>1. row' = [status |-> StatusAfter(request[q].kind),
                  deleted |-> row.deleted \/ request[q].kind = "remove",
                  owner |-> row.owner]
      BY <2>1, <2>3 DEF UpdateRow, IfPresent, Row
    <3>2. (row.deleted \/ request[q].kind = "remove") \in BOOLEAN
      OBVIOUS
    <3> QED BY <1>2, <2>1, <3>1, <3>2 DEF Row
  <2> QED BY <2>2, <2>3
<1>4. /\ UNCHANGED <<commands, events, worker, sending, loading, disk, faults, crowded, loose,
                    calls>>
      /\ hollow' \in BOOLEAN
  BY DEF UpdateRow, Written, Workers, TypeOK
<1>5. TypeOK'
  BY <1>1, <1>3, <1>4 DEF TypeOK
<1>6. Stopped'
  BY <1>4, StoppedWaits DEF TypeOK
<1>7. ~ Asks(q)'
  BY <1>1 DEF Asks, IdleRequest
<1>8. OneHolder'
  BY <1>1, <1>3, <1>4, <1>7, QuietCall
<1> QED BY <1>5, <1>6, <1>8


\* A step that keeps, or names nobody new in, each part of the state.
LEMMA QuietStep ==
  ASSUME Inductive, loose => loose',
         QueueFree' => QueueFree, OneInQueue => OneInQueue',
         \A p \in Requests : /\ request'[p].target \in {NoWorker, request[p].target}
                             /\ Asks(p)' => Asks(p),
         \A m \in Machines : worker'[m].busy => worker[m].busy /\ worker'[m].job = worker[m].job,
         \A h \in Owner : Only(h) =>
           /\ row'.owner \in {NoWorker, h}
           /\ Targets(h)' /\ Senders(h)'
           /\ sending' \subseteq {h} \ {NoWorker}
           /\ \A m \in Machines : Knows(m)' => WorkerId(m)' = h,
         row'.status = "None" => row.status = "None"
  PROVE  OneHolder'
<1> USE DEF Inductive
<1>1. ASSUME NEW h \in Owner, Only(h) PROVE Only(h)'
  <2>1. \A m \in Machines : worker'[m].busy => worker'[m].job.target \in {NoWorker, h}
    BY <1>1 DEF Only
  <2>2. \A p \in Requests : request'[p].target \in {NoWorker, h}
    BY <1>1 DEF Only
  <2> QED BY <1>1, <2>1, <2>2 DEF Only
<1>2. /\ AskFree' => AskFree
      /\ HandFree' => HandFree
      /\ \A m \in Machines : Has(m)' => Has(m)
  BY DEF AskFree, HandFree, Has
<1>3. OneFree => OneFree'
  BY <1>2 DEF OneFree, Free
<1>4. Free' => Free
  BY <1>2 DEF Free
<1> QED BY <1>1, <1>3, <1>4, NoNewHolder

\* The worker that a sent or returned command is for is the one all speak of.
LEMMA SendFailsHolds ==
  ASSUME Inductive, NEW q \in Requests, SendFails(q) PROVE Inductive'
<1> USE DEF Inductive
<1>1. /\ request' \in [Requests -> Request]
      /\ \A p \in Requests \ {q} : request'[p] = request[p]
      /\ request'[q].target \in {NoWorker, request[q].target}
      /\ request'[q] \in {IdleRequest, [request[q] EXCEPT !.pc = "row"]}
  BY CallGoesOn DEF SendFails, AfterSend
<1>2. /\ faults' \in [number : 0 .. MaxFaults + 1, lossy : BOOLEAN]
      /\ faults'.number >= faults.number
  BY FaultsTyped DEF SendFails, AllFaults
<1>3. UNCHANGED <<row, commands, events, worker, sending, loading, disk, crowded, loose, hollow, calls>>
  BY DEF SendFails, history, Workers
<1>4. TypeOK'
  BY <1>1, <1>2, <1>3 DEF TypeOK
<1>5. Stopped'
  BY <1>2, <1>3, StoppedWaits
<1>6. request'[q].pc # "send"
  BY <1>1 DEF IdleRequest, TypeOK, Request
<1>7. OneHolder'
  BY <1>1, <1>3, <1>6, QuietCall DEF Asks
<1> QED BY <1>4, <1>5, <1>7

LEMMA SendHolds ==
  ASSUME Inductive, NEW q \in Requests, Send(q) PROVE Inductive'
<1> USE DEF Inductive
<1>1. /\ request' \in [Requests -> Request]
      /\ \A p \in Requests \ {q} : request'[p] = request[p]
      /\ request'[q].target \in {NoWorker, request[q].target}
      /\ request'[q] \in {IdleRequest, [request[q] EXCEPT !.pc = "row"]}
  BY CallGoesOn DEF Send, AfterSend
<1> DEFINE command == [action |-> request[q].kind, target |-> request[q].target]
<1>2. PICK c : c = command
  OBVIOUS
<1>3. c \in Command /\ c.target = request[q].target
  BY <1>2, CommandTyped DEF TypeOK, Request
<1>4. commands' = Append(commands, c) /\ crowded' \in BOOLEAN
  BY <1>2 DEF Send, SendCommand, TypeOK
<1> HIDE DEF command
<1>5. UNCHANGED <<row, events, worker, sending, loading, disk, faults, hollow, calls>>
  BY DEF Send, Workers
<1>6. loose' = (loose \/ (request[q].target = NoWorker /\ request[q].kind # "start"))
  BY DEF Send
<1>7. TypeOK'
  <2>1. commands' \in Seq(Command)
    BY <1>3, <1>4 DEF TypeOK
  <2>2. loose' \in BOOLEAN
    BY <1>6 DEF TypeOK
  <2> QED BY <1>1, <1>4, <1>5, <2>1, <2>2 DEF TypeOK
<1>8. Stopped'
  BY <1>5, StoppedWaits DEF TypeOK
<1>9. request'[q].pc # "send" /\ request[q].pc = "send"
  BY <1>1 DEF IdleRequest, TypeOK, Request, Send
<1>10. CASE loose'
  BY <1>7, <1>8, <1>10 DEF OneHolder
<1>11. CASE ~ loose' /\ request[q].kind = "start"
  <2>1. Asks(q) /\ ~ loose
    BY <1>6, <1>9, <1>11 DEF Asks
  <2>2. Only(NoWorker) /\ OneFree /\ ~ QueueFree /\ ~ HandFree
    BY <2>1 DEF OneHolder, OneFree, Free, AskFree
  <2>3. c.target = NoWorker
    BY <1>3, <2>2 DEF Only
  <2>4. OneInQueue' /\ Targets(NoWorker)'
    BY <1>3, <1>4, <2>2, <2>3, AddFree DEF TypeOK, Only
  <2>5. Only(NoWorker)'
    <3>1. Senders(NoWorker)' /\ row'.owner = NoWorker
      BY <1>5, <2>2 DEF Only, Senders
    <3>2. \A m \in Machines :
             /\ worker'[m].busy => worker'[m].job.target \in {NoWorker}
             /\ Knows(m)' => WorkerId(m)' = NoWorker
      BY <1>5, <2>2 DEF Only, Knows, WorkerId
    <3>3. sending' \subseteq {NoWorker} \ {NoWorker}
      BY <1>5, <2>2 DEF Only
    <3>4. \A p \in Requests : request'[p].target \in {NoWorker}
      BY <1>1, <2>2 DEF Only
    <3> QED BY <2>4, <3>1, <3>2, <3>3, <3>4 DEF Only
  <2>6. \A p \in Requests : ~ Asks(p)'
    BY <1>1, <1>9, <2>1, <2>2 DEF Asks, OneFree
  <2>7. ~ HandFree' /\ row'.status # "None"
    BY <1>5, <2>1, <2>2 DEF OneFree, Free, AskFree, HandFree, Has
  <2>8. OneFree'
    BY <2>4, <2>6, <2>7 DEF OneFree, AskFree, HandFree
  <2>9. NoWorker \in Owner
    BY DEF Owner
  <2> QED BY <1>7, <1>8, <2>5, <2>8, <2>9 DEF OneHolder
<1>12. CASE ~ loose' /\ request[q].kind # "start"
  <2>1. c.target # NoWorker /\ ~ loose
    BY <1>3, <1>6, <1>12
  <2>2. \A h \in Owner : Only(h) => c.target = h
    BY <1>3, <2>1 DEF Only
  <2>3. /\ QueueFree' => QueueFree
        /\ OneInQueue => OneInQueue'
        /\ \A h \in Owner : Only(h) => Targets(h)'
    BY <1>3, <1>4, <2>1, <2>2, AddTargeted DEF TypeOK, Only
  <2>4. \A p \in Requests : /\ request'[p].target \in {NoWorker, request[p].target}
                            /\ Asks(p)' => Asks(p)
    BY <1>1, <1>9 DEF Asks
  <2>5. ASSUME NEW h \in Owner, Only(h)
        PROVE  /\ row'.owner \in {NoWorker, h} /\ Senders(h)' /\ sending' \subseteq {h} \ {NoWorker}
               /\ \A m \in Machines : Knows(m)' => WorkerId(m)' = h
    BY <1>5, <2>5 DEF Only, Senders, Knows, WorkerId
  <2>6. OneHolder'
    BY <1>5, <2>1, <2>3, <2>4, <2>5, QuietStep
  <2> QED BY <1>7, <1>8, <2>6
<1> QED BY <1>10, <1>11, <1>12

LEMMA RequestHolds ==
  ASSUME Inductive, NEW q \in Requests, RequestStep(q) PROVE Inductive'
BY BeginHolds, StartRowHolds, CallFailsHolds, SendHolds, SendFailsHolds, UpdateRowHolds
   DEF RequestStep


-----------------------------------------------------------------------------
(* Recoveries *)

\* What a step leaves alone does not come to name anybody.
LEMMA StayOnly ==
  ASSUME NEW h, Only(h)
  PROVE  /\ UNCHANGED row => row'.owner \in {NoWorker, h}
         /\ UNCHANGED commands => Targets(h)'
         /\ UNCHANGED events => Senders(h)'
         /\ UNCHANGED worker => \A m \in Machines : Knows(m)' => WorkerId(m)' = h
         /\ sending' \subseteq sending => sending' \subseteq {h} \ {NoWorker}
BY DEF Only, Targets, Senders, Knows, WorkerId

LEMMA StayFree ==
  /\ UNCHANGED commands => (QueueFree' => QueueFree) /\ (OneInQueue => OneInQueue')
  /\ UNCHANGED request =>
       \A p \in Requests : /\ request'[p].target \in {NoWorker, request[p].target}
                           /\ Asks(p)' => Asks(p)
  /\ UNCHANGED worker =>
       \A m \in Machines : worker'[m].busy => worker[m].busy /\ worker'[m].job = worker[m].job
BY DEF QueueFree, OneInQueue, Waits, Asks

LEMMA RestartServerHolds ==
  ASSUME Inductive, RestartServer \/ (\E id \in Ids : BeatFails(id))
  PROVE  Inductive'
<1> USE DEF Inductive
<1>1. UNCHANGED <<row, commands, events, worker, sending, request, disk, crowded, loose, hollow, calls>>
  BY DEF RestartServer, BeatFails, Workers, history
<1>2. /\ faults' \in [number : 0 .. MaxFaults + 1, lossy : BOOLEAN]
      /\ faults'.number >= faults.number
  BY FaultsTyped DEF RestartServer, BeatFails, AllFaults
<1>3. loading' \subseteq Owner
  BY DEF RestartServer, BeatFails, TypeOK, Owner
<1>4. TypeOK'
  BY <1>1, <1>2, <1>3 DEF TypeOK
<1>5. Stopped'
  BY <1>1, <1>2, StoppedWaits
<1>6. OneHolder'
  BY <1>1, StayOnly, StayFree, QuietStep
<1> QED BY <1>4, <1>5, <1>6

\* Only a torrent with an owner is recovered without a second command for anyone.
LEMMA LoadActiveHolds ==
  ASSUME Inductive, NEW booting \in Owner, LoadActive(booting) PROVE Inductive'
<1> USE DEF Inductive
<1>1. UNCHANGED <<row, commands, events, worker, request, disk, faults, hollow, calls>>
  BY DEF LoadActive, Workers
<1>2. /\ loading' \subseteq Owner /\ crowded' \in BOOLEAN
  BY DEF LoadActive, TypeOK, Calling
<1>3. RecoveryTarget(booting) \in Owner
  BY DEF RecoveryTarget, TypeOK, Row
<1>4. sending' \subseteq Owner /\ loose' \in BOOLEAN
  BY <1>3 DEF LoadActive, TypeOK
<1>5. TypeOK'
  BY <1>1, <1>2, <1>4 DEF TypeOK
<1>6. Stopped'
  BY <1>1, StoppedWaits DEF TypeOK
<1>7. OneHolder'
  <2>1. SUFFICES ASSUME ~ loose' PROVE OneHolder'
    BY DEF OneHolder
  <2>2. loose => loose'
    BY DEF LoadActive
  <2>3. ASSUME NEW h \in Owner, Only(h) PROVE sending' \subseteq {h} \ {NoWorker}
    <3>1. CASE Recoverable(booting)
      <4>1. row.owner # NoWorker /\ sending' = sending \cup {row.owner}
        BY <2>1, <3>1 DEF LoadActive, RecoveryTarget
      <4> QED BY <2>3, <4>1 DEF Only
    <3>2. CASE ~ Recoverable(booting)
      BY <2>3, <3>2 DEF LoadActive, Only
    <3> QED BY <3>1, <3>2
  <2> QED BY <1>1, <2>2, <2>3, StayOnly, StayFree, QuietStep
<1> QED BY <1>5, <1>6, <1>7

LEMMA RedispatchHolds ==
  ASSUME Inductive, NEW target \in Owner, Redispatch(target) PROVE Inductive'
<1> USE DEF Inductive
<1>1. UNCHANGED <<row, events, worker, request, loading, disk, faults, calls, loose, hollow>>
  BY DEF Redispatch, Workers
<1>2. PICK c : c = [action |-> "start", target |-> target]
  OBVIOUS
<1>3. c \in Command /\ c.target = target
  BY <1>2, CommandTyped DEF AllKinds
<1>4. commands' = Append(commands, c) /\ crowded' \in BOOLEAN
  BY <1>2 DEF Redispatch, SendCommand, TypeOK
<1>5. target \in sending /\ sending' = sending \ {target}
  BY DEF Redispatch
<1>6. TypeOK'
  <2>1. commands' \in Seq(Command)
    BY <1>3, <1>4 DEF TypeOK
  <2> QED BY <1>1, <1>4, <1>5, <2>1 DEF TypeOK
<1>7. Stopped'
  BY <1>1, StoppedWaits DEF TypeOK
<1>8. OneHolder'
  <2>1. SUFFICES ASSUME ~ loose PROVE OneHolder'
    BY <1>1 DEF OneHolder
  <2>2. PICK h \in Owner : Only(h)
    BY <2>1 DEF OneHolder
  <2>3. c.target # NoWorker
    BY <1>3, <1>5, <2>2 DEF Only
  <2>4. \A g \in Owner : Only(g) => c.target = g
    BY <1>3, <1>5 DEF Only
  <2>5. /\ QueueFree' => QueueFree
        /\ OneInQueue => OneInQueue'
        /\ \A g \in Owner : Only(g) => Targets(g)'
    BY <1>3, <1>4, <2>3, <2>4, AddTargeted DEF TypeOK, Only
  <2> QED BY <1>1, <1>5, <2>5, StayOnly, StayFree, QuietStep
<1> QED BY <1>6, <1>7, <1>8

LEMMA RedispatchFailsHolds ==
  ASSUME Inductive, NEW target \in Owner, RedispatchFails(target) PROVE Inductive'
<1> USE DEF Inductive
<1>1. UNCHANGED <<row, commands, events, worker, request, loading, disk, crowded, loose, hollow, calls>>
  BY DEF RedispatchFails, Workers, history
<1>2. /\ faults' \in [number : 0 .. MaxFaults + 1, lossy : BOOLEAN]
      /\ faults'.number >= faults.number
  BY FaultsTyped DEF RedispatchFails, AllFaults
<1>3. sending' \subseteq sending
  BY DEF RedispatchFails
<1>4. TypeOK'
  BY <1>1, <1>2, <1>3 DEF TypeOK
<1>5. Stopped'
  BY <1>1, <1>2, StoppedWaits
<1>6. OneHolder'
  BY <1>1, <1>3, StayOnly, StayFree, QuietStep
<1> QED BY <1>4, <1>5, <1>6

-----------------------------------------------------------------------------
(* The handlers of the events *)

LEMMA ConsumerHolds ==
  ASSUME Inductive, ConsumerStep PROVE Inductive'
<1> USE DEF Inductive
<1>1. /\ events # <<>> /\ events' = Tail(events)
      /\ UNCHANGED <<commands, loading, sending, worker, disk, request, calls, faults, loose, hollow>>
  BY DEF ConsumerStep, PersistProgress, SkipPersist, CompleteRow, FailRow, Handles, Others
<1>2. /\ events' \in Seq(Event) /\ Head(events) \in Event
      /\ \A h : Senders(h) => Senders(h)' /\ Head(events).worker = h
  BY <1>1, TakeEvent DEF TypeOK
<1>3. Sender \in Ids /\ Sender = Head(events).worker
  BY <1>2 DEF Sender, Event
<1>4. /\ row'.owner \in {row.owner, Sender}
      /\ row'.status = "None" => row.status = "None"
      /\ row' \in Row /\ crowded' \in BOOLEAN
  <2>1. row \in Row /\ Sender \in Owner
    BY <1>3 DEF TypeOK, Owner
  <2>2. CASE PersistProgress
    BY <2>1, <2>2 DEF PersistProgress, IfPresent, Row, TypeOK
  <2>3. CASE SkipPersist
    BY <2>1, <2>3 DEF SkipPersist, Row, TypeOK
  <2>4. CASE CompleteRow
    BY <2>1, <2>4 DEF CompleteRow, IfPresent, Row, Status, TypeOK
  <2>5. CASE FailRow
    <3>1. crowded' \in BOOLEAN
      BY <2>5 DEF FailRow, TypeOK, Calling, Recovering
    <3> QED BY <2>1, <2>5, <3>1 DEF FailRow, IfPresent, Row, Status
  <2> QED BY <2>2, <2>3, <2>4, <2>5 DEF ConsumerStep
<1>5. TypeOK'
  BY <1>1, <1>2, <1>4 DEF TypeOK
<1>6. Stopped'
  BY <1>1, StoppedWaits DEF TypeOK
<1>7. ASSUME NEW h \in Owner, Only(h)
      PROVE  row'.owner \in {NoWorker, h} /\ Senders(h)'
  BY <1>2, <1>3, <1>4, <1>7 DEF Only
<1>8. OneHolder'
  BY <1>1, <1>4, <1>7, StayOnly, StayFree, QuietStep
<1> QED BY <1>5, <1>6, <1>8


-----------------------------------------------------------------------------
(* The handler of the commands *)

\* The one command for anyone is in the queue or in a worker's hands.
LEMMA DeliverHolds ==
  ASSUME Inductive, NEW m \in Machines, Deliver(m) PROVE Inductive'
<1> USE DEF Inductive
<1>1. PICK job : job = Head(commands)
  OBVIOUS
<1>2. UNCHANGED <<row, events, loading, sending, request, disk, faults, crowded, loose, hollow, calls>>
  BY DEF Deliver, Rest, history
<1>3. /\ commands' \in Seq(Command) /\ job \in Command
      /\ QueueFree' => QueueFree
      /\ OneInQueue => OneInQueue'
      /\ job.target = NoWorker => QueueFree /\ (OneInQueue => ~ QueueFree')
      /\ \A h : Targets(h) => Targets(h)' /\ job.target \in {NoWorker, h}
  BY <1>1, TakeCommand DEF Deliver, TypeOK
<1>4. PICK p : p = [worker[m] EXCEPT !.busy = TRUE, !.job = job]
  OBVIOUS
<1>5. /\ p \in Process /\ p.busy /\ p.job = job /\ p.up /\ p.self = worker[m].self
      /\ p.client = worker[m].client /\ p.tracked = worker[m].tracked
      /\ p.report = worker[m].report /\ ~ worker[m].busy
  BY <1>3, <1>4, JobTyped DEF Process, Deliver
<1>6. Become(m, p)
  BY <1>1, <1>4 DEF Deliver
<1>7. /\ worker' \in [Machines -> Process] /\ worker'[m] = p
      /\ \A n \in Machines \ {m} : worker'[n] = worker[n]
      /\ \A n \in Machines : WorkerId(n)' = WorkerId(n)
  BY <1>5, <1>6, Becoming
<1>8. TypeOK'
  BY <1>2, <1>3, <1>7 DEF TypeOK
<1>9. Stopped'
  BY <1>2, <1>5, <1>6, StoppedStays DEF TypeOK
<1>10. ASSUME NEW h \in Owner, Only(h) PROVE Only(h)'
  <2>1. Senders(h)' /\ row'.owner \in {NoWorker, h}
    BY <1>2, <1>10 DEF Only, Senders
  <2>2. Targets(h)' /\ job.target \in {NoWorker, h}
    BY <1>3, <1>10 DEF Only
  <2>3. \A n \in Machines : worker'[n].busy => worker'[n].job.target \in {NoWorker, h}
    BY <1>5, <1>7, <1>10, <2>2 DEF Only
  <2>4. \A n \in Machines : Knows(n)' => WorkerId(n)' = h
    BY <1>5, <1>7, <1>10 DEF Only, Knows
  <2> QED BY <1>2, <1>10, <2>1, <2>2, <2>3, <2>4 DEF Only
<1>11. /\ \A n \in Machines \ {m} : Has(n)' <=> Has(n)
       /\ Has(m)' <=> job.target = NoWorker
       /\ ~ Has(m)
  BY <1>5, <1>7 DEF Has
<1>12. AskFree' <=> AskFree
  BY <1>2 DEF AskFree, Asks
<1>13. /\ HandFree' => HandFree \/ job.target = NoWorker
       /\ job.target # NoWorker => \A n \in Machines : Has(n)' => Has(n)
       /\ ~ HandFree => \A n \in Machines : Has(n)' => n = m
  BY <1>11 DEF HandFree
<1>14. Free' => Free
  BY <1>3, <1>12, <1>13 DEF Free
<1>15. ASSUME OneFree PROVE OneFree'
  <2>1. OneInQueue'
    BY <1>3, <1>15 DEF OneFree
  <2>2. \A q, r \in Requests : Asks(q)' /\ Asks(r)' => q = r
    BY <1>2, <1>15 DEF OneFree, Asks
  <2>3. row'.status = "None" => ~ Free'
    BY <1>2, <1>14, <1>15 DEF OneFree
  <2>4. CASE job.target = NoWorker
    <3>1. QueueFree /\ ~ QueueFree' /\ ~ HandFree /\ ~ AskFree
      BY <1>3, <1>15, <2>4 DEF OneFree
    <3> QED BY <1>12, <1>13, <2>1, <2>2, <2>3, <3>1 DEF OneFree
  <2>5. CASE job.target # NoWorker
    BY <1>3, <1>12, <1>13, <1>15, <2>1, <2>2, <2>3, <2>5 DEF OneFree
  <2> QED BY <2>4, <2>5
<1>16. OneHolder'
  BY <1>2, <1>10, <1>14, <1>15, NoNewHolder
<1> QED BY <1>8, <1>9, <1>16

\* The worker that has handled a command for it is the one all speak of, from now
\* on if the command was for anyone.
LEMMA HandledHolds ==
  ASSUME Inductive, NEW m \in Machines, NEW p \in Process, Become(m, p),
         worker[m].busy, ForMe(m), ~ p.busy, p.self = worker[m].self, p.up,
         UNCHANGED <<row, commands, loading, sending, request, disk, crowded, loose, hollow, calls>>,
         faults' \in [number : 0 .. MaxFaults + 1, lossy : BOOLEAN],
         faults'.number >= faults.number,
         NEW type \in {"progress", "completed", "failed"},
         \/ UNCHANGED events
         \/ events' = Append(events, [type |-> type, worker |-> WorkerId(m)])
  PROVE  Inductive'
<1> USE DEF Inductive
<1>1. /\ worker' \in [Machines -> Process] /\ worker'[m] = p
      /\ \A n \in Machines \ {m} : worker'[n] = worker[n]
      /\ \A n \in Machines : WorkerId(n)' = WorkerId(n)
  BY Becoming
<1>2. events' \in Seq(Event) /\ \A h : Senders(h) /\ WorkerId(m) = h => Senders(h)'
  <2>1. CASE UNCHANGED events
    BY <2>1 DEF TypeOK, Senders
  <2>2. CASE events' = Append(events, [type |-> type, worker |-> WorkerId(m)])
    <3>1. PICK e : e = [type |-> type, worker |-> WorkerId(m)]
      OBVIOUS
    <3>2. e \in Event /\ e.worker = WorkerId(m)
      BY <3>1, WorkerIds DEF Event
    <3> QED BY <2>2, <3>1, <3>2, AddEvent DEF TypeOK
  <2> QED BY <2>1, <2>2
<1>3. TypeOK'
  BY <1>1, <1>2 DEF TypeOK
<1>4. Stopped'
  BY StoppedStays
<1>5. \A n \in Machines : worker'[n].busy => worker[n].busy /\ worker'[n].job = worker[n].job
  BY <1>1
<1>6. CASE loose
  BY <1>3, <1>4, <1>6 DEF OneHolder
<1>7. CASE ~ loose /\ worker[m].job.target = NoWorker
  <2>1. Has(m)
    BY <1>7 DEF Has
  <2>2. Only(NoWorker) /\ OneFree /\ HandFree /\ ~ AskFree /\ ~ QueueFree
    BY <1>7, <2>1 DEF OneHolder, OneFree, Free, HandFree
  <2>3. PICK h \in Owner : h = WorkerId(m)
    BY WorkerIds DEF Owner
  <2>4. Only(h)'
    <3>1. Senders(NoWorker) /\ Targets(NoWorker) /\ row.owner = NoWorker
      BY <2>2 DEF Only
    <3>2. Senders(h)
      <4>1. \A i \in 1 .. Len(events) : events[i] \in Event
        BY DEF TypeOK
      <4>2. \A i \in 1 .. Len(events) : FALSE
        BY <3>1, <4>1, NoWorkerAssumption, WorkerIds, BoundsAssumption
           DEF Senders, Event, Ids, Selves
      <4> QED BY <4>2 DEF Senders
    <3>3. Senders(h)' /\ Targets(h)' /\ row'.owner = NoWorker
      BY <1>2, <2>3, <3>1, <3>2 DEF Targets
    <3>4. \A n \in Machines : worker'[n].busy => worker'[n].job.target = NoWorker
      BY <1>5, <2>2 DEF Only
    <3>5. \A n \in Machines \ {m} : ~ Knows(n)'
      BY <1>1, <2>2, WorkerIds DEF Only, Knows
    <3>6. WorkerId(m)' = h
      BY <1>1, <2>3
    <3>7. sending' = {} /\ \A q \in Requests : request'[q].target = NoWorker
      BY <2>2 DEF Only
    <3> QED BY <3>3, <3>4, <3>5, <3>6, <3>7 DEF Only
  <2>5. ~ AskFree' /\ ~ QueueFree'
    BY <2>2 DEF AskFree, QueueFree, Asks, Waits
  <2>6. \A n \in Machines : ~ Has(n)'
    BY <1>1, <2>1, <2>2 DEF OneFree, Has
  <2>7. row'.status # "None"
    BY <2>2 DEF OneFree, Free
  <2>8. OneFree' /\ ~ Free'
    BY <2>5, <2>6, <2>7 DEF OneFree, Free, HandFree, OneInQueue, QueueFree, AskFree, Waits
  <2> QED BY <1>3, <1>4, <2>4, <2>7, <2>8 DEF OneHolder
<1>8. CASE ~ loose /\ worker[m].job.target = WorkerId(m)
  <2>1. \A h \in Owner : Only(h) => WorkerId(m) = h
    BY <1>8, WorkerIds DEF Only
  <2>2. ASSUME NEW h \in Owner, Only(h) PROVE \A n \in Machines : Knows(n)' => WorkerId(n)' = h
    BY <1>1, <2>1, <2>2 DEF Only, Knows
  <2>3. \A h \in Owner : Only(h) => Senders(h)'
    BY <1>2, <2>1 DEF Only
  <2>4. OneHolder'
    BY <1>5, <2>2, <2>3, StayOnly, StayFree, QuietStep
  <2> QED BY <1>3, <1>4, <2>4
<1> QED BY <1>6, <1>7, <1>8 DEF ForMe


\* The handlers, but for the one that returns the message.
LEMMA HandlerHolds ==
  ASSUME Inductive, NEW m \in Machines, HandlerStep(m), ~ NotForMe(m) PROVE Inductive'
<1> USE DEF Inductive
<1>1. worker[m].busy /\ ForMe(m) /\ worker[m].up
  <2>1. worker[m].busy /\ ForMe(m)
    BY DEF HandlerStep, Start, StartFails, Pause, Resume, ResumeFails, Remove, ResumeSeed,
           HandlesAction
  <2> QED BY <2>1, BusyIsUp
<1>2. UNCHANGED <<row, commands, loading, sending, request, disk, crowded, loose, hollow, calls>>
  BY DEF HandlerStep, Start, StartFails, Pause, Resume, ResumeFails, Remove, ResumeSeed,
         Rest, history
<1> DEFINE failure == [type |-> "failed", worker |-> WorkerId(m)]
<1>3. /\ UNCHANGED events \/ events' = Append(events, failure)
      /\ faults' \in [number : 0 .. MaxFaults + 1, lossy : BOOLEAN]
      /\ faults'.number >= faults.number
  <2>1. UNCHANGED events \/ events' = Append(events, failure)
    BY DEF HandlerStep, Start, StartFails, Pause, Resume, ResumeFails, Remove, ResumeSeed, Emit
  <2>2. UNCHANGED faults \/ Fault("parse") \/ Fault("event")
    BY DEF HandlerStep, Start, StartFails, Pause, Resume, ResumeFails, Remove, ResumeSeed, Emit
  <2>3. {"parse", "event"} \subseteq AllFaults
    BY DEF AllFaults
  <2> QED BY <2>1, <2>2, <2>3, FaultsTyped
<1> HIDE DEF failure
<1>4. ASSUME NEW p \in Process, Become(m, p), ~ p.busy, p.self = worker[m].self, p.up
      PROVE  Inductive'
  BY <1>1, <1>2, <1>3, <1>4, HandledHolds DEF failure
<1>5. /\ Idle(m) \in Process /\ worker[m] \in Process
      /\ ~ Idle(m).busy /\ Idle(m).self = worker[m].self /\ Idle(m).up
      /\ Tracked(m) \in {"yes", "completed"}
  BY <1>1, JobTyped DEF Idle, Process, Tracked
<1>6. ASSUME NEW client \in {"absent", "fetching", "idle", "active"},
             NEW tracked \in {"no", "yes", "completed"},
             Become(m, [Idle(m) EXCEPT !.client = client, !.tracked = tracked])
      PROVE  Inductive'
  <2>1. PICK p : p = [Idle(m) EXCEPT !.client = client, !.tracked = tracked]
    OBVIOUS
  <2>2. p \in Process /\ ~ p.busy /\ p.self = worker[m].self /\ p.up
    BY <1>5, <2>1 DEF Process
  <2> QED BY <1>4, <1>6, <2>1, <2>2
<1>7. CASE StartFails(m) \/ ResumeFails(m)
  BY <1>4, <1>5, <1>7 DEF StartFails, ResumeFails
<1>8. CASE Start(m)
  BY <1>5, <1>6, <1>8 DEF Start
<1>9. /\ Idle(m).client = worker[m].client
      /\ worker[m].client \in {"absent", "fetching", "idle", "active"}
  BY <1>5 DEF Idle, Process
<1>10. CASE Pause(m)
  <2>1. Become(m, [Idle(m) EXCEPT
          !.client = IF worker[m].client = "active" THEN "idle" ELSE worker[m].client,
          !.tracked = "no"])
    BY <1>5, <1>9, <1>10 DEF Pause, Become, Process
  <2> QED BY <1>6, <1>9, <2>1
<1>11. CASE Resume(m)
  <2>1. Become(m, [Idle(m) EXCEPT
          !.client = IF worker[m].client = "idle" THEN "active" ELSE worker[m].client,
          !.tracked = Tracked(m)])
    BY <1>5, <1>9, <1>11 DEF Resume, Become, Process
  <2> QED BY <1>5, <1>6, <1>9, <2>1
<1>12. CASE Remove(m)
  BY <1>6, <1>12 DEF Remove
<1>13. CASE ResumeSeed(m)
  <2>1. Become(m, [Idle(m) EXCEPT
          !.client = IF worker[m].client = "absent" THEN "fetching" ELSE worker[m].client,
          !.tracked = Tracked(m)])
    BY <1>5, <1>9, <1>13 DEF ResumeSeed, Become, Process
  <2> QED BY <1>5, <1>6, <1>9, <2>1
<1> QED BY <1>7, <1>8, <1>10, <1>11, <1>12, <1>13 DEF HandlerStep

\* A message that goes back has the target of the worker all speak of, or a second
\* one for anyone is under way.
LEMMA ReturnHolds ==
  ASSUME Inductive, NEW m \in Machines, worker[m].busy,
         commands' = <<worker[m].job>> \o commands,
         loose' \in BOOLEAN, loose \/ worker[m].job.target = NoWorker => loose',
         \A n \in Machines : worker'[n].busy => worker[n].busy /\ worker'[n].job = worker[n].job,
         \A n \in Machines : Knows(n)' => Knows(n) /\ WorkerId(n)' = WorkerId(n),
         UNCHANGED <<row, events, sending, request>>
  PROVE  OneHolder' /\ commands' \in Seq(Command)
<1> USE DEF Inductive
<1>1. worker[m].job \in Command
  BY JobTyped
<1>2. commands' \in Seq(Command)
  BY <1>1 DEF TypeOK
<1>3. CASE loose'
  BY <1>2, <1>3 DEF OneHolder
<1>4. CASE ~ loose'
  <2>1. worker[m].job.target # NoWorker
    BY <1>4
  <2>2. \A h \in Owner : Only(h) => worker[m].job.target = h
    BY <2>1 DEF Only
  <2>3. /\ QueueFree' => QueueFree
        /\ OneInQueue => OneInQueue'
        /\ \A h \in Owner : Only(h) => Targets(h)'
    BY <1>1, <2>1, <2>2, AddTargeted DEF TypeOK, Only
  <2>4. ASSUME NEW h \in Owner, Only(h) PROVE \A n \in Machines : Knows(n)' => WorkerId(n)' = h
    BY <2>4 DEF Only
  <2>5. OneHolder'
    BY <1>4, <2>3, <2>4, StayOnly, StayFree, QuietStep
  <2> QED BY <1>2, <2>5
<1> QED BY <1>3, <1>4

LEMMA NotForMeHolds ==
  ASSUME Inductive, NEW m \in Machines, NotForMe(m) PROVE Inductive'
<1> USE DEF Inductive
<1>1. UNCHANGED <<row, events, loading, sending, request, disk, faults, crowded, loose, hollow, calls>>
  BY DEF NotForMe, Rest, history
<1>2. worker[m].busy /\ worker[m].up /\ worker[m].job.target # NoWorker
  BY BusyIsUp DEF NotForMe, ForMe
<1>3. /\ Idle(m) \in Process /\ ~ Idle(m).busy /\ Idle(m).up /\ Idle(m).self = worker[m].self
      /\ Idle(m).client = worker[m].client /\ Idle(m).tracked = worker[m].tracked
      /\ Idle(m).report = worker[m].report
  BY <1>2, JobTyped DEF Idle, Process
<1>4. Become(m, Idle(m))
  BY DEF NotForMe
<1>5. /\ worker' \in [Machines -> Process] /\ worker'[m] = Idle(m)
      /\ \A n \in Machines \ {m} : worker'[n] = worker[n]
      /\ \A n \in Machines : WorkerId(n)' = WorkerId(n)
  BY <1>3, <1>4, Becoming
<1>6. \A n \in Machines : /\ worker'[n].busy => worker[n].busy /\ worker'[n].job = worker[n].job
                          /\ Knows(n)' => Knows(n)
  BY <1>3, <1>5 DEF Knows
<1>7. OneHolder' /\ commands' \in Seq(Command)
  <2>1. loose' \in BOOLEAN /\ (loose \/ worker[m].job.target = NoWorker => loose')
    BY <1>1, <1>2 DEF TypeOK
  <2> QED BY <1>1, <1>2, <1>5, <1>6, <2>1, ReturnHolds DEF NotForMe
<1>8. TypeOK'
  BY <1>1, <1>5, <1>7 DEF TypeOK
<1>9. Stopped'
  BY <1>1, <1>3, <1>4, StoppedStays DEF TypeOK
<1> QED BY <1>7, <1>8, <1>9

LEMMA LoseConnectionHolds ==
  ASSUME Inductive, NEW m \in Machines, LoseConnection(m) PROVE Inductive'
<1> USE DEF Inductive
<1>1. UNCHANGED <<row, events, worker, loading, sending, request, disk, calls, hollow>>
  BY DEF LoseConnection, Rest
<1>2. /\ faults' \in [number : 0 .. MaxFaults + 1, lossy : BOOLEAN]
      /\ faults'.number >= faults.number
  BY FaultsTyped DEF LoseConnection, AllFaults
<1>3. OneHolder' /\ commands' \in Seq(Command)
  <2>1. loose' \in BOOLEAN /\ (loose \/ worker[m].job.target = NoWorker => loose')
    BY DEF TypeOK, LoseConnection
  <2>2. \A n \in Machines : Knows(n)' => Knows(n) /\ WorkerId(n)' = WorkerId(n)
    BY <1>1 DEF Knows, WorkerId
  <2> QED BY <1>1, <2>1, <2>2, ReturnHolds DEF LoseConnection
<1>4. TypeOK'
  <2>1. crowded' \in BOOLEAN /\ loose' \in BOOLEAN
    BY DEF LoseConnection, TypeOK
  <2> QED BY <1>1, <1>2, <1>3, <2>1 DEF TypeOK
<1>5. Stopped'
  BY <1>1, <1>2, StoppedWaits
<1> QED BY <1>3, <1>4, <1>5


-----------------------------------------------------------------------------
(* The torrent client and the progress reporter *)

\* What a worker does with a torrent it knows.
LEMMA KnownHolds ==
  ASSUME Inductive, NEW m \in Machines, NEW p \in Process, Become(m, p),
         Knows(m), p.self = worker[m].self, p.up,
         p.busy = worker[m].busy, p.job = worker[m].job,
         UNCHANGED <<row, commands, loading, sending, request, disk, crowded, loose, hollow, calls>>,
         faults' \in [number : 0 .. MaxFaults + 1, lossy : BOOLEAN],
         faults'.number >= faults.number,
         NEW type \in {"progress", "completed", "failed"},
         \/ UNCHANGED events
         \/ events' = Append(events, [type |-> type, worker |-> WorkerId(m)])
  PROVE  Inductive'
<1> USE DEF Inductive
<1>1. /\ worker' \in [Machines -> Process] /\ worker'[m] = p
      /\ \A n \in Machines \ {m} : worker'[n] = worker[n]
      /\ \A n \in Machines : WorkerId(n)' = WorkerId(n)
  BY Becoming
<1>2. events' \in Seq(Event) /\ \A h : Senders(h) /\ WorkerId(m) = h => Senders(h)'
  <2>1. CASE UNCHANGED events
    BY <2>1 DEF TypeOK, Senders
  <2>2. CASE events' = Append(events, [type |-> type, worker |-> WorkerId(m)])
    <3>1. PICK e : e = [type |-> type, worker |-> WorkerId(m)]
      OBVIOUS
    <3>2. e \in Event /\ e.worker = WorkerId(m)
      BY <3>1, WorkerIds DEF Event
    <3> QED BY <2>2, <3>1, <3>2, AddEvent DEF TypeOK
  <2> QED BY <2>1, <2>2
<1>3. TypeOK'
  BY <1>1, <1>2 DEF TypeOK
<1>4. Stopped'
  BY StoppedStays
<1>5. \A n \in Machines : worker'[n].busy => worker[n].busy /\ worker'[n].job = worker[n].job
  BY <1>1
<1>6. ASSUME NEW h \in Owner, Only(h)
      PROVE  Senders(h)' /\ \A n \in Machines : Knows(n)' => WorkerId(n)' = h
  BY <1>1, <1>2, <1>6 DEF Only, Knows
<1>7. OneHolder'
  BY <1>5, <1>6, StayOnly, StayFree, QuietStep
<1> QED BY <1>3, <1>4, <1>7

ReporterStep(m) == MetadataArrives(m) \/ UntrackRemoved(m) \/ Report(m) \/ EndReport(m)

LEMMA ReporterHolds ==
  ASSUME Inductive, NEW m \in Machines, ReporterStep(m) PROVE Inductive'
<1> USE DEF Inductive
<1>1. Knows(m) /\ worker[m].up
  <2>1. Knows(m)
    BY DEF ReporterStep, MetadataArrives, UntrackRemoved, Report, EndReport, Polls, Knows
  <2> QED BY <2>1, BusyIsUp
<1>2. UNCHANGED <<row, commands, loading, sending, request, disk, crowded, loose, hollow, calls>>
  BY DEF ReporterStep, MetadataArrives, UntrackRemoved, Report, EndReport, Rest, history
<1>3. UNCHANGED faults \/ Fault("event")
  BY DEF ReporterStep, MetadataArrives, UntrackRemoved, Report, EndReport, Emit
<1>4. /\ faults' \in [number : 0 .. MaxFaults + 1, lossy : BOOLEAN]
      /\ faults'.number >= faults.number
  BY <1>3, FaultsTyped DEF AllFaults
<1>5. PICK type \in {"progress", "completed", "failed"} :
        \/ UNCHANGED events
        \/ events' = Append(events, [type |-> type, worker |-> WorkerId(m)])
  BY DEF ReporterStep, MetadataArrives, UntrackRemoved, Report, EndReport, Emit
<1>6. worker[m] \in Process
  BY JobTyped
<1>7. PICK p \in Process : /\ Become(m, p) /\ p.self = worker[m].self /\ p.up
                           /\ p.busy = worker[m].busy /\ p.job = worker[m].job
  <2>1. CASE MetadataArrives(m)
    <3>1. PICK p : p = [worker[m] EXCEPT !.client = "active"]
      OBVIOUS
    <3>2. p \in Process /\ p.self = worker[m].self /\ p.up
          /\ p.busy = worker[m].busy /\ p.job = worker[m].job
      BY <1>1, <1>6, <3>1 DEF Process
    <3> QED BY <2>1, <3>1, <3>2 DEF MetadataArrives
  <2>2. CASE UntrackRemoved(m)
    <3>1. PICK p : p = [worker[m] EXCEPT !.tracked = "no"]
      OBVIOUS
    <3>2. p \in Process /\ p.self = worker[m].self /\ p.up
          /\ p.busy = worker[m].busy /\ p.job = worker[m].job
      BY <1>1, <1>6, <3>1 DEF Process
    <3> QED BY <2>2, <3>1, <3>2 DEF UntrackRemoved
  <2>3. CASE Report(m)
    <3>1. PICK status \in StatusOf(m) : Become(m, [worker[m] EXCEPT !.report = status])
      BY <2>3 DEF Report
    <3>2. status \in {"downloading", "completed"}
      BY DEF StatusOf
    <3>3. PICK p : p = [worker[m] EXCEPT !.report = status]
      OBVIOUS
    <3>4. p \in Process /\ p.self = worker[m].self /\ p.up
          /\ p.busy = worker[m].busy /\ p.job = worker[m].job
      BY <1>1, <1>6, <3>2, <3>3 DEF Process
    <3> QED BY <3>1, <3>3, <3>4
  <2>4. CASE EndReport(m)
    <3>1. PICK tracked \in {"completed", "yes"} :
            tracked = IF worker[m].report = "completed" THEN "completed" ELSE "yes"
      OBVIOUS
    <3>2. PICK p : p = [worker[m] EXCEPT !.report = "none", !.tracked = tracked]
      OBVIOUS
    <3>3. p \in Process /\ p.self = worker[m].self /\ p.up
          /\ p.busy = worker[m].busy /\ p.job = worker[m].job
      BY <1>1, <1>6, <3>2 DEF Process
    <3> QED BY <2>4, <3>1, <3>2, <3>3 DEF EndReport
  <2> QED BY <2>1, <2>2, <2>3, <2>4 DEF ReporterStep
<1> QED BY <1>1, <1>2, <1>4, <1>5, <1>7, KnownHolds

LEMMA DownloadHolds ==
  ASSUME Inductive, NEW m \in Machines, Download(m) PROVE Inductive'
<1> USE DEF Inductive
<1>1. UNCHANGED <<row, commands, events, worker, loading, sending, request, faults, crowded,
                  loose, hollow, calls>>
  BY DEF Download, Rest, history
<1>2. TypeOK'
  BY <1>1 DEF TypeOK, Download
<1>3. Stopped'
  BY <1>1, StoppedWaits DEF TypeOK
<1>4. OneHolder'
  BY <1>1, StayOnly, StayFree, QuietStep
<1> QED BY <1>2, <1>3, <1>4

-----------------------------------------------------------------------------
(* Restarts *)

LEMMA BeatHolds ==
  ASSUME Inductive, NEW m \in Machines, Beat(m) PROVE Inductive'
<1> USE DEF Inductive
<1>1. UNCHANGED <<row, commands, events, sending, disk, request, calls, faults, crowded, loose,
                  hollow>>
  BY DEF Beat, history
<1>2. PICK p : p = [worker[m] EXCEPT !.fresh = FALSE]
  OBVIOUS
<1>3. /\ p \in Process /\ p.self = worker[m].self /\ p.up
      /\ p.busy = worker[m].busy /\ p.job = worker[m].job
      /\ p.client = worker[m].client /\ p.tracked = worker[m].tracked
      /\ p.report = worker[m].report
  BY <1>2, JobTyped DEF Process, Beat
<1>4. Become(m, p)
  BY <1>2 DEF Beat
<1>5. /\ worker' \in [Machines -> Process] /\ worker'[m] = p
      /\ \A n \in Machines \ {m} : worker'[n] = worker[n]
      /\ \A n \in Machines : WorkerId(n)' = WorkerId(n)
  BY <1>3, <1>4, Becoming
<1>6. TypeOK'
  <2>1. loading' \subseteq Owner
    BY WorkerIds DEF Beat, TypeOK, Owner
  <2> QED BY <1>1, <1>5, <2>1 DEF TypeOK
<1>7. Stopped'
  BY <1>1, <1>3, <1>4, StoppedStays DEF TypeOK
<1>8. \A n \in Machines : /\ worker'[n].busy => worker[n].busy /\ worker'[n].job = worker[n].job
                          /\ Knows(n)' => Knows(n)
  BY <1>3, <1>5 DEF Knows
<1>9. ASSUME NEW h \in Owner, Only(h) PROVE \A n \in Machines : Knows(n)' => WorkerId(n)' = h
  BY <1>5, <1>8, <1>9 DEF Only
<1>10. OneHolder'
  BY <1>1, <1>8, <1>9, StayOnly, StayFree, QuietStep
<1> QED BY <1>6, <1>7, <1>10

\* A process that has stopped knows of no torrent and has no command.
LEMMA CrashHolds ==
  ASSUME Inductive, NEW m \in Machines, Crash(m) PROVE Inductive'
<1> USE DEF Inductive
<1>1. UNCHANGED <<row, events, loading, sending, request, disk, crowded, calls, hollow>>
  BY DEF Crash, Rest
<1>2. /\ faults' \in [number : 0 .. MaxFaults + 1, lossy : BOOLEAN]
      /\ faults'.number = faults.number + 1 /\ faults.number < MaxFaults
      /\ faults.number \in Nat /\ MaxFaults \in Nat
  <2>1. Fault("crash") /\ "crash" \in AllFaults
    BY DEF Crash, AllFaults
  <2>2. faults.number < MaxFaults /\ Happens("crash")
    BY <2>1 DEF Fault
  <2>3. faults'.number = faults.number + 1
    BY <2>2 DEF Happens
  <2> QED BY <2>1, <2>2, <2>3, FaultsTyped, BoundsAssumption DEF TypeOK
<1>3. PICK p : p = [NewProcess EXCEPT !.up = FALSE, !.self = worker[m].self]
  OBVIOUS
<1>4. /\ p \in Process /\ p.self = worker[m].self /\ ~ p.up /\ ~ p.busy
      /\ p.client = "absent" /\ p.tracked = "no" /\ p.report = "none"
  <2>1. worker[m].self \in Selves /\ NoCommand \in Command
    BY JobTyped DEF Process, NoCommand, Command, Owner, AllKinds
  <2> QED BY <1>3, <2>1 DEF NewProcess, Process
<1>5. Become(m, p)
  BY <1>3 DEF Crash
<1>6. /\ worker' \in [Machines -> Process] /\ worker'[m] = p
      /\ \A n \in Machines \ {m} : worker'[n] = worker[n]
      /\ \A n \in Machines : WorkerId(n)' = WorkerId(n)
  BY <1>4, <1>5, Becoming
<1>7. \A n \in Machines : /\ worker'[n].busy => worker[n].busy /\ worker'[n].job = worker[n].job
                          /\ Knows(n)' => Knows(n) /\ WorkerId(n)' = WorkerId(n)
  BY <1>4, <1>6 DEF Knows
<1>8. OneHolder' /\ commands' \in Seq(Command) /\ loose' \in BOOLEAN
  <2>1. CASE worker[m].busy
    <3>1. /\ commands' = <<worker[m].job>> \o commands
          /\ loose' \in BOOLEAN /\ (loose \/ worker[m].job.target = NoWorker => loose')
      BY <2>1 DEF Crash, TypeOK
    <3> QED BY <1>1, <1>7, <2>1, <3>1, ReturnHolds
  <2>2. CASE ~ worker[m].busy
    <3>1. UNCHANGED <<commands, loose>>
      BY <2>2 DEF Crash
    <3>2. ASSUME NEW h \in Owner, Only(h) PROVE \A n \in Machines : Knows(n)' => WorkerId(n)' = h
      BY <1>7, <3>2 DEF Only
    <3>3. OneHolder'
      BY <1>1, <1>7, <3>1, <3>2, StayOnly, StayFree, QuietStep
    <3> QED BY <3>1, <3>3 DEF TypeOK
  <2> QED BY <2>1, <2>2
<1>9. TypeOK'
  BY <1>1, <1>2, <1>6, <1>8 DEF TypeOK
<1>10. Stopped'
  <2>1. \A n \in Machines : worker[n].self \in Nat
    BY BoundsAssumption DEF TypeOK, Process, Selves
  <2>2. StableIds \/ worker[m].self <= faults.number
    BY DEF Stopped
  <2>3. ASSUME NEW n \in Machines \ {m}
        PROVE  /\ ~ worker[n].up =>
                    StableIds \/ (worker[n].self < MaxFaults /\ worker[n].self < faults'.number)
               /\ StableIds \/ worker[n].self <= faults'.number
    BY <1>2, <2>1 DEF Stopped
  <2>4. /\ StableIds \/ (worker[m].self < MaxFaults /\ worker[m].self < faults'.number)
        /\ StableIds \/ worker[m].self <= faults'.number
    BY <1>2, <2>1, <2>2
  <2>5. \A n \in Machines : worker'[n] = IF n = m THEN p ELSE worker[n]
    BY <1>6
  <2> QED BY <1>4, <2>3, <2>4, <2>5 DEF Stopped
<1> QED BY <1>8, <1>9, <1>10

LEMMA BootHolds ==
  ASSUME Inductive, NEW m \in Machines, Boot(m) PROVE Inductive'
<1> USE DEF Inductive
<1>1. UNCHANGED <<row, commands, events, loading, sending, request, disk, faults, crowded,
                  loose, hollow, calls>>
  BY DEF Boot, Rest, history
<1>2. PICK self : self = IF StableIds THEN 0 ELSE worker[m].self + 1
  OBVIOUS
<1>3. /\ self \in Selves /\ (StableIds \/ self <= faults.number)
  <2>1. CASE StableIds
    BY <1>2, <2>1 DEF Selves
  <2>2. CASE ~ StableIds
    <3>1. /\ worker[m].self \in Nat /\ worker[m].self < MaxFaults
          /\ worker[m].self < faults.number /\ faults.number \in Nat /\ MaxFaults \in Nat
      BY <2>2, BoundsAssumption DEF Boot, Stopped, TypeOK, Process, Selves
    <3> QED BY <1>2, <2>2, <3>1 DEF Selves
  <2> QED BY <2>1, <2>2
<1>4. PICK p : p = [NewProcess EXCEPT !.self = self]
  OBVIOUS
<1>5. /\ p \in Process /\ p.self = self /\ p.up /\ ~ p.busy
      /\ p.client = "absent" /\ p.tracked = "no" /\ p.report = "none"
  <2>1. NoCommand \in Command
    BY DEF NoCommand, Command, Owner, AllKinds
  <2> QED BY <1>3, <1>4, <2>1 DEF NewProcess, Process
<1>6. Become(m, p)
  BY <1>2, <1>4 DEF Boot
<1>7. /\ worker' \in [Machines -> Process] /\ worker'[m] = p
      /\ \A n \in Machines \ {m} : worker'[n] = worker[n]
  BY <1>5, <1>6, Becoming
<1>8. /\ \A n \in Machines : worker'[n].busy => worker[n].busy /\ worker'[n].job = worker[n].job
      /\ \A n \in Machines \ {m} : /\ Knows(n)' <=> Knows(n)
                                   /\ WorkerId(n)' = WorkerId(n)
      /\ ~ Knows(m)'
  BY <1>5, <1>7 DEF Knows, WorkerId
<1>9. ASSUME NEW h \in Owner, Only(h) PROVE \A n \in Machines : Knows(n)' => WorkerId(n)' = h
  BY <1>8, <1>9 DEF Only
<1>10. OneHolder'
  BY <1>1, <1>8, <1>9, StayOnly, StayFree, QuietStep
<1>11. TypeOK'
  BY <1>1, <1>7 DEF TypeOK
<1>12. Stopped'
  BY <1>1, <1>3, <1>5, <1>7 DEF Stopped
<1> QED BY <1>10, <1>11, <1>12

LEMMA WorkerHolds ==
  ASSUME Inductive, NEW m \in Machines, WorkerStep(m) PROVE Inductive'
<1>1. CASE HandlerStep(m)
  BY <1>1, HandlerHolds, NotForMeHolds
<1>2. CASE ReporterStep(m)
  BY <1>2, ReporterHolds
<1> QED BY <1>1, <1>2, DeliverHolds, LoseConnectionHolds, DownloadHolds, CrashHolds, BootHolds,
           BeatHolds DEF WorkerStep, ReporterStep

-----------------------------------------------------------------------------

LEMMA InitHolds == Init => Inductive
<1> SUFFICES ASSUME Init PROVE Inductive
  OBVIOUS
<1> USE BoundsAssumption, FlagAssumption
<1>1. 0 \in Selves /\ NoWorker \in Owner /\ NoCommand \in Command
  BY DEF Selves, Owner, NoCommand, Command, AllKinds
<1>2. NewProcess \in Process
  BY <1>1 DEF NewProcess, Process
<1>3. PICK p : p = [NewProcess EXCEPT !.fresh = FALSE]
  OBVIOUS
<1>4. /\ p \in Process /\ p.up /\ ~ p.busy /\ p.self = 0
      /\ p.client = "absent" /\ p.tracked = "no" /\ p.report = "none"
  BY <1>2, <1>3 DEF NewProcess, Process
<1>5. worker = [m \in Machines |-> p]
  BY <1>3 DEF Init
<1>6. IdleRequest \in Request /\ NoRow \in Row
  BY <1>1 DEF IdleRequest, Request, AllKinds, NoRow, Row, Status
<1>7. /\ \A m \in Machines : worker[m] = p
      /\ \A q \in Requests : request[q] = IdleRequest
  BY <1>5 DEF Init
<1>8. /\ row = NoRow /\ commands = <<>> /\ events = <<>> /\ sending = {} /\ loading = {}
      /\ disk = {} /\ calls = 0 /\ faults = [number |-> 0, lossy |-> FALSE]
      /\ crowded = FALSE /\ loose = FALSE /\ hollow = FALSE
  BY DEF Init
<1>9. /\ commands \in Seq(Command) /\ events \in Seq(Event)
      /\ Len(commands) = 0 /\ Len(events) = 0
  BY <1>8
<1>10. TypeOK
  <2>1. /\ worker \in [Machines -> Process]
        /\ request \in [Requests -> Request]
    BY <1>4, <1>5, <1>6 DEF Init
  <2>2. faults \in [number : 0 .. MaxFaults + 1, lossy : BOOLEAN]
    BY DEF Init
  <2>3. calls \in 0 .. MaxCalls
    BY <1>8
  <2> QED BY <1>6, <1>8, <1>9, <2>1, <2>2, <2>3 DEF TypeOK
<1>11. Stopped
  BY <1>4, <1>7, <1>8 DEF Stopped
<1>12. Only(NoWorker)
  BY <1>4, <1>7, <1>8, <1>9 DEF Only, NoRow, IdleRequest, Senders, Targets, Knows
<1>13. ~ AskFree /\ ~ QueueFree /\ ~ HandFree
  BY <1>4, <1>7, <1>9 DEF AskFree, Asks, IdleRequest, QueueFree, HandFree, Has
<1>14. OneFree
  BY <1>13 DEF OneFree, Free, AskFree, QueueFree, HandFree, OneInQueue, Waits
<1> QED BY <1>1, <1>10, <1>11, <1>12, <1>14 DEF Inductive, OneHolder

LEMMA NextHolds == Inductive /\ [Next]_vars => Inductive'
<1> SUFFICES ASSUME Inductive, [Next]_vars PROVE Inductive'
  OBVIOUS
<1>1. CASE Next
  BY <1>1, RequestHolds, RestartServerHolds, LoadActiveHolds, RedispatchHolds,
     RedispatchFailsHolds, WorkerHolds, ConsumerHolds DEF Next
<1>2. CASE UNCHANGED vars
  <2>1. TypeOK' /\ Stopped'
    BY <1>2 DEF Inductive, TypeOK, Stopped, vars, history
  <2>2. OneHolder'
    BY <1>2, StayOnly, StayFree, QuietStep DEF Inductive, vars, history
  <2> QED BY <2>1, <2>2 DEF Inductive
<1> QED BY <1>1, <1>2

\* The inductive invariant of the control of a download.
THEOREM InductiveInvariant == Spec => []Inductive
BY InitHolds, NextHolds, PTL DEF Spec

\* The variables of the model have their types, the ids that processes make up
\* among them.
THEOREM TypeCorrect == Spec => []TypeOK
<1>1. Inductive => TypeOK
  BY DEF Inductive
<1> QED BY <1>1, InductiveInvariant, PTL

\* Of all workers that share the queue of DownloadJobHandler one at most runs the
\* torrent, whatever else is redelivered, restarted and recovered, unless a command
\* besides the first start went without a target, or the first start was redelivered.
THEOREM OneRuns == Spec => []OneRunner
<1>1. Inductive => OneRunner
  <2> SUFFICES ASSUME Inductive, ~ loose PROVE Cardinality({m \in Machines : Running(m)}) <= 1
    BY DEF OneRunner
  <2>1. PICK h \in Owner : Only(h)
    BY DEF Inductive, OneHolder
  <2>2. \A m, n \in Machines : Running(m) /\ Running(n) => m = n
    BY <2>1, WorkerIds DEF Only, Running, Knows, Inductive
  <2>3. CASE \E m \in Machines : Running(m)
    <3>1. PICK m \in Machines : Running(m)
      BY <2>3
    <3>2. {n \in Machines : Running(n)} = {m}
      BY <2>2, <3>1
    <3>3. Cardinality({m}) = 1
      BY FS_Singleton
    <3> QED BY <3>2, <3>3
  <2>4. CASE ~ \E m \in Machines : Running(m)
    <3>1. {n \in Machines : Running(n)} = {}
      BY <2>4
    <3>2. Cardinality({}) = 0
      BY FS_EmptySet
    <3> QED BY <3>1, <3>2
  <2> QED BY <2>3, <2>4
<1> QED BY <1>1, InductiveInvariant, PTL

\* The worker_id in the torrents row, by which the server routes, is never that of
\* another worker than the one that runs the torrent, with the same two exceptions.
THEOREM OwnerIsRunner == Spec => []OwnerRuns
<1>1. Inductive => OwnerRuns
  <2> SUFFICES ASSUME Inductive, ~ loose, NEW m \in Machines, Running(m)
               PROVE  row.owner \in {NoWorker, WorkerId(m)}
    BY DEF OwnerRuns
  <2>1. PICK h \in Owner : Only(h)
    BY DEF Inductive, OneHolder
  <2>2. Knows(m)
    BY DEF Running, Knows
  <2> QED BY <2>1, <2>2 DEF Only
<1> QED BY <1>1, InductiveInvariant, PTL

-----------------------------------------------------------------------------
(* Agreement at rest. One call, one command, one failure is under way at a    *)
(* time, so what the row says is so, or is about to be made so.               *)

\* The commands in the queue, or in the hands of the workers.
Commands(queue, processes) ==
  {queue[i] : i \in 1 .. Len(queue)}
    \cup {processes[m].job : m \in {n \in Machines : processes[n].busy}}
OneCommand(queue, processes) ==
  /\ Len(queue) <= 1
  /\ \A m \in Machines : processes[m].busy => queue = <<>>
  /\ \A m, n \in Machines : processes[m].busy /\ processes[n].busy => m = n

Flying == Commands(commands, worker)
InFlight(actions) == \E c \in Flying : c.action \in actions

Starting == {"start", "resume", "resume_seed"}
Stopping == {"pause", "stop_seed", "remove"}
Resting == {"Paused", "Failed", "SeedingStopped"}

\* The failure of a start or a resume has been reported, but not written to the row.
Failing == \E i \in 1 .. Len(events) : events[i].type = "failed"

\* A call has sent its command, and is about to write the row.
Sent(q) == request[q].pc = "row" /\ request[q].kind # "start"

Gone == \A m \in Machines : worker[m].client = "absent"
Still == \A m \in Machines : ~ Running(m)

\* The torrent is worker m's alone, which has restarted and will ask for it again.
Restarting(m) == ~ worker[m].up \/ worker[m].fresh \/ WorkerId(m) \in loading
Mine(m) == /\ row.owner \in {NoWorker, WorkerId(m)} /\ Senders(WorkerId(m))
           /\ \A n \in Machines : Knows(n) => n = m

Going == \/ ~ Still \/ InFlight({"start", "resume"}) \/ (\E q \in Requests : Asks(q))
         \/ Failing \/ sending # {} \/ \E m \in Machines : Restarting(m) /\ Mine(m)

Clean == StableIds /\ ~ crowded /\ ~ loose /\ ~ faults.lossy

\* One thing happens at a time.
OneAtATime ==
  /\ OneCommand(commands, worker)
  /\ \A p, q \in Requests : request[p].pc # "idle" /\ request[q].pc # "idle" => p = q
  /\ Failing => Still /\ Flying = {}
  /\ Flying # {} => \A m \in Machines : worker[m].client # "fetching"
  /\ \A c \in Flying : c.target = NoWorker => c.action = "start"
  /\ sending # {} => Active /\ \A q \in Requests : ~ Sent(q)

\* What the calls rely on between their steps.
CallsHold == \A q \in Requests :
  /\ Asks(q) => row.status = "Downloading" /\ ~ row.deleted
  /\ request[q].pc # "idle" /\ request[q].kind = "resume_seed" => ~ row.deleted
  /\ Sent(q) =>
       /\ row.status # "None"
       /\ ~ InFlight(AllKinds \ {request[q].kind})
       /\ request[q].kind = "pause" => Flying # {} \/ Still
       /\ request[q].kind \in {"remove", "stop_seed"} => Flying # {} \/ Gone
       /\ request[q].kind = "resume" => Going

\* Of a torrent that is deleted nothing is left but its removal; resuming it fails.
DeletedHolds == row.deleted =>
  /\ ~ InFlight({"start", "resume_seed"})
  /\ InFlight({"remove"}) \/ Gone

\* What the row says is so, or a command will make it so, unless a call is about to write it.
RowHolds == (\E q \in Requests : Sent(q)) \/
  /\ row.status \in Resting => ~ InFlight(Starting) /\ (Flying # {} \/ Still)
  /\ row.status = "Downloading" /\ ~ row.deleted =>
       Going /\ ~ InFlight(AllKinds \ {"start", "resume"})

\* A status that says completed comes from a worker with the files, or from a call
\* that did not ask.
Incomplete ==
  /\ row.status # "Completed"
  /\ \A m \in Machines : worker[m].report # "completed"
  /\ \A i \in 1 .. Len(events) : events[i].type # "completed"

OnDisk == hollow \/ disk # {} \/ Incomplete

Orderly == OneAtATime /\ CallsHold /\ DeletedHolds /\ RowHolds
Agreeing == OnDisk /\ (Clean => Orderly)

-----------------------------------------------------------------------------
(* Commands and events in flight *)

LEMMA CommandsHeld ==
  ASSUME NEW queue \in Seq(Command), NEW processes \in [Machines -> Process]
  PROVE  /\ queue = <<>> /\ (\A m \in Machines : ~ processes[m].busy) =>
              Commands(queue, processes) = {}
         /\ OneCommand(queue, processes) /\ queue # <<>> =>
              Commands(queue, processes) = {Head(queue)}
         /\ \A m \in Machines : OneCommand(queue, processes) /\ processes[m].busy =>
              queue = <<>> /\ Commands(queue, processes) = {processes[m].job}
<1>1. Len(queue) \in Nat /\ (queue = <<>> <=> Len(queue) = 0)
  OBVIOUS
<1>2. CASE queue = <<>>
  <2>1. {queue[i] : i \in 1 .. Len(queue)} = {}
    BY <1>2
  <2>2. Commands(queue, processes) = {processes[m].job : m \in {n \in Machines : processes[n].busy}}
    BY <2>1 DEF Commands
  <2>3. (\A m \in Machines : ~ processes[m].busy) => Commands(queue, processes) = {}
    BY <2>2
  <2>4. ASSUME NEW m \in Machines, OneCommand(queue, processes), processes[m].busy
        PROVE  Commands(queue, processes) = {processes[m].job}
    BY <2>2, <2>4 DEF OneCommand
  <2> QED BY <1>2, <2>3, <2>4
<1>3. CASE queue # <<>>
  <2>1. OneCommand(queue, processes) => \A m \in Machines : ~ processes[m].busy
    BY <1>3 DEF OneCommand
  <2>2. ASSUME OneCommand(queue, processes) PROVE Commands(queue, processes) = {Head(queue)}
    <3>0. Len(queue) <= 1
      BY <2>2 DEF OneCommand
    <3>5. Len(queue) # 0 /\ Len(queue) \in Nat
      BY <1>1, <1>3
    <3>6. \A n \in Nat : n # 0 /\ n <= 1 => n = 1
      OBVIOUS
    <3>1. Len(queue) = 1
      BY <3>0, <3>5, <3>6
    <3>4. Head(queue) = queue[1]
      BY <1>3
    <3>2. {queue[i] : i \in 1 .. Len(queue)} = {Head(queue)}
      BY <3>1, <3>4
    <3> QED BY <2>1, <2>2, <3>2 DEF Commands
  <2> QED BY <1>3, <2>1, <2>2
<1> QED BY <1>2, <1>3

LEMMA FlyingTyped ==
  ASSUME Inductive
  PROVE  \A c \in Flying : c.action \in AllKinds
<1>1. Flying \subseteq Command
  BY JobTyped DEF Flying, Commands, Inductive, TypeOK
<1> QED BY <1>1 DEF Command

LEMMA CommandsStay ==
  ASSUME UNCHANGED commands,
         \A m \in Machines : /\ worker'[m].busy = worker[m].busy
                             /\ worker[m].busy => worker'[m].job = worker[m].job
  PROVE  /\ Flying' = Flying
         /\ OneCommand(commands, worker) => OneCommand(commands', worker')
<1>1. {m \in Machines : worker'[m].busy} = {m \in Machines : worker[m].busy}
  OBVIOUS
<1>2. {worker'[m].job : m \in {n \in Machines : worker[n].busy}} =
        {worker[m].job : m \in {n \in Machines : worker[n].busy}}
  OBVIOUS
<1> QED BY <1>1, <1>2 DEF Flying, Commands, OneCommand

\* The worker that knows the torrent, or has a command for it, is the one it belongs to.
LEMMA Holders ==
  ASSUME Inductive, ~ loose
  PROVE  /\ \A m \in Machines : Knows(m) => Mine(m)
         /\ \A m \in Machines : worker[m].busy /\ ForMe(m) => Mine(m)
         /\ Free \/ row.status = "None" => events = <<>> /\ \A m \in Machines : ~ Knows(m)
<1> USE DEF Inductive
<1>1. PICK h \in Owner : Only(h)
  BY DEF OneHolder
<1>2. Only(NoWorker) => events = <<>> /\ \A m \in Machines : ~ Knows(m)
  <2> SUFFICES ASSUME Only(NoWorker) PROVE events = <<>> /\ \A m \in Machines : ~ Knows(m)
    OBVIOUS
  <2>1. \A i \in 1 .. Len(events) : events[i] \in Event /\ events[i].worker = NoWorker
    BY DEF TypeOK, Only, Senders
  <2>2. \A i \in 1 .. Len(events) : FALSE
    BY <2>1, NoWorkerAssumption, BoundsAssumption DEF Event, Ids, Selves
  <2>3. Len(events) = 0
    BY <2>2 DEF TypeOK
  <2>4. events = <<>>
    BY <2>3 DEF TypeOK
  <2> QED BY <2>4, WorkerIds DEF Only
<1>3. Free \/ row.status = "None" => events = <<>> /\ \A m \in Machines : ~ Knows(m)
  BY <1>2 DEF OneHolder
<1>4. ASSUME NEW m \in Machines, Knows(m) \/ (worker[m].busy /\ worker[m].job.target = WorkerId(m))
      PROVE  Mine(m)
  <2>1. WorkerId(m) = h
    BY <1>1, <1>4, WorkerIds DEF Only
  <2>2. \A n \in Machines : Knows(n) => n = m
    BY <1>1, <2>1, WorkerIds DEF Only
  <2> QED BY <1>1, <2>1, <2>2 DEF Only, Mine
<1>5. ASSUME NEW m \in Machines, worker[m].busy, worker[m].job.target = NoWorker
      PROVE  Mine(m)
  <2>1. Free
    BY <1>5 DEF Free, HandFree, Has
  <2>2. row.owner = NoWorker /\ events = <<>> /\ \A n \in Machines : ~ Knows(n)
    BY <1>3, <2>1 DEF OneHolder, Only
  <2>3. Senders(WorkerId(m))
    BY <2>2 DEF Senders
  <2> QED BY <2>2, <2>3 DEF Mine
<1> QED BY <1>3, <1>4, <1>5 DEF ForMe

\* The queue of the events grows and shrinks.
LEMMA FailureSent ==
  ASSUME events \in Seq(Event), NEW e \in Event, events' = Append(events, e)
  PROVE  /\ Failing' <=> Failing \/ e.type = "failed"
         /\ \A h : Senders(h)' <=> Senders(h) /\ e.worker = h
<1>1. /\ Len(events') = Len(events) + 1 /\ Len(events) \in Nat
      /\ \A i \in 1 .. Len(events) : events'[i] = events[i]
      /\ events'[Len(events) + 1] = e
  OBVIOUS
<1>2. Failing' <=> Failing \/ e.type = "failed"
  <2>1. ASSUME Failing PROVE Failing'
    <3>1. PICK i \in 1 .. Len(events) : events[i].type = "failed"
      BY <2>1 DEF Failing
    <3>2. i \in 1 .. Len(events') /\ events'[i].type = "failed"
      BY <1>1, <3>1
    <3> QED BY <3>2 DEF Failing
  <2>2. ASSUME e.type = "failed" PROVE Failing'
    BY <1>1, <2>2 DEF Failing
  <2>3. ASSUME Failing', e.type # "failed" PROVE Failing
    BY <1>1, <2>3 DEF Failing
  <2> QED BY <2>1, <2>2, <2>3
<1>3. \A h : Senders(h)' <=> Senders(h) /\ e.worker = h
  BY <1>1 DEF Senders
<1> QED BY <1>2, <1>3

LEMMA FailureHandled ==
  ASSUME events \in Seq(Event), events # <<>>, events' = Tail(events)
  PROVE  /\ Failing <=> Failing' \/ Head(events).type = "failed"
         /\ \A h : Senders(h) <=> Senders(h)' /\ Head(events).worker = h
<1>1. /\ Len(events') = Len(events) - 1 /\ Len(events) \in Nat \ {0}
      /\ \A i \in 1 .. Len(events') : events'[i] = events[i + 1]
      /\ Head(events) = events[1]
  OBVIOUS
<1>2. \A i \in 2 .. Len(events) : i - 1 \in 1 .. Len(events') /\ events'[i - 1] = events[i]
  BY <1>1
<1>3. Failing <=> Failing' \/ Head(events).type = "failed"
  <2>1. ASSUME Failing, Head(events).type # "failed" PROVE Failing'
    <3>1. PICK i \in 1 .. Len(events) : events[i].type = "failed"
      BY <2>1 DEF Failing
    <3>2. i \in 2 .. Len(events)
      BY <1>1, <2>1, <3>1
    <3> QED BY <1>2, <3>1, <3>2 DEF Failing
  <2>2. ASSUME Failing' PROVE Failing
    <3>1. PICK i \in 1 .. Len(events') : events'[i].type = "failed"
      BY <2>2 DEF Failing
    <3>2. i + 1 \in 1 .. Len(events) /\ events[i + 1].type = "failed"
      BY <1>1, <3>1
    <3> QED BY <3>2 DEF Failing
  <2>3. Head(events).type = "failed" => Failing
    BY <1>1 DEF Failing
  <2> QED BY <2>1, <2>2, <2>3
<1>4. \A h : Senders(h) <=> Senders(h)' /\ Head(events).worker = h
  <2>1. ASSUME NEW h, Senders(h) PROVE Senders(h)' /\ Head(events).worker = h
    BY <1>1, <2>1 DEF Senders
  <2>2. ASSUME NEW h, Senders(h)', Head(events).worker = h PROVE Senders(h)
    <3>1. ASSUME NEW i \in 1 .. Len(events) PROVE events[i].worker = h
      <4>1. CASE i = 1
        BY <1>1, <2>2, <4>1
      <4>2. CASE i # 1
        <5>1. i \in 2 .. Len(events)
          BY <1>1, <4>2
        <5> QED BY <1>2, <2>2, <5>1 DEF Senders
      <4> QED BY <4>1, <4>2
    <3> QED BY <3>1 DEF Senders
  <2> QED BY <2>1, <2>2
<1> QED BY <1>3, <1>4

\* A lossy fault is remembered.
LEMMA Remembered ==
  ASSUME NEW kind, Happens(kind)
  PROVE  (faults'.lossy <=> faults.lossy \/ kind \in LossyFaults)
<1>1. PICK lossy \in BOOLEAN : lossy <=> faults.lossy \/ kind \in LossyFaults
  BY Zenon
<1>2. lossy = (faults.lossy \/ kind \in LossyFaults)
  BY <1>1
<1>3. faults' = [number |-> faults.number + 1, lossy |-> lossy]
  BY <1>2 DEF Happens
<1>4. faults'.lossy = lossy
  BY <1>3
<1> QED BY <1>1, <1>4

\* A step that leaves calls, commands and the status alone.
LEMMA Quiet ==
  ASSUME Orderly, Flying' = Flying, OneCommand(commands', worker'),
         UNCHANGED request, row'.status = row.status, row'.deleted = row.deleted,
         sending' # {} => sending # {} \/ (Active /\ ~ Calling),
         Failing' => Failing, Still => Still', Gone => Gone',
         \A m \in Machines : worker'[m].client = "fetching" => worker[m].client = "fetching",
         Going /\ (Active \/ Calling) => Going'
  PROVE  Orderly'
<1>1. /\ \A actions : InFlight(actions)' <=> InFlight(actions)
      /\ \A q \in Requests : Sent(q)' <=> Sent(q)
      /\ \A q \in Requests : Asks(q)' <=> Asks(q)
      /\ Active' <=> Active
      /\ \A q \in Requests : Sent(q) => Calling
  BY DEF InFlight, Sent, Asks, Active, Calling
<1>2. OneAtATime'
  <2>1. Failing' => Still' /\ Flying' = {}
    BY DEF Orderly, OneAtATime
  <2>2. sending' # {} => Active' /\ \A q \in Requests : ~ Sent(q)'
    BY <1>1 DEF Orderly, OneAtATime
  <2>3. Flying' # {} => \A m \in Machines : worker'[m].client # "fetching"
    BY DEF Orderly, OneAtATime
  <2>4. \A c \in Flying' : c.target = NoWorker => c.action = "start"
    BY DEF Orderly, OneAtATime
  <2>5. \A p, q \in Requests : request'[p].pc # "idle" /\ request'[q].pc # "idle" => p = q
    BY DEF Orderly, OneAtATime
  <2> QED BY <2>1, <2>2, <2>3, <2>4, <2>5 DEF OneAtATime
<1>3. CallsHold'
  BY <1>1 DEF Orderly, CallsHold
<1>4. RowHolds'
  <2>1. CASE \E q \in Requests : Sent(q)
    BY <1>1, <2>1 DEF RowHolds
  <2>2. CASE ~ \E q \in Requests : Sent(q)
    <3>1. row.status = "Downloading" /\ ~ row.deleted => Active
      BY DEF Active
    <3> QED BY <1>1, <2>2, <3>1 DEF Orderly, RowHolds
  <2> QED BY <2>1, <2>2
<1>5. DeletedHolds'
  BY <1>1 DEF Orderly, DeletedHolds
<1> QED BY <1>2, <1>3, <1>4, <1>5 DEF Orderly

-----------------------------------------------------------------------------
(* What the workers do without a command, and restarts *)

\* A worker moves on, or stops, and starts nothing.
LEMMA WorkerMoves ==
  ASSUME Inductive, Orderly, ~ loose, NEW m \in Machines, NEW p \in Process, Become(m, p),
         WorkerId(m)' = WorkerId(m),
         Flying' = Flying, OneCommand(commands', worker'),
         UNCHANGED <<row, request, sending>>, loading \subseteq loading',
         \/ p.client = worker[m].client
         \/ worker[m].client = "fetching" /\ p.client = "active"
         \/ p.client = "absent" /\ ~ p.up,
         Knows(m)' => Knows(m),
         ~ worker[m].up \/ worker[m].fresh => ~ p.up \/ p.fresh \/ WorkerId(m) \in loading',
         NEW type \in {"progress", "completed"},
         \/ UNCHANGED events
         \/ Knows(m) /\ events' = Append(events, [type |-> type, worker |-> WorkerId(m)])
  PROVE  Orderly'
<1>1. /\ worker'[m] = p
      /\ \A n \in Machines \ {m} : worker'[n] = worker[n]
  BY Becoming DEF Inductive
<1>2. \A n \in Machines : WorkerId(n)' = WorkerId(n) /\ (Knows(n)' => Knows(n))
  BY <1>1 DEF WorkerId, Knows
<1>3. /\ Failing' <=> Failing
      /\ \A k \in Machines : Mine(k) => Senders(WorkerId(k))'
  <2>1. CASE UNCHANGED events
    BY <1>2, <2>1 DEF Failing, Mine, Senders
  <2>2. CASE Knows(m) /\ events' = Append(events, [type |-> type, worker |-> WorkerId(m)])
    <3>1. PICK e : e = [type |-> type, worker |-> WorkerId(m)]
      OBVIOUS
    <3>2. e \in Event /\ e.worker = WorkerId(m) /\ e.type # "failed"
      BY <3>1, WorkerIds DEF Event, Inductive
    <3>3. /\ Failing' <=> Failing
          /\ \A h : Senders(h)' <=> Senders(h) /\ e.worker = h
      BY <2>2, <3>1, <3>2, FailureSent DEF Inductive, TypeOK
    <3> QED BY <2>2, <3>2, <3>3 DEF Mine
  <2> QED BY <2>1, <2>2
<1>4. \A k \in Machines : Mine(k) => Mine(k)'
  BY <1>2, <1>3 DEF Mine
<1>5. \A k \in Machines : Restarting(k) => Restarting(k)'
  BY <1>1, <1>2 DEF Restarting
<1>6. Going => Going'
  <2>1. CASE \E n \in Machines : Running(n)
    <3>1. PICK n \in Machines : Running(n)
      BY <2>1
    <3>2. CASE Running(n)'
      BY <3>2 DEF Going, Still
    <3>3. CASE ~ Running(n)'
      <4>1. n = m /\ ~ p.up
        BY <1>1, <3>1, <3>3 DEF Running
      <4>2. Knows(m)
        BY <3>1, <4>1 DEF Knows, Running
      <4>3. Restarting(m)' /\ Mine(m)'
        BY <1>1, <1>4, <4>1, <4>2, Holders DEF Restarting
      <4> QED BY <4>3 DEF Going
    <3> QED BY <3>2, <3>3
  <2>2. InFlight({"start", "resume"})' <=> InFlight({"start", "resume"})
    BY DEF InFlight
  <2>3. (\E q \in Requests : Asks(q)) => \E q \in Requests : Asks(q)'
    BY DEF Asks
  <2>4. (\E k \in Machines : Restarting(k) /\ Mine(k)) =>
          \E k \in Machines : Restarting(k)' /\ Mine(k)'
    BY <1>4, <1>5
  <2> QED BY <1>3, <2>1, <2>2, <2>3, <2>4 DEF Going, Still
<1>7. /\ Still => Still'
      /\ Gone => Gone'
      /\ \A n \in Machines : worker'[n].client = "fetching" => worker[n].client = "fetching"
  BY <1>1 DEF Still, Gone, Running
<1> QED BY <1>3, <1>6, <1>7, Quiet

\* A worker's command stays the same, or the worker has none.
LEMMA HandsStay ==
  ASSUME Inductive, NEW m \in Machines, NEW p \in Process, Become(m, p), UNCHANGED commands,
         p.busy = worker[m].busy, p.job = worker[m].job \/ ~ p.busy
  PROVE  /\ Flying' = Flying
         /\ OneCommand(commands, worker) => OneCommand(commands', worker')
<1>1. /\ worker'[m] = p
      /\ \A n \in Machines \ {m} : worker'[n] = worker[n]
  BY Becoming DEF Inductive
<1> QED BY <1>1, CommandsStay

LEMMA ReporterOrderly ==
  ASSUME Inductive, Orderly, ~ loose, ~ faults'.lossy, NEW m \in Machines, ReporterStep(m)
  PROVE  Orderly'
<1>1. Knows(m) /\ worker[m].up
  <2>1. Knows(m)
    BY DEF ReporterStep, MetadataArrives, UntrackRemoved, Report, EndReport, Polls, Knows
  <2> QED BY <2>1, BusyIsUp DEF Inductive
<1>2. UNCHANGED <<row, commands, loading, sending, request>>
  BY DEF ReporterStep, MetadataArrives, UntrackRemoved, Report, EndReport, Rest
<1>3. PICK type \in {"progress", "completed"} :
        \/ UNCHANGED events
        \/ events' = Append(events, [type |-> type, worker |-> WorkerId(m)])
  BY DEF ReporterStep, MetadataArrives, UntrackRemoved, Report, EndReport, Emit
<1>4. worker[m] \in Process
  BY JobTyped DEF Inductive
<1>5. ASSUME NEW p \in Process, Become(m, p), p.self = worker[m].self,
             p.busy = worker[m].busy, p.job = worker[m].job,
             \/ p.client = worker[m].client
             \/ worker[m].client = "fetching" /\ p.client = "active",
             p.fresh = worker[m].fresh
      PROVE  Orderly'
  <2>1. Flying' = Flying /\ OneCommand(commands', worker')
    BY <1>2, <1>5, HandsStay DEF Orderly, OneAtATime
  <2>2. WorkerId(m)' = WorkerId(m)
    BY <1>5, Becoming DEF Inductive
  <2> QED BY <1>1, <1>2, <1>3, <1>5, <2>1, <2>2, WorkerMoves
<1>6. CASE MetadataArrives(m)
  <2>1. PICK p : p = [worker[m] EXCEPT !.client = "active"]
    OBVIOUS
  <2>2. /\ p \in Process /\ p.self = worker[m].self /\ p.client = "active"
        /\ p.busy = worker[m].busy /\ p.job = worker[m].job /\ p.fresh = worker[m].fresh
    BY <1>4, <2>1 DEF Process
  <2> QED BY <1>5, <1>6, <2>1, <2>2 DEF MetadataArrives
<1>7. CASE UntrackRemoved(m)
  <2>1. PICK p : p = [worker[m] EXCEPT !.tracked = "no"]
    OBVIOUS
  <2>2. /\ p \in Process /\ p.self = worker[m].self /\ p.client = worker[m].client
        /\ p.busy = worker[m].busy /\ p.job = worker[m].job /\ p.fresh = worker[m].fresh
    BY <1>4, <2>1 DEF Process
  <2> QED BY <1>5, <1>7, <2>1, <2>2 DEF UntrackRemoved
<1>8. CASE Report(m)
  <2>1. PICK status \in StatusOf(m) : Become(m, [worker[m] EXCEPT !.report = status])
    BY <1>8 DEF Report
  <2>2. status \in {"downloading", "completed"}
    BY DEF StatusOf
  <2>3. PICK p : p = [worker[m] EXCEPT !.report = status]
    OBVIOUS
  <2>4. /\ p \in Process /\ p.self = worker[m].self /\ p.client = worker[m].client
        /\ p.busy = worker[m].busy /\ p.job = worker[m].job /\ p.fresh = worker[m].fresh
    BY <1>4, <2>2, <2>3 DEF Process
  <2> QED BY <1>5, <2>1, <2>3, <2>4
<1>9. CASE EndReport(m)
  <2>1. PICK tracked \in {"completed", "yes"} :
          tracked = IF worker[m].report = "completed" THEN "completed" ELSE "yes"
    OBVIOUS
  <2>2. PICK p : p = [worker[m] EXCEPT !.report = "none", !.tracked = tracked]
    OBVIOUS
  <2>3. /\ p \in Process /\ p.self = worker[m].self /\ p.client = worker[m].client
        /\ p.busy = worker[m].busy /\ p.job = worker[m].job /\ p.fresh = worker[m].fresh
    BY <1>4, <2>2 DEF Process
  <2> QED BY <1>5, <1>9, <2>1, <2>2, <2>3 DEF EndReport
<1> QED BY <1>6, <1>7, <1>8, <1>9 DEF ReporterStep

LEMMA DeliverOrderly ==
  ASSUME Inductive, Orderly, ~ loose, NEW m \in Machines, Deliver(m)
  PROVE  Orderly'
<1>1. UNCHANGED <<row, events, loading, sending, request>>
  BY DEF Deliver, Rest
<1>2. PICK job : job = Head(commands)
  OBVIOUS
<1>3. OneCommand(commands, worker) /\ commands \in Seq(Command) /\ worker \in [Machines -> Process]
  BY DEF Orderly, OneAtATime, Inductive, TypeOK
<1>4. /\ commands # <<>> /\ commands' = <<>> /\ job \in Command
      /\ \A n \in Machines : ~ worker[n].busy
  <2>1. commands # <<>> /\ Len(commands) <= 1 /\ commands' = Tail(commands)
    BY <1>3 DEF OneCommand, Deliver
  <2>2. Len(commands') = Len(commands) - 1 /\ commands' \in Seq(Command) /\ Len(commands) \in Nat
        /\ Len(commands) # 0 /\ job \in Command
    BY <1>2, <1>3, <2>1
  <2>3. Len(commands') = 0
    BY <2>1, <2>2
  <2> QED BY <1>3, <2>1, <2>2, <2>3 DEF OneCommand
<1>5. PICK p : p = [worker[m] EXCEPT !.busy = TRUE, !.job = job]
  OBVIOUS
<1>6. /\ p \in Process /\ p.busy /\ p.job = job /\ p.up = worker[m].up
      /\ p.self = worker[m].self /\ p.client = worker[m].client /\ p.fresh = worker[m].fresh
      /\ p.tracked = worker[m].tracked /\ p.report = worker[m].report
  BY <1>4, <1>5, JobTyped DEF Process, Inductive
<1>7. Become(m, p)
  BY <1>2, <1>5 DEF Deliver
<1>8. /\ worker' \in [Machines -> Process] /\ worker'[m] = p
      /\ \A n \in Machines \ {m} : worker'[n] = worker[n]
      /\ WorkerId(m)' = WorkerId(m)
  BY <1>6, <1>7, Becoming DEF Inductive
<1>9. OneCommand(commands', worker')
  BY <1>4, <1>8 DEF OneCommand
<1>10. Flying' = Flying
  <2>1. Flying = {job}
    BY <1>2, <1>3, <1>4, CommandsHeld DEF Flying
  <2>2. Flying' = {job}
    <3>1. commands' \in Seq(Command)
      BY <1>4
    <3> QED BY <3>1, <1>4, <1>6, <1>8, <1>9, CommandsHeld DEF Flying
  <2> QED BY <2>1, <2>2
<1>11. Knows(m)' => Knows(m)
  BY <1>6, <1>8 DEF Knows
<1> QED BY <1>1, <1>6, <1>7, <1>8, <1>9, <1>10, <1>11, WorkerMoves

\* A command goes back to the queue from where it was.
LEMMA Returned ==
  ASSUME Inductive, OneCommand(commands, worker), NEW m \in Machines, NEW p \in Process,
         Become(m, p), worker[m].busy, ~ p.busy, commands' = <<worker[m].job>> \o commands
  PROVE  Flying' = Flying /\ OneCommand(commands', worker')
<1>1. PICK job \in Command : job = worker[m].job
  BY JobTyped DEF Inductive
<1>2. commands \in Seq(Command) /\ worker \in [Machines -> Process]
  BY DEF Inductive, TypeOK
<1>3. commands = <<>> /\ Flying = {job}
  BY <1>1, <1>2, CommandsHeld DEF Flying
<1>4. commands' = <<job>> \o <<>>
  BY <1>1, <1>3
<1>5. commands' = <<job>> /\ commands' \in Seq(Command) /\ commands' # <<>> /\ Len(commands') = 1
      /\ Head(commands') = job
  <2>1. <<job>> \in Seq(Command) /\ Len(<<job>>) = 1 /\ Head(<<job>>) = job
    OBVIOUS
  <2>2. \A s \in Seq(Command) : s \o <<>> = s
    OBVIOUS
  <2>3. commands' = <<job>>
    BY <1>4, <2>1, <2>2
  <2>4. <<job>> # <<>>
    OBVIOUS
  <2> QED BY <2>1, <2>3, <2>4
<1>6. worker' \in [Machines -> Process] /\ \A n \in Machines : ~ worker'[n].busy
  <2>1. worker' \in [Machines -> Process] /\ ~ worker'[m].busy
        /\ \A n \in Machines \ {m} : worker'[n] = worker[n]
    BY Becoming DEF Inductive
  <2>2. \A n \in Machines \ {m} : ~ worker[n].busy
    BY DEF OneCommand
  <2> QED BY <2>1, <2>2
<1>7. OneCommand(commands', worker')
  BY <1>5, <1>6 DEF OneCommand
<1>8. Flying' = {job}
  BY <1>5, <1>6, <1>7, CommandsHeld DEF Flying
<1> QED BY <1>3, <1>7, <1>8

LEMMA NotForMeOrderly ==
  ASSUME Inductive, Orderly, ~ loose, NEW m \in Machines, NotForMe(m) PROVE Orderly'
<1>1. UNCHANGED <<row, events, loading, sending, request>> /\ worker[m].busy
      /\ commands' = <<worker[m].job>> \o commands
  BY DEF NotForMe, Rest
<1>2. PICK p : p = Idle(m)
  OBVIOUS
<1>3. /\ p \in Process /\ ~ p.busy /\ p.up = worker[m].up /\ p.self = worker[m].self
      /\ p.client = worker[m].client /\ p.fresh = worker[m].fresh
      /\ p.tracked = worker[m].tracked /\ p.report = worker[m].report
  BY <1>2, JobTyped DEF Idle, Process, Inductive
<1>4. Become(m, p)
  BY <1>2 DEF NotForMe
<1>5. Flying' = Flying /\ OneCommand(commands', worker')
  BY <1>1, <1>3, <1>4, Returned DEF Orderly, OneAtATime
<1>6. worker'[m] = p /\ WorkerId(m)' = WorkerId(m)
  BY <1>3, <1>4, Becoming DEF Inductive
<1>7. Knows(m)' => Knows(m)
  BY <1>3, <1>6 DEF Knows
<1> QED BY <1>1, <1>3, <1>4, <1>5, <1>6, <1>7, WorkerMoves

\* A restarted worker will ask for the torrent, and gets back the command it had.
LEMMA CrashOrderly ==
  ASSUME Inductive, Orderly, ~ loose, NEW m \in Machines, Crash(m) PROVE Orderly'
<1>1. UNCHANGED <<row, events, loading, sending, request>>
  BY DEF Crash, Rest
<1>2. PICK p : p = [NewProcess EXCEPT !.up = FALSE, !.self = worker[m].self]
  OBVIOUS
<1>3. /\ p \in Process /\ p.self = worker[m].self /\ ~ p.up /\ ~ p.busy
      /\ p.client = "absent" /\ p.tracked = "no" /\ p.report = "none"
  <2>1. worker[m].self \in Selves /\ NoCommand \in Command
    BY JobTyped DEF Process, NoCommand, Command, Owner, AllKinds, Inductive
  <2> QED BY <1>2, <2>1 DEF NewProcess, Process
<1>4. Become(m, p)
  BY <1>2 DEF Crash
<1>5. Flying' = Flying /\ OneCommand(commands', worker')
  <2>1. CASE worker[m].busy
    BY <1>3, <1>4, <2>1, Returned DEF Crash, Orderly, OneAtATime
  <2>2. CASE ~ worker[m].busy
    <3>1. UNCHANGED commands
      BY <2>2 DEF Crash
    <3>2. worker[m].busy = FALSE /\ p.busy = FALSE
      BY <1>3, <2>2, JobTyped DEF Process, Inductive
    <3> QED BY <1>3, <1>4, <3>1, <3>2, HandsStay DEF Orderly, OneAtATime
  <2> QED BY <2>1, <2>2
<1>6. worker'[m] = p /\ WorkerId(m)' = WorkerId(m)
  BY <1>3, <1>4, Becoming DEF Inductive
<1>7. ~ Knows(m)'
  BY <1>3, <1>6 DEF Knows
<1> QED BY <1>1, <1>3, <1>4, <1>5, <1>6, <1>7, WorkerMoves

LEMMA BootOrderly ==
  ASSUME Inductive, Orderly, ~ loose, StableIds, NEW m \in Machines, Boot(m) PROVE Orderly'
<1>1. UNCHANGED <<row, commands, events, loading, sending, request>> /\ ~ worker[m].up
  BY DEF Boot, Rest
<1>2. PICK p : p = [NewProcess EXCEPT !.self = 0]
  OBVIOUS
<1>3. /\ p \in Process /\ p.self = 0 /\ p.up /\ p.fresh /\ ~ p.busy
      /\ p.client = "absent" /\ p.tracked = "no" /\ p.report = "none"
  <2>1. NoCommand \in Command /\ 0 \in Selves
    BY BoundsAssumption DEF NoCommand, Command, Owner, AllKinds, Selves
  <2> QED BY <1>2, <2>1 DEF NewProcess, Process
<1>4. Become(m, p)
  BY <1>2 DEF Boot
<1>5. worker[m].self = 0 /\ ~ worker[m].busy /\ worker[m].client = "absent"
  BY <1>1 DEF Inductive, TypeOK, Stopped, Process, Selves
<1>6. worker[m].busy = FALSE /\ p.busy = FALSE
  BY <1>3, <1>5, JobTyped DEF Process, Inductive
<1>7. Flying' = Flying /\ OneCommand(commands', worker')
  BY <1>1, <1>3, <1>4, <1>6, HandsStay DEF Orderly, OneAtATime
<1>8. worker'[m] = p /\ WorkerId(m)' = WorkerId(m)
  BY <1>3, <1>4, <1>5, Becoming DEF Inductive
<1>9. ~ Knows(m)'
  BY <1>3, <1>8 DEF Knows
<1> QED BY <1>1, <1>3, <1>4, <1>5, <1>7, <1>8, <1>9, WorkerMoves

LEMMA BeatOrderly ==
  ASSUME Inductive, Orderly, ~ loose, NEW m \in Machines, Beat(m) PROVE Orderly'
<1>1. UNCHANGED <<row, commands, events, sending, request>>
      /\ loading' = loading \cup {WorkerId(m)} /\ worker[m].up
  BY DEF Beat
<1>2. PICK p : p = [worker[m] EXCEPT !.fresh = FALSE]
  OBVIOUS
<1>3. /\ p \in Process /\ p.self = worker[m].self /\ p.up = worker[m].up
      /\ p.busy = worker[m].busy /\ p.job = worker[m].job
      /\ p.client = worker[m].client /\ p.tracked = worker[m].tracked
      /\ p.report = worker[m].report
  BY <1>2, JobTyped DEF Process, Inductive
<1>4. Become(m, p)
  BY <1>2 DEF Beat
<1>5. Flying' = Flying /\ OneCommand(commands', worker')
  BY <1>1, <1>3, <1>4, HandsStay DEF Orderly, OneAtATime
<1>6. worker'[m] = p /\ WorkerId(m)' = WorkerId(m)
  BY <1>3, <1>4, Becoming DEF Inductive
<1>7. Knows(m)' => Knows(m)
  BY <1>3, <1>6 DEF Knows
<1> QED BY <1>1, <1>3, <1>4, <1>5, <1>6, <1>7, WorkerMoves

-----------------------------------------------------------------------------
(* Recoveries of the server, and the handlers of the events *)

\* Steps that the workers, the commands and the calls do not notice.
LEMMA Unnoticed ==
  ASSUME Orderly, UNCHANGED <<commands, worker, request>>,
         row'.status = row.status, row'.deleted = row.deleted,
         sending \subseteq sending',
         sending' # {} => sending # {} \/ (Active /\ ~ Calling),
         Failing' <=> Failing,
         (\E m \in Machines : Restarting(m) /\ Mine(m)) /\ (Active \/ Calling) =>
           sending' # {} \/ \E m \in Machines : Restarting(m)' /\ Mine(m)'
  PROVE  Orderly'
<1>1. Flying' = Flying /\ OneCommand(commands', worker')
  BY CommandsStay DEF Orderly, OneAtATime
<1>2. /\ Still' <=> Still
      /\ Gone => Gone'
      /\ \A m \in Machines : worker'[m].client = "fetching" => worker[m].client = "fetching"
  BY DEF Still, Gone, Running
<1>3. /\ InFlight({"start", "resume"})' <=> InFlight({"start", "resume"})
      /\ (\E q \in Requests : Asks(q)) => \E q \in Requests : Asks(q)'
  BY <1>1 DEF InFlight, Asks
<1>4. Going /\ (Active \/ Calling) => Going'
  BY <1>2, <1>3 DEF Going
<1> QED BY <1>1, <1>2, <1>4, Quiet

LEMMA RestartServerOrderly ==
  ASSUME Inductive, Orderly, RestartServer PROVE Orderly'
<1>1. UNCHANGED <<row, commands, events, worker, sending, request>> /\ loading \subseteq loading'
  BY DEF RestartServer, Workers
<1>2. \A m \in Machines : Restarting(m) /\ Mine(m) => Restarting(m)' /\ Mine(m)'
  BY <1>1 DEF Restarting, Mine, WorkerId, Senders, Knows
<1>3. Failing' <=> Failing
  BY <1>1 DEF Failing
<1> QED BY <1>1, <1>2, <1>3, Unnoticed

\* The recovery of a worker that restarted finds the torrent that was its own.
LEMMA LoadActiveOrderly ==
  ASSUME Inductive, Orderly, NEW booting \in Owner, LoadActive(booting), ~ crowded', ~ loose'
  PROVE  Orderly'
<1>1. UNCHANGED <<row, commands, events, worker, request>> /\ ~ Calling
      /\ loading' = loading \ {booting}
  BY DEF LoadActive, Workers
<1>2. Failing' <=> Failing
  BY <1>1 DEF Failing
<1>3. CASE Recoverable(booting)
  <2>1. sending \subseteq sending' /\ sending' # {} /\ Active
    BY <1>3 DEF LoadActive, Recoverable
  <2> QED BY <1>1, <1>2, <2>1, Unnoticed
<1>4. CASE ~ Recoverable(booting)
  <2>1. UNCHANGED sending
    BY <1>4 DEF LoadActive
  <2>2. ASSUME NEW m \in Machines, Restarting(m), Mine(m), Active
        PROVE  Restarting(m)' /\ Mine(m)'
    <3>1. Mine(m)'
      BY <1>1, <2>2 DEF Mine, WorkerId, Senders, Knows
    <3>2. booting # WorkerId(m)
      BY <1>4, <2>2 DEF Recoverable, Mine
    <3> QED BY <1>1, <2>2, <3>1, <3>2 DEF Restarting, WorkerId
  <2> QED BY <1>1, <1>2, <2>1, <2>2, Unnoticed
<1> QED BY <1>3, <1>4

LEMMA ProgressOrderly ==
  ASSUME Inductive, Orderly, PersistProgress \/ SkipPersist PROVE Orderly'
<1>1. UNCHANGED <<commands, worker, request, sending, loading>>
      /\ events # <<>> /\ events' = Tail(events) /\ Head(events).type = "progress"
  BY DEF PersistProgress, SkipPersist, Handles, Others
<1>2. row'.status = row.status /\ row'.deleted = row.deleted /\ row'.owner \in {row.owner, Sender}
  BY DEF PersistProgress, SkipPersist, IfPresent, Inductive, TypeOK, Row
<1>3. /\ Failing' <=> Failing
      /\ \A h : Senders(h) => Senders(h)' /\ Sender = h
  BY <1>1, FailureHandled DEF Inductive, TypeOK, Sender
<1>4. ASSUME NEW m \in Machines, Restarting(m), Mine(m) PROVE Restarting(m)' /\ Mine(m)'
  <2>1. WorkerId(m)' = WorkerId(m) /\ Restarting(m)'
    BY <1>1, <1>4 DEF WorkerId, Restarting
  <2>2. \A n \in Machines : Knows(n)' <=> Knows(n)
    BY <1>1 DEF Knows
  <2> QED BY <1>2, <1>3, <1>4, <2>1, <2>2 DEF Mine
<1> QED BY <1>1, <1>2, <1>3, <1>4, Unnoticed

\* A completion arrives only after the torrent was started and its owner is known.
LEMMA CompleteRowOrderly ==
  ASSUME Inductive, Orderly, ~ loose, CompleteRow PROVE Orderly'
<1>1. UNCHANGED <<commands, worker, request, sending, loading>>
      /\ events # <<>> /\ events' = Tail(events) /\ Head(events).type = "completed"
  BY DEF CompleteRow, Handles, Others
<1>2. row'.status = "Completed" /\ row'.deleted = row.deleted /\ row'.owner = Sender
  <2>1. row.status # "None"
    BY <1>1, Holders
  <2> QED BY <2>1 DEF CompleteRow, IfPresent, Inductive, TypeOK, Row
<1>3. /\ Failing' <=> Failing
      /\ \A h : Senders(h) => Senders(h)' /\ Sender = h
  BY <1>1, FailureHandled DEF Inductive, TypeOK, Sender
<1>4. ASSUME NEW m \in Machines, Restarting(m), Mine(m) PROVE Restarting(m)' /\ Mine(m)'
  <2>1. WorkerId(m)' = WorkerId(m) /\ Restarting(m)'
    BY <1>1, <1>4 DEF WorkerId, Restarting
  <2>2. \A n \in Machines : Knows(n)' <=> Knows(n)
    BY <1>1 DEF Knows
  <2> QED BY <1>2, <1>3, <1>4, <2>1, <2>2 DEF Mine
<1>5. \A q \in Requests : ~ Asks(q)
  BY <1>1, Holders DEF Free, AskFree
<1>6. Flying' = Flying /\ OneCommand(commands', worker')
  BY <1>1, CommandsStay DEF Orderly, OneAtATime
<1>7. /\ \A actions : InFlight(actions)' <=> InFlight(actions)
      /\ \A q \in Requests : Sent(q)' <=> Sent(q)
      /\ \A q \in Requests : ~ Asks(q)'
      /\ Active => Active'
      /\ Still' <=> Still
      /\ Gone' <=> Gone
  BY <1>1, <1>2, <1>5, <1>6 DEF InFlight, Sent, Asks, Active, Still, Gone, Running
<1>8. Going => Going'
  BY <1>1, <1>3, <1>4, <1>5, <1>7 DEF Going
<1>9. OneAtATime'
  BY <1>1, <1>3, <1>6, <1>7 DEF Orderly, OneAtATime
<1>10. CallsHold'
  BY <1>1, <1>2, <1>6, <1>7, <1>8 DEF Orderly, CallsHold
<1>11. RowHolds'
  BY <1>2, <1>6, <1>7 DEF Orderly, RowHolds, Resting
<1>12. DeletedHolds'
  BY <1>2, <1>7 DEF Orderly, DeletedHolds
<1> QED BY <1>9, <1>10, <1>11, <1>12 DEF Orderly

\* Nothing runs once a start has failed.
LEMMA FailRowOrderly ==
  ASSUME Inductive, Orderly, ~ loose, FailRow, ~ crowded' PROVE Orderly'
<1>1. UNCHANGED <<commands, worker, request, sending, loading>>
      /\ events # <<>> /\ events' = Tail(events) /\ Head(events).type = "failed"
  BY DEF FailRow, Handles, Others
<1>2. row'.status = "Failed" /\ row'.deleted = row.deleted
  <2>1. row.status # "None"
    BY <1>1, Holders
  <2> QED BY <2>1 DEF FailRow, IfPresent, Inductive, TypeOK, Row
<1>3. Failing /\ (Failing' => Failing)
  BY <1>1, FailureHandled DEF Inductive, TypeOK
<1>4. Still /\ Flying = {} /\ sending = {} /\ \A q \in Requests : request[q].pc = "idle"
  BY <1>3 DEF Orderly, OneAtATime, FailRow, Calling, Recovering
<1>5. Flying' = {} /\ OneCommand(commands', worker')
  BY <1>1, <1>4, CommandsStay DEF Orderly, OneAtATime
<1>6. Still' /\ (Gone => Gone') /\ sending' = {} /\ \A q \in Requests : request'[q].pc = "idle"
  BY <1>1, <1>4 DEF Still, Gone, Running
<1>7. OneAtATime'
  BY <1>5, <1>6 DEF OneAtATime
<1>8. \A q \in Requests : ~ Sent(q) /\ ~ Sent(q)' /\ ~ Asks(q)'
  BY <1>4, <1>6 DEF Sent, Asks
<1>9. CallsHold'
  BY <1>6, <1>8 DEF CallsHold
<1>10. RowHolds'
  BY <1>2, <1>4, <1>5, <1>6, <1>8 DEF Orderly, RowHolds, InFlight
<1>11. DeletedHolds'
  BY <1>2, <1>4, <1>5, <1>6 DEF Orderly, DeletedHolds, InFlight
<1> QED BY <1>7, <1>9, <1>10, <1>11 DEF Orderly

-----------------------------------------------------------------------------
(* Commands are sent, and what calls do *)

\* What is sent while nothing is under way is all there is.
LEMMA Alone ==
  ASSUME Inductive, ~ UnderWay, UNCHANGED <<worker, events>>,
         NEW c \in Command, commands' = Append(commands, c)
  PROVE  /\ OneCommand(commands', worker') /\ Flying' = {c}
         /\ ~ Failing' /\ \A m \in Machines : worker'[m].client # "fetching"
<1>1. commands = <<>> /\ \A m \in Machines : ~ worker[m].busy /\ worker[m].client # "fetching"
  BY DEF UnderWay, Unsettled
<1>2. ~ Failing'
  BY DEF UnderWay, Failing
<1>3. commands' = Append(<<>>, c)
  BY <1>1
<1>4. commands' = <<c>>
  BY <1>3
<1>5. /\ commands' \in Seq(Command) /\ commands' # <<>> /\ Len(commands') = 1
      /\ Head(commands') = c
  BY <1>4
<1>6. worker' \in [Machines -> Process] /\ \A m \in Machines : ~ worker'[m].busy
  BY <1>1 DEF Inductive, TypeOK
<1>7. OneCommand(commands', worker')
  BY <1>5, <1>6 DEF OneCommand
<1>8. Flying' = {c}
  BY <1>5, <1>6, <1>7, CommandsHeld DEF Flying
<1> QED BY <1>1, <1>2, <1>7, <1>8

LEMMA RedispatchOrderly ==
  ASSUME Inductive, Orderly, ~ loose, NEW target \in Owner, Redispatch(target), ~ crowded'
  PROVE  Orderly'
<1>1. /\ UNCHANGED <<row, events, worker, request, loading>>
      /\ target \in sending /\ sending' \subseteq sending
  BY DEF Redispatch, Workers
<1>2. PICK c : c = [action |-> "start", target |-> target]
  OBVIOUS
<1>3. c \in Command /\ c.action = "start"
  BY <1>2, CommandTyped DEF AllKinds
<1>4. commands' = Append(commands, c) /\ ~ UnderWay /\ ~ Calling
  BY <1>2 DEF Redispatch, SendCommand
<1>5. /\ OneCommand(commands', worker') /\ Flying' = {c}
      /\ ~ Failing' /\ \A m \in Machines : worker'[m].client # "fetching"
  BY <1>1, <1>3, <1>4, Alone
<1>6. Active /\ \A q \in Requests : request[q].pc = "idle"
  BY <1>1, <1>4 DEF Orderly, OneAtATime, Calling
<1>7. Active' /\ \A q \in Requests : request'[q].pc = "idle"
  BY <1>1, <1>6 DEF Active
<1>8. \A q \in Requests : ~ Sent(q)' /\ ~ Asks(q)'
  BY <1>7 DEF Sent, Asks
<1>9. OneAtATime'
  BY <1>3, <1>5, <1>7, <1>8 DEF OneAtATime
<1>10. CallsHold'
  BY <1>7, <1>8 DEF CallsHold
<1>11. /\ InFlight({"start", "resume"})'
       /\ ~ InFlight(AllKinds \ {"start", "resume"})'
  BY <1>3, <1>5 DEF InFlight
<1>12. RowHolds'
  BY <1>7, <1>11 DEF RowHolds, Active, Resting, Going
<1>13. DeletedHolds'
  BY <1>7 DEF DeletedHolds, Active
<1> QED BY <1>9, <1>10, <1>12, <1>13 DEF Orderly

LEMMA BeginOrderly ==
  ASSUME Inductive, Orderly, NEW q \in Requests, Begin(q), ~ crowded' PROVE Orderly'
<1>1. UNCHANGED <<row, commands, events, worker, sending, loading>> /\ ~ Calling
  BY DEF Begin, Workers
<1>2. PICK kind \in Kinds :
        /\ kind = "resume_seed" => ~ row.deleted
        /\ request' = [request EXCEPT ![q] =
            [pc |-> IF kind = "start" THEN "row" ELSE "send", kind |-> kind,
             target |-> IF kind = "start" THEN NoWorker ELSE row.owner]]
  BY DEF Begin, TargetOf
<1>3. \A p \in Requests : request[p].pc = "idle"
  BY <1>1 DEF Calling
<1>4. /\ request'[q].kind = kind
      /\ request'[q].pc = IF kind = "start" THEN "row" ELSE "send"
      /\ \A p \in Requests \ {q} : request'[p].pc = "idle"
  BY <1>2, <1>3 DEF Inductive, TypeOK
<1>5. \A p \in Requests : ~ Sent(p) /\ ~ Asks(p) /\ ~ Sent(p)' /\ ~ Asks(p)'
  BY <1>3, <1>4 DEF Sent, Asks
<1>6. Flying' = Flying /\ OneCommand(commands', worker')
  BY <1>1, CommandsStay DEF Orderly, OneAtATime
<1>7. /\ \A actions : InFlight(actions)' <=> InFlight(actions)
      /\ Active' <=> Active
      /\ Still' <=> Still
      /\ Gone' <=> Gone
      /\ Failing' <=> Failing
      /\ \A m \in Machines : Restarting(m) /\ Mine(m) => Restarting(m)' /\ Mine(m)'
  BY <1>1, <1>6 DEF InFlight, Active, Still, Gone, Running, Failing, Restarting, Mine, WorkerId,
                    Senders, Knows
<1>8. Going => Going'
  BY <1>1, <1>5, <1>7 DEF Going
<1>9. OneAtATime'
  BY <1>1, <1>4, <1>5, <1>6, <1>7 DEF Orderly, OneAtATime
<1>10. CallsHold'
  BY <1>1, <1>2, <1>4, <1>5 DEF CallsHold
<1>11. RowHolds'
  BY <1>1, <1>5, <1>6, <1>7, <1>8 DEF Orderly, RowHolds
<1>12. DeletedHolds'
  BY <1>1, <1>7 DEF Orderly, DeletedHolds
<1> QED BY <1>9, <1>10, <1>11, <1>12 DEF Orderly

\* A second start of a torrent that has a row is a loose one.
LEMMA StartRowOrderly ==
  ASSUME Inductive, Orderly, ~ loose', NEW q \in Requests, StartRow(q) PROVE Orderly'
<1>1. /\ UNCHANGED <<commands, events, worker, sending, loading>>
      /\ request[q].pc = "row" /\ request[q].kind = "start" /\ row.status = "None" /\ ~ loose
  BY DEF StartRow, Workers
<1>2. row'.status = "Downloading" /\ ~ row'.deleted
  BY DEF StartRow, Inductive, TypeOK, Row
<1>3. ~ Free /\ Only(NoWorker) /\ events = <<>> /\ \A m \in Machines : ~ Knows(m)
  BY <1>1, Holders DEF Inductive, OneHolder, OneFree
<1>4. commands = <<>>
  <2>1. \A i \in 1 .. Len(commands) : FALSE
    BY <1>3 DEF Free, QueueFree, Waits, Only, Targets
  <2>2. Len(commands) = 0 /\ commands \in Seq(Command)
    BY <2>1 DEF Inductive, TypeOK
  <2> QED BY <2>2
<1>5. \A m \in Machines : ~ worker[m].busy
  BY <1>3 DEF Only, Free, HandFree, Has
<1>6. Flying = {} /\ sending = {}
  BY <1>3, <1>4, <1>5, CommandsHeld DEF Flying, Only, Inductive, TypeOK
<1>7. Flying' = {} /\ OneCommand(commands', worker') /\ sending' = {}
  BY <1>1, <1>6, CommandsStay DEF Orderly, OneAtATime
<1>8. /\ ~ Failing'
      /\ \A m \in Machines : worker'[m].client # "fetching"
  BY <1>1, <1>3 DEF Failing, Knows
<1>9. /\ request'[q] = [request[q] EXCEPT !.pc = "send"]
      /\ \A p \in Requests \ {q} : request'[p] = request[p] /\ request[p].pc = "idle"
  BY <1>1, CallGoesOn DEF StartRow, Inductive, Orderly, OneAtATime
<1>10. request'[q].pc = "send" /\ request'[q].kind = "start"
  BY <1>1, <1>9 DEF Inductive, TypeOK, Request
<1>11. Asks(q)' /\ \A p \in Requests : ~ Sent(p)'
  BY <1>9, <1>10 DEF Asks, Sent
<1>12. OneAtATime'
  BY <1>7, <1>8, <1>9 DEF OneAtATime
<1>13. CallsHold'
  BY <1>2, <1>11 DEF CallsHold
<1>14. Going'
  BY <1>11 DEF Going
<1>15. RowHolds'
  BY <1>2, <1>7, <1>14 DEF RowHolds, InFlight, Resting
<1>16. DeletedHolds'
  BY <1>2 DEF DeletedHolds
<1> QED BY <1>12, <1>13, <1>15, <1>16 DEF Orderly

\* No call has a target before the torrent has a row.
LEMMA NoneIsUnclaimed ==
  ASSUME Inductive, ~ loose, row.status = "None", NEW q \in Requests
  PROVE  request[q].target = NoWorker
BY DEF Inductive, OneHolder, Only

\* A call that sends is the only one, and its command is the only one.
LEMMA SendOrderly ==
  ASSUME Inductive, Orderly, ~ loose', NEW q \in Requests, Send(q), ~ crowded' PROVE Orderly'
<1>1. /\ UNCHANGED <<row, events, worker, sending, loading>>
      /\ request[q].pc = "send"
      /\ request[q].target = NoWorker => request[q].kind = "start"
  BY DEF Send, Workers
<1>2. PICK c : c = [action |-> request[q].kind, target |-> request[q].target]
  OBVIOUS
<1>3. c \in Command /\ c.target = request[q].target /\ c.action = request[q].kind
      /\ request[q].kind \in AllKinds
  BY <1>2, CommandTyped DEF Inductive, TypeOK, Request
<1>4. /\ commands' = Append(commands, c) /\ ~ UnderWay /\ ~ Recovering
      /\ \A p \in Requests \ {q} : request[p].pc = "idle"
  BY <1>2 DEF Send, SendCommand
<1>5. /\ OneCommand(commands', worker') /\ Flying' = {c}
      /\ ~ Failing' /\ \A m \in Machines : worker'[m].client # "fetching"
  BY <1>1, <1>3, <1>4, Alone
<1>6. sending' = {}
  BY <1>1, <1>4 DEF Recovering
<1>7. \A p \in Requests \ {q} : request'[p].pc = "idle"
  BY <1>4, CallGoesOn DEF Send, AfterSend, Inductive
<1>8. OneAtATime'
  BY <1>1, <1>3, <1>5, <1>6, <1>7 DEF OneAtATime
<1>9. CASE request[q].kind = "start"
  <2>1. request'[q] = IdleRequest
    BY <1>9, CallGoesOn DEF Send, AfterSend, Inductive
  <2>2. row'.status = "Downloading" /\ ~ row'.deleted
    BY <1>1, <1>9 DEF Orderly, CallsHold, Asks
  <2>3. \A p \in Requests : request'[p].pc = "idle"
    BY <1>7, <2>1 DEF IdleRequest
  <2>4. CallsHold'
    BY <2>3 DEF CallsHold, Sent, Asks
  <2>5. InFlight({"start", "resume"})' /\ ~ InFlight(AllKinds \ {"start", "resume"})'
    BY <1>3, <1>5, <1>9 DEF InFlight
  <2>6. RowHolds'
    BY <2>2, <2>5 DEF RowHolds, Resting, Going
  <2>7. DeletedHolds'
    BY <2>2 DEF DeletedHolds
  <2> QED BY <1>8, <2>4, <2>6, <2>7 DEF Orderly
<1>10. CASE request[q].kind # "start"
  <2>1. request'[q] = [request[q] EXCEPT !.pc = "row"]
    BY <1>10, CallGoesOn DEF Send, AfterSend, Inductive
  <2>2. request'[q].pc = "row" /\ request'[q].kind = request[q].kind
    BY <2>1 DEF Inductive, TypeOK, Request
  <2>3. row.status # "None"
    BY <1>1, <1>10, NoneIsUnclaimed DEF Send
  <2>4. Sent(q)' /\ \A p \in Requests : ~ Asks(p)'
    BY <1>7, <1>10, <2>2 DEF Sent, Asks
  <2>9. PICK kind \in AllKinds : kind = request[q].kind
    BY <1>3
  <2>5. ~ InFlight(AllKinds \ {kind})' /\ (kind = "resume" => InFlight({"start", "resume"})')
    BY <1>3, <1>5, <2>9 DEF InFlight
  <2>6. kind = "resume" => Going'
    BY <2>5 DEF Going
  <2>7. CallsHold'
    <3>1. request'[q].kind = kind
      BY <2>2, <2>9
    <3>2. kind = "resume_seed" => ~ row'.deleted
      BY <1>1, <2>9 DEF Orderly, CallsHold
    <3> QED BY <1>1, <1>5, <1>7, <2>3, <2>4, <2>5, <2>6, <3>1, <3>2 DEF CallsHold, Sent
  <2>8. RowHolds'
    BY <2>4 DEF RowHolds
  <2>10. DeletedHolds'
    <3> SUFFICES ASSUME row.deleted PROVE DeletedHolds'
      BY <1>1 DEF DeletedHolds
    <3>1. kind \notin {"start", "resume_seed"}
      BY <1>1, <1>10, <2>9 DEF Orderly, CallsHold
    <3>2. ~ InFlight({"start", "resume_seed"})'
      BY <1>3, <1>5, <2>9, <3>1 DEF InFlight
    <3>3. Flying = {}
      BY <1>4, CommandsHeld DEF Flying, UnderWay, Unsettled, Inductive, TypeOK
    <3>4. Gone
      BY <3>3 DEF Orderly, DeletedHolds, InFlight
    <3>5. Gone'
      BY <1>1, <3>4 DEF Gone
    <3> QED BY <3>2, <3>5 DEF DeletedHolds
  <2> QED BY <1>8, <2>7, <2>8, <2>10 DEF Orderly
<1> QED BY <1>9, <1>10

\* What the row says from now on is what the command did, or will do.
LEMMA UpdateRowOrderly ==
  ASSUME Inductive, Orderly, NEW q \in Requests, UpdateRow(q) PROVE Orderly'
<1>1. /\ UNCHANGED <<commands, events, worker, sending, loading>>
      /\ request[q].pc = "row" /\ request[q].kind # "start" /\ request[q].kind \in AllKinds
      /\ Sent(q)
  BY DEF UpdateRow, Written, Workers, Sent, Inductive, TypeOK, Request
<1>2. /\ row'.status = StatusAfter(request[q].kind)
      /\ row'.deleted = (row.deleted \/ request[q].kind = "remove")
      /\ row'.owner = row.owner
  <2>1. row.status # "None"
    BY <1>1 DEF Orderly, CallsHold
  <2> QED BY <2>1 DEF UpdateRow, IfPresent, Inductive, TypeOK, Row
<1>3. /\ request'[q] = IdleRequest
      /\ \A p \in Requests \ {q} : request'[p] = request[p] /\ request[p].pc = "idle"
  BY <1>1, CallGoesOn DEF UpdateRow, Written, Inductive, Orderly, OneAtATime
<1>4. \A p \in Requests : request'[p].pc = "idle"
  BY <1>3 DEF IdleRequest
<1>5. sending = {}
  BY <1>1 DEF Orderly, OneAtATime
<1>6. Flying' = Flying /\ OneCommand(commands', worker')
  BY <1>1, CommandsStay DEF Orderly, OneAtATime
<1>7. /\ \A actions : InFlight(actions)' <=> InFlight(actions)
      /\ Still' <=> Still
      /\ Gone' <=> Gone
      /\ Failing' <=> Failing
      /\ \A m \in Machines : Restarting(m) /\ Mine(m) => Restarting(m)' /\ Mine(m)'
  BY <1>1, <1>2, <1>6 DEF InFlight, Still, Gone, Running, Failing, Restarting, Mine, WorkerId,
                          Senders, Knows
<1>8. \A p \in Requests : ~ Asks(p) /\ ~ Asks(p)' /\ ~ Sent(p)'
  BY <1>1, <1>3, <1>4 DEF Asks, Sent
<1>9. Going => Going'
  BY <1>1, <1>7, <1>8 DEF Going
<1>10. OneAtATime'
  BY <1>1, <1>4, <1>5, <1>6, <1>7 DEF Orderly, OneAtATime
<1>11. CallsHold'
  BY <1>4, <1>8 DEF CallsHold
<1>20. PICK kind \in AllKinds : kind = request[q].kind
  BY <1>1
<1>12. /\ ~ InFlight(AllKinds \ {kind})
       /\ kind = "pause" => Flying # {} \/ Still
       /\ kind \in {"remove", "stop_seed"} => Flying # {} \/ Gone
       /\ kind = "resume" => Going
  BY <1>1, <1>20 DEF Orderly, CallsHold
<1>13. Gone => Still
  BY DEF Gone, Still, Running
<1>14. ~ InFlight(AllKinds \ {kind})'
  BY <1>7, <1>12
<1>15. \A actions : kind \notin actions /\ actions \subseteq AllKinds =>
          ~ InFlight(actions)'
  BY <1>14 DEF InFlight
<1>16. DeletedHolds'
  <2>1. CASE row.deleted
    BY <1>7, <2>1 DEF Orderly, DeletedHolds
  <2>2. CASE kind = "remove"
    <3>1. ~ InFlight({"start", "resume_seed"})'
      BY <1>15, <2>2 DEF AllKinds
    <3>2. Flying # {} => InFlight({"remove"})
      <4>1. \A c \in Flying : c.action \in AllKinds
        BY FlyingTyped
      <4> QED BY <1>12, <2>2, <4>1 DEF InFlight
    <3> QED BY <1>7, <1>12, <2>2, <3>1, <3>2 DEF DeletedHolds
  <2>3. CASE ~ row'.deleted
    BY <2>3 DEF DeletedHolds
  <2> QED BY <1>2, <1>20, <2>1, <2>2, <2>3
<1>17. row'.status \in Resting => ~ InFlight(Starting)' /\ (Flying' # {} \/ Still')
  <2>1. row'.status \in Resting => kind \in {"pause", "stop_seed", "remove"}
    BY <1>1, <1>2, <1>20 DEF StatusAfter, Resting, AllKinds
  <2>2. kind \in {"pause", "stop_seed", "remove"} => ~ InFlight(Starting)'
    BY <1>15 DEF Starting, AllKinds
  <2> QED BY <1>6, <1>7, <1>12, <1>13, <2>1, <2>2
<1>18. row'.status = "Downloading" /\ ~ row'.deleted =>
         Going' /\ ~ InFlight(AllKinds \ {"start", "resume"})'
  <2>1. row'.status = "Downloading" /\ ~ row'.deleted => kind = "resume"
    BY <1>1, <1>2, <1>20 DEF StatusAfter, AllKinds
  <2>2. kind = "resume" => ~ InFlight(AllKinds \ {"start", "resume"})'
    BY <1>15
  <2> QED BY <1>9, <1>12, <2>1, <2>2
<1>19. RowHolds'
  BY <1>17, <1>18 DEF RowHolds
<1> QED BY <1>10, <1>11, <1>16, <1>19 DEF Orderly

-----------------------------------------------------------------------------
(* Commands are handled *)

\* A command that was carried out, or whose failure is reported, leaves nothing in flight.
LEMMA Handled ==
  ASSUME Inductive, Orderly, ~ loose, NEW m \in Machines, NEW p \in Process, Become(m, p),
         worker[m].busy, ForMe(m), ~ p.busy, p.self = worker[m].self,
         UNCHANGED <<row, commands, loading, sending, request>>,
         NEW action \in AllKinds, worker[m].job.action = action,
         \/ /\ UNCHANGED events
            /\ action \in {"start", "resume"} => p.client = "active"
            /\ action \in Stopping => p.client \notin {"active", "fetching"}
            /\ action \in {"remove", "stop_seed"} => p.client = "absent"
            /\ action \notin {"start", "resume_seed"} /\ worker[m].client = "absent" =>
                 p.client = "absent"
         \/ /\ events' = Append(events, [type |-> "failed", worker |-> WorkerId(m)])
            /\ action \in {"start", "resume"} /\ p.client = "absent"
  PROVE  Orderly'
<1>1. /\ worker' \in [Machines -> Process] /\ worker'[m] = p
      /\ \A n \in Machines \ {m} : worker'[n] = worker[n]
  BY Becoming DEF Inductive
<1>2. PICK job \in Command : job = worker[m].job
  BY JobTyped DEF Inductive
<1>3. commands = <<>> /\ Flying = {job} /\ job.action = action
  BY <1>2, CommandsHeld DEF Flying, Orderly, OneAtATime, Inductive, TypeOK
<1>4. \A n \in Machines : ~ worker'[n].busy
  BY <1>1 DEF Orderly, OneAtATime, OneCommand
<1>5. OneCommand(commands', worker') /\ Flying' = {}
  <2>1. commands' = <<>> /\ commands' \in Seq(Command) /\ Len(commands') = 0
    BY <1>3
  <2>2. OneCommand(commands', worker')
    BY <1>4, <2>1 DEF OneCommand
  <2> QED BY <1>1, <1>4, <2>1, <2>2, CommandsHeld DEF Flying
<1>6. \A n \in Machines \ {m} : worker'[n].client = "absent"
  BY <1>1, Holders DEF Mine, Knows
<1>7. /\ Still' <=> p.client \notin {"active", "fetching"}
      /\ Gone' <=> p.client = "absent"
  BY <1>1, <1>6 DEF Still, Gone, Running
<1>8. ~ Failing
  BY <1>3 DEF Orderly, OneAtATime
<1>9. /\ Failing' => Still'
      /\ action \in {"start", "resume"} => ~ Still' \/ Failing'
  <2>1. CASE UNCHANGED events
    <3>1. ~ Failing'
      BY <1>8, <2>1 DEF Failing
    <3>2. CASE p.client = "active" \/ action \notin {"start", "resume"}
      BY <1>7, <3>1, <3>2
    <3>3. CASE events' = Append(events, [type |-> "failed", worker |-> WorkerId(m)])
      <4>1. Len(events') = Len(events) + 1 /\ Len(events) \in Nat
        BY <3>3 DEF Inductive, TypeOK
      <4> QED BY <2>1, <4>1
    <3> QED BY <3>2, <3>3
  <2>2. CASE events' = Append(events, [type |-> "failed", worker |-> WorkerId(m)])
               /\ p.client = "absent"
    <3>1. PICK e : e = [type |-> "failed", worker |-> WorkerId(m)]
      OBVIOUS
    <3>2. e \in Event /\ e.type = "failed"
      BY <3>1, WorkerIds DEF Event, Inductive
    <3>3. Failing'
      BY <2>2, <3>1, <3>2, FailureSent DEF Inductive, TypeOK
    <3> QED BY <1>7, <2>2, <3>3
  <2> QED BY <2>1, <2>2
<1>10. /\ \A q \in Requests : Sent(q)' <=> Sent(q)
       /\ \A q \in Requests : Asks(q)' <=> Asks(q)
       /\ Active' <=> Active
       /\ \A actions : ~ InFlight(actions)'
  BY <1>5 DEF Sent, Asks, Active, InFlight
<1>11. action \in {"start", "resume"} => Going'
  BY <1>9 DEF Going
<1>12. action \in Stopping => Still'
  BY <1>7 DEF Stopping
<1>13. action \in {"remove", "stop_seed"} => Gone'
  BY <1>7
<1>14. \A actions : action \in actions => InFlight(actions)
  BY <1>3 DEF InFlight
<1>15. OneAtATime'
  BY <1>5, <1>9, <1>10 DEF Orderly, OneAtATime
<1>16. CallsHold'
  <2>1. ASSUME NEW q \in Requests, Sent(q)
        PROVE  /\ request[q].kind = "pause" => Still'
               /\ request[q].kind \in {"remove", "stop_seed"} => Gone'
               /\ request[q].kind = "resume" => Going'
    <3>1. action = request[q].kind
      BY <1>14, <2>1 DEF Orderly, CallsHold
    <3> QED BY <1>11, <1>12, <1>13, <3>1 DEF Stopping
  <2> QED BY <1>5, <1>10, <2>1 DEF Orderly, CallsHold
<1>17. RowHolds'
  <2>1. CASE \E q \in Requests : Sent(q)
    BY <1>10, <2>1 DEF RowHolds
  <2>2. CASE ~ \E q \in Requests : Sent(q)
    <3>2. row.status \in Resting => Still'
      <4>1. row.status \in Resting => action \notin Starting
        BY <1>14, <2>2 DEF Orderly, RowHolds
      <4> QED BY <1>12, <4>1 DEF Starting, Stopping, AllKinds
    <3>3. row.status = "Downloading" /\ ~ row.deleted => Going'
      BY <1>11, <1>14, <2>2 DEF Orderly, RowHolds
    <3> QED BY <1>10, <3>2, <3>3 DEF RowHolds
  <2> QED BY <2>1, <2>2
<1>18. DeletedHolds'
  <2> SUFFICES ASSUME row.deleted PROVE Gone'
    BY <1>10 DEF DeletedHolds
  <2>1. CASE action = "remove"
    BY <1>13, <2>1
  <2>2. CASE action # "remove"
    <3>1. ~ InFlight({"remove"})
      BY <1>3, <2>2 DEF InFlight
    <3>2. Gone /\ action \notin {"start", "resume_seed"}
      BY <1>14, <3>1 DEF Orderly, DeletedHolds
    <3> QED BY <1>7, <3>2 DEF Gone
  <2> QED BY <2>1, <2>2
<1> QED BY <1>15, <1>16, <1>17, <1>18 DEF Orderly

LEMMA HandlerOrderly ==
  ASSUME Inductive, Orderly, ~ loose, ~ faults'.lossy, NEW m \in Machines, HandlerStep(m)
  PROVE  Orderly'
<1>1. CASE NotForMe(m)
  BY <1>1, NotForMeOrderly
<1>2. CASE ~ NotForMe(m)
  <2>1. worker[m].busy /\ ForMe(m)
    BY <1>2 DEF HandlerStep, Start, StartFails, Pause, Resume, ResumeFails, Remove, ResumeSeed,
                HandlesAction
  <2>2. UNCHANGED <<row, commands, loading, sending, request>>
    BY <1>2 DEF HandlerStep, Start, StartFails, Pause, Resume, ResumeFails, Remove, ResumeSeed,
                Rest
  <2>3. PICK action \in AllKinds : action = worker[m].job.action
    BY JobTyped DEF Inductive, Command
  <2>4. /\ Idle(m) \in Process /\ worker[m] \in Process
        /\ ~ Idle(m).busy /\ Idle(m).self = worker[m].self
        /\ Idle(m).client = worker[m].client
        /\ Tracked(m) \in {"yes", "completed"}
    BY JobTyped DEF Idle, Process, Tracked, Inductive
  <2>5. worker[m].client \in {"absent", "idle", "active"}
    <3>1. Flying # {}
      BY <2>1, CommandsHeld DEF Flying, Orderly, OneAtATime, Inductive, TypeOK
    <3> QED BY <2>4, <3>1 DEF Orderly, OneAtATime, Process
  <2>6. ASSUME NEW client \in {"absent", "fetching", "idle", "active"},
               NEW tracked \in {"no", "yes", "completed"}, NEW p,
               p = [Idle(m) EXCEPT !.client = client, !.tracked = tracked]
        PROVE  p \in Process /\ ~ p.busy /\ p.self = worker[m].self /\ p.client = client
    BY <2>4, <2>6 DEF Process
  <2>7. CASE Start(m)
    <3>1. PICK p : p = [Idle(m) EXCEPT !.client = "active", !.tracked = Tracked(m)]
      OBVIOUS
    <3>2. Become(m, p) /\ UNCHANGED events /\ action = "start"
      BY <2>3, <2>7, <3>1 DEF Start, HandlesAction
    <3>3. p \in Process /\ ~ p.busy /\ p.self = worker[m].self /\ p.client = "active"
      BY <2>4, <2>6, <3>1
    <3>4. action \notin Stopping
      BY <3>2 DEF Stopping
    <3> QED BY <2>1, <2>2, <2>3, <3>2, <3>3, <3>4, Handled
  <2>8. CASE StartFails(m) \/ ResumeFails(m)
    <3>1. PICK p : p = Idle(m)
      OBVIOUS
    <3>2. /\ Become(m, p) /\ action \in {"start", "resume"} /\ worker[m].client = "absent"
          /\ events' = Append(events, [type |-> "failed", worker |-> WorkerId(m)])
      <4>1. CASE StartFails(m)
        BY <2>3, <3>1, <4>1 DEF StartFails, HandlesAction
      <4>2. CASE ResumeFails(m)
        <5>1. ~ Fault("event")
          <6>1. "event" \in LossyFaults
            BY DEF LossyFaults, AllFaults
          <6> QED BY <6>1, Remembered DEF Fault
        <5> QED BY <2>3, <3>1, <4>2, <5>1 DEF ResumeFails, HandlesAction, Emit
      <4> QED BY <2>8, <4>1, <4>2
    <3>3. p \in Process /\ ~ p.busy /\ p.self = worker[m].self /\ p.client = "absent"
      BY <2>4, <3>1, <3>2
    <3> QED BY <2>1, <2>2, <2>3, <3>2, <3>3, Handled
  <2>9. CASE Pause(m)
    <3>1. PICK client \in {"absent", "idle"} :
            client = IF worker[m].client = "active" THEN "idle" ELSE worker[m].client
      BY <2>5
    <3>2. PICK p : p = [Idle(m) EXCEPT !.client = client, !.tracked = "no"]
      OBVIOUS
    <3>3. p \in Process /\ ~ p.busy /\ p.self = worker[m].self /\ p.client = client
      BY <2>6, <3>2
    <3>4. Become(m, p) /\ UNCHANGED events /\ action = "pause"
      BY <2>3, <2>4, <2>9, <3>1, <3>2 DEF Pause, Become, Process, HandlesAction
    <3> QED BY <2>1, <2>2, <2>3, <3>1, <3>3, <3>4, Handled
  <2>10. CASE Resume(m)
    <3>1. PICK p : p = [Idle(m) EXCEPT !.client = "active", !.tracked = Tracked(m)]
      OBVIOUS
    <3>2. p \in Process /\ ~ p.busy /\ p.self = worker[m].self /\ p.client = "active"
      BY <2>4, <2>6, <3>1
    <3>3. Become(m, p) /\ UNCHANGED events /\ action = "resume" /\ worker[m].client # "absent"
      BY <2>3, <2>4, <2>5, <2>10, <3>1 DEF Resume, Become, Process, HandlesAction
    <3>4. action \notin Stopping
      BY <3>3 DEF Stopping
    <3> QED BY <2>1, <2>2, <2>3, <3>2, <3>3, <3>4, Handled
  <2>11. CASE Remove(m)
    <3>1. PICK p : p = [Idle(m) EXCEPT !.client = "absent", !.tracked = "no"]
      OBVIOUS
    <3>2. p \in Process /\ ~ p.busy /\ p.self = worker[m].self /\ p.client = "absent"
      BY <2>6, <3>1
    <3>3. Become(m, p) /\ UNCHANGED events /\ action \in {"remove", "stop_seed"}
      BY <2>3, <2>11, <3>1 DEF Remove, HandlesAction
    <3> QED BY <2>1, <2>2, <2>3, <3>2, <3>3, Handled
  <2>12. CASE ResumeSeed(m)
    <3>1. PICK client \in {"fetching", "idle", "active"} :
            client = IF worker[m].client = "absent" THEN "fetching" ELSE worker[m].client
      BY <2>5
    <3>2. PICK p : p = [Idle(m) EXCEPT !.client = client, !.tracked = Tracked(m)]
      OBVIOUS
    <3>3. p \in Process /\ ~ p.busy /\ p.self = worker[m].self
      BY <2>4, <2>6, <3>2
    <3>4. Become(m, p) /\ UNCHANGED events /\ action = "resume_seed"
      BY <2>3, <2>4, <2>12, <3>1, <3>2 DEF ResumeSeed, Become, Process, HandlesAction
    <3>5. action \notin Stopping
      BY <3>4 DEF Stopping
    <3> QED BY <2>1, <2>2, <2>3, <3>3, <3>4, <3>5, Handled
  <2> QED BY <1>2, <2>7, <2>8, <2>9, <2>10, <2>11, <2>12 DEF HandlerStep
<1> QED BY <1>1, <1>2

-----------------------------------------------------------------------------
(* All steps *)

\* What is not clean any more stays so.
LEMMA CleanBefore ==
  ASSUME Inductive, Next, Clean' PROVE Clean
<1>1. crowded \in BOOLEAN /\ loose \in BOOLEAN
  BY DEF Inductive, TypeOK
<1>2. ASSUME NEW q \in Requests, RequestStep(q)
      PROVE  /\ crowded => crowded'
             /\ loose => loose'
             /\ UNCHANGED faults \/ \E kind \in AllFaults : Happens(kind)
  <2>1. CASE Begin(q)
    BY <1>1, <2>1 DEF Begin
  <2>2. CASE StartRow(q)
    BY <1>1, <2>2 DEF StartRow
  <2>3. CASE Send(q)
    BY <1>1, <2>3 DEF Send, SendCommand
  <2>4. CASE UpdateRow(q)
    BY <2>4 DEF UpdateRow, Written
  <2>5. CASE StartRowFails(q) \/ SendFails(q) \/ UpdateRowFails(q)
    BY <2>5 DEF StartRowFails, SendFails, UpdateRowFails, history, Fault, AllFaults
  <2> QED BY <1>2, <2>1, <2>2, <2>3, <2>4, <2>5 DEF RequestStep
<1>3. ASSUME RestartServer \/ (\E id \in Ids : BeatFails(id))
      PROVE  /\ crowded => crowded'
             /\ loose => loose'
             /\ UNCHANGED faults \/ \E kind \in AllFaults : Happens(kind)
  BY <1>3 DEF RestartServer, BeatFails, history, Fault, RecoveryFault, AllFaults
<1>4. ASSUME NEW id \in Owner, LoadActive(id) \/ Redispatch(id) \/ RedispatchFails(id)
      PROVE  /\ crowded => crowded'
             /\ loose => loose'
             /\ UNCHANGED faults \/ \E kind \in AllFaults : Happens(kind)
  <2>1. CASE LoadActive(id)
    BY <1>1, <2>1 DEF LoadActive
  <2>2. CASE Redispatch(id)
    BY <1>1, <2>2 DEF Redispatch, SendCommand
  <2>3. CASE RedispatchFails(id)
    BY <2>3 DEF RedispatchFails, history, RecoveryFault, AllFaults
  <2> QED BY <1>4, <2>1, <2>2, <2>3
<1>5. ASSUME NEW m \in Machines, HandlerStep(m) \/ ReporterStep(m)
      PROVE  /\ crowded => crowded'
             /\ loose => loose'
             /\ UNCHANGED faults \/ \E kind \in AllFaults : Happens(kind)
  <2>1. UNCHANGED <<crowded, loose>>
    BY <1>5 DEF HandlerStep, NotForMe, Start, StartFails, Pause, Resume, ResumeFails, Remove,
                ResumeSeed, ReporterStep, MetadataArrives, UntrackRemoved, Report, EndReport,
                history
  <2>2. UNCHANGED faults \/ Fault("parse") \/ Fault("event")
    BY <1>5 DEF HandlerStep, NotForMe, Start, StartFails, Pause, Resume, ResumeFails, Remove,
                ResumeSeed, ReporterStep, MetadataArrives, UntrackRemoved, Report, EndReport,
                Emit
  <2> QED BY <2>1, <2>2 DEF Fault, AllFaults
<1>6. ASSUME NEW m \in Machines,
             Deliver(m) \/ LoseConnection(m) \/ Download(m) \/ Crash(m) \/ Boot(m) \/ Beat(m)
      PROVE  /\ crowded => crowded'
             /\ loose => loose'
             /\ UNCHANGED faults \/ \E kind \in AllFaults : Happens(kind)
  <2>1. CASE Deliver(m) \/ Download(m) \/ Boot(m) \/ Beat(m)
    BY <2>1 DEF Deliver, Download, Boot, Beat, history
  <2>2. CASE LoseConnection(m)
    BY <1>1, <2>2 DEF LoseConnection, Fault, AllFaults
  <2>3. CASE Crash(m)
    BY <1>1, <2>3 DEF Crash, Fault, AllFaults
  <2> QED BY <1>6, <2>1, <2>2, <2>3
<1>7. ASSUME ConsumerStep
      PROVE  /\ crowded => crowded'
             /\ loose => loose'
             /\ UNCHANGED faults \/ \E kind \in AllFaults : Happens(kind)
  <2>1. UNCHANGED <<faults, loose>>
    BY <1>7 DEF ConsumerStep, PersistProgress, SkipPersist, CompleteRow, FailRow, Handles, Others
  <2>2. UNCHANGED crowded \/ FailRow
    BY <1>7 DEF ConsumerStep, PersistProgress, SkipPersist, CompleteRow
  <2> QED BY <1>1, <2>1, <2>2 DEF FailRow
<1>8. /\ crowded => crowded'
      /\ loose => loose'
      /\ UNCHANGED faults \/ \E kind \in AllFaults : Happens(kind)
  BY <1>2, <1>3, <1>4, <1>5, <1>6, <1>7 DEF Next, WorkerStep, ReporterStep
<1>9. faults.lossy => faults'.lossy
  BY <1>8, Remembered
<1> QED BY <1>8, <1>9 DEF Clean

\* With a lossy fault nothing more is claimed.
LEMMA LossySteps ==
  ASSUME Inductive,
         \/ \E q \in Requests : StartRowFails(q) \/ SendFails(q) \/ UpdateRowFails(q)
         \/ \E id \in Ids : BeatFails(id)
         \/ \E id \in Owner : RedispatchFails(id)
         \/ \E m \in Machines : LoseConnection(m)
  PROVE  ~ Clean'
<1>1. PICK kind \in {"database", "send", "redis", "connection"} : Happens(kind)
  BY DEF StartRowFails, SendFails, UpdateRowFails, BeatFails, RedispatchFails, LoseConnection,
         Fault, RecoveryFault
<1>2. kind \in LossyFaults
  BY DEF LossyFaults, AllFaults
<1> QED BY <1>1, <1>2, Remembered DEF Clean

LEMMA NextOrderly ==
  ASSUME Inductive, Orderly, Next, Clean' PROVE Orderly'
<1>1. Clean /\ ~ loose /\ ~ crowded /\ StableIds
      /\ ~ loose' /\ ~ crowded' /\ ~ faults'.lossy
  BY CleanBefore DEF Clean
<1>2. ASSUME NEW q \in Requests, RequestStep(q) PROVE Orderly'
  BY <1>1, <1>2, BeginOrderly, StartRowOrderly, SendOrderly, UpdateRowOrderly, LossySteps
     DEF RequestStep
<1>3. CASE RestartServer \/ (\E id \in Ids : BeatFails(id))
  BY <1>3, RestartServerOrderly, LossySteps
<1>4. ASSUME NEW id \in Owner, LoadActive(id) \/ Redispatch(id) \/ RedispatchFails(id)
      PROVE  Orderly'
  BY <1>1, <1>4, LoadActiveOrderly, RedispatchOrderly, LossySteps
<1>5. ASSUME NEW m \in Machines, Download(m) PROVE Orderly'
  <2>1. UNCHANGED <<row, commands, events, worker, loading, sending, request>>
    BY <1>5 DEF Download, Rest
  <2>2. Failing' <=> Failing
    BY <2>1 DEF Failing
  <2>3. \A n \in Machines : Restarting(n) /\ Mine(n) => Restarting(n)' /\ Mine(n)'
    BY <2>1 DEF Restarting, Mine, WorkerId, Senders, Knows
  <2> QED BY <2>1, <2>2, <2>3, Unnoticed
<1>6. ASSUME NEW m \in Machines, WorkerStep(m) PROVE Orderly'
  BY <1>1, <1>5, <1>6, DeliverOrderly, HandlerOrderly, ReporterOrderly, CrashOrderly, BootOrderly,
     BeatOrderly, LossySteps DEF WorkerStep, ReporterStep
<1>7. CASE ConsumerStep
  BY <1>1, <1>7, ProgressOrderly, CompleteRowOrderly, FailRowOrderly DEF ConsumerStep
<1> QED BY <1>2, <1>3, <1>4, <1>6, <1>7 DEF Next


\* Completion is known of nowhere before the files are on a disk, unless a call wrote it.
LEMMA NextOnDisk ==
  ASSUME Inductive, OnDisk, Next PROVE OnDisk'
<1> SUFFICES ASSUME disk' = {}, ~ hollow' PROVE Incomplete'
  BY DEF OnDisk
<1>1. disk \subseteq disk'
  BY DEF Next, RequestStep, Begin, StartRow, StartRowFails, Send, SendFails, UpdateRow,
         UpdateRowFails, RestartServer, BeatFails, LoadActive, Redispatch, RedispatchFails,
         WorkerStep, HandlerStep, Deliver, NotForMe, Start, StartFails, Pause, Resume,
         ResumeFails, Remove, ResumeSeed, LoseConnection, MetadataArrives, Download,
         UntrackRemoved, Report, EndReport, Crash, Boot, Beat, ConsumerStep, PersistProgress,
         SkipPersist, CompleteRow, FailRow, Handles, Others, Workers, Written
<1>7. hollow => hollow'
  <2>1. CASE UNCHANGED hollow
    BY <2>1
  <2>2. ASSUME NEW q \in Requests, UpdateRow(q) PROVE hollow => hollow'
    BY <2>2 DEF UpdateRow, Written, Inductive, TypeOK
  <2> QED BY <2>1, <2>2
      DEF Next, RequestStep, Begin, StartRow, StartRowFails, Send, SendFails,
          UpdateRowFails, RestartServer, BeatFails, LoadActive, Redispatch, RedispatchFails,
          WorkerStep, HandlerStep, Deliver, NotForMe, Start, StartFails, Pause, Resume,
          ResumeFails, Remove, ResumeSeed, LoseConnection, MetadataArrives, Download,
          UntrackRemoved, Report, EndReport, Crash, Boot, Beat, ConsumerStep, PersistProgress,
          SkipPersist, CompleteRow, FailRow, Handles, Others, Rest, history
<1>2. disk = {} /\ ~ hollow /\ Incomplete
  BY <1>1, <1>7 DEF OnDisk
<1>3. ASSUME NEW q \in Requests, RequestStep(q) PROVE Incomplete'
  <2>1. UNCHANGED <<events, worker>>
    BY <1>3 DEF RequestStep, Begin, StartRow, StartRowFails, Send, SendFails, UpdateRow,
                UpdateRowFails, Written, Workers
  <2>2. row'.status # "Completed"
    <3>1. CASE StartRow(q)
      BY <3>1 DEF StartRow, Inductive, TypeOK, Row
    <3>2. CASE UpdateRow(q)
      <4>1. request[q].kind # "resume_seed"
        BY <1>2, <3>2 DEF UpdateRow, Written
      <4>2. row'.status \in {row.status, StatusAfter(request[q].kind)}
        BY <3>2 DEF UpdateRow, IfPresent, Inductive, TypeOK, Row
      <4> QED BY <1>2, <4>1, <4>2 DEF StatusAfter, Incomplete
    <3>3. CASE UNCHANGED row
      BY <1>2, <3>3 DEF Incomplete
    <3> QED BY <1>3, <3>1, <3>2, <3>3 DEF RequestStep, Begin, StartRowFails, Send, SendFails,
                                          UpdateRowFails
  <2> QED BY <1>2, <2>1, <2>2 DEF Incomplete
<1>4. ASSUME \/ RestartServer
             \/ \E id \in Ids : BeatFails(id)
             \/ \E id \in Owner : LoadActive(id) \/ Redispatch(id) \/ RedispatchFails(id)
      PROVE  Incomplete'
  <2>1. UNCHANGED <<row, request, worker, events>>
    BY <1>4 DEF RestartServer, BeatFails, LoadActive, Redispatch, RedispatchFails, Workers
  <2> QED BY <1>2, <2>1 DEF Incomplete
<1>5. ASSUME ConsumerStep PROVE Incomplete'
  <2>1. UNCHANGED <<request, worker>> /\ events # <<>> /\ events' = Tail(events)
    BY <1>5 DEF ConsumerStep, PersistProgress, SkipPersist, CompleteRow, FailRow, Handles, Others
  <2>2. /\ Len(events') = Len(events) - 1 /\ Len(events) \in Nat \ {0}
        /\ \A i \in 1 .. Len(events') : events'[i] = events[i + 1]
        /\ Head(events) = events[1]
    BY <2>1 DEF Inductive, TypeOK
  <2>3. Head(events).type # "completed"
    BY <1>2, <2>2 DEF Incomplete
  <2>4. \A i \in 1 .. Len(events') : events'[i].type # "completed"
    BY <1>2, <2>2 DEF Incomplete
  <2>5. row'.status \in {row.status, "Failed"}
    BY <1>5, <2>3 DEF ConsumerStep, PersistProgress, SkipPersist, CompleteRow, FailRow, Handles,
                      IfPresent, Inductive, TypeOK, Row
  <2> QED BY <1>2, <2>1, <2>4, <2>5 DEF Incomplete
<1>6. ASSUME NEW m \in Machines, WorkerStep(m) PROVE Incomplete'
  <2>1. UNCHANGED <<row, request>>
    BY <1>6 DEF WorkerStep, HandlerStep, Deliver, NotForMe, Start, StartFails, Pause, Resume,
                ResumeFails, Remove, ResumeSeed, LoseConnection, MetadataArrives, Download,
                UntrackRemoved, Report, EndReport, Crash, Boot, Beat, Rest
  <2>2. PICK p : /\ UNCHANGED worker \/ Become(m, p)
                 /\ p.report \in {worker[m].report, "none", "downloading"}
    <3>1. CASE Report(m)
      <4>1. PICK status \in StatusOf(m) : Become(m, [worker[m] EXCEPT !.report = status])
        BY <3>1 DEF Report
      <4>2. status = "downloading"
        <5>1. m \notin disk
          BY <1>2
        <5>2. StatusOf(m) = {"downloading"}
          BY <5>1 DEF StatusOf
        <5> QED BY <4>1, <5>2
      <4>3. [worker[m] EXCEPT !.report = status].report = status
        BY JobTyped DEF Process, Inductive
      <4> QED BY <4>1, <4>2, <4>3
    <3>2. CASE UNCHANGED worker
      BY <3>2
    <3>3. CASE EndReport(m)
      <4>1. PICK tracked \in {"completed", "yes"} :
              tracked = IF worker[m].report = "completed" THEN "completed" ELSE "yes"
        OBVIOUS
      <4>2. [worker[m] EXCEPT !.report = "none", !.tracked = tracked].report = "none"
        BY JobTyped DEF Process, Inductive
      <4>3. Become(m, [worker[m] EXCEPT !.report = "none", !.tracked = tracked])
        BY <3>3, <4>1 DEF EndReport
      <4> QED BY <4>2, <4>3
    <3>4. CASE Crash(m)
      <4>1. [NewProcess EXCEPT !.up = FALSE, !.self = worker[m].self].report = "none"
        BY DEF NewProcess
      <4> QED BY <3>4, <4>1 DEF Crash
    <3>5. CASE Boot(m)
      <4>1. PICK self : self = IF StableIds THEN 0 ELSE worker[m].self + 1
        OBVIOUS
      <4>2. [NewProcess EXCEPT !.self = self].report = "none"
        BY DEF NewProcess
      <4>3. Become(m, [NewProcess EXCEPT !.self = self])
        BY <3>5, <4>1 DEF Boot
      <4> QED BY <4>2, <4>3
    <3>6. CASE Beat(m) \/ Deliver(m) \/ UntrackRemoved(m) \/ MetadataArrives(m)
      <4>1. /\ [worker[m] EXCEPT !.fresh = FALSE].report = worker[m].report
            /\ [worker[m] EXCEPT !.tracked = "no"].report = worker[m].report
            /\ [worker[m] EXCEPT !.client = "active"].report = worker[m].report
            /\ \A job : [worker[m] EXCEPT !.busy = TRUE, !.job = job].report = worker[m].report
        BY JobTyped DEF Process, Inductive
      <4> QED BY <3>6, <4>1 DEF Beat, Deliver, UntrackRemoved, MetadataArrives
    <3>7. CASE HandlerStep(m)
      <4>1. Idle(m) \in Process /\ Idle(m).report = worker[m].report
        BY JobTyped DEF Process, Inductive, Idle
      <4>2. \A client, tracked :
              [Idle(m) EXCEPT !.client = client, !.tracked = tracked].report = worker[m].report
        BY <4>1 DEF Process
      <4>3. PICK client, tracked :
              \/ Become(m, Idle(m))
              \/ Become(m, [Idle(m) EXCEPT !.client = client, !.tracked = tracked])
        <5>1. CASE NotForMe(m) \/ StartFails(m) \/ ResumeFails(m)
          BY <5>1 DEF NotForMe, StartFails, ResumeFails
        <5>2. CASE Start(m)
          BY <5>2 DEF Start
        <5>3. CASE Remove(m)
          BY <5>3 DEF Remove
        <5>4. CASE Pause(m)
          <6>1. PICK client : client = IF Idle(m).client = "active" THEN "idle" ELSE Idle(m).client
            OBVIOUS
          <6>2. Become(m, [Idle(m) EXCEPT !.client = client, !.tracked = "no"])
            BY <4>1, <5>4, <6>1 DEF Pause, Become, Process
          <6> QED BY <6>2
        <5>5. CASE Resume(m)
          <6>1. PICK client : client = IF Idle(m).client = "idle" THEN "active" ELSE Idle(m).client
            OBVIOUS
          <6>2. Become(m, [Idle(m) EXCEPT !.client = client, !.tracked = Tracked(m)])
            BY <4>1, <5>5, <6>1 DEF Resume, Become, Process
          <6> QED BY <6>2
        <5>6. CASE ResumeSeed(m)
          <6>1. PICK client : client = IF Idle(m).client = "absent" THEN "fetching"
                                       ELSE Idle(m).client
            OBVIOUS
          <6>2. Become(m, [Idle(m) EXCEPT !.client = client, !.tracked = Tracked(m)])
            BY <4>1, <5>6, <6>1 DEF ResumeSeed, Become, Process
          <6> QED BY <6>2
        <5> QED BY <3>7, <5>1, <5>2, <5>3, <5>4, <5>5, <5>6 DEF HandlerStep
      <4> QED BY <4>1, <4>2, <4>3
    <3> QED BY <1>6, <3>1, <3>2, <3>3, <3>4, <3>5, <3>6, <3>7
            DEF WorkerStep, LoseConnection, Download
  <2>3. \A n \in Machines : worker'[n].report # "completed"
    <3>1. CASE UNCHANGED worker
      BY <1>2, <3>1 DEF Incomplete
    <3>2. CASE Become(m, p)
      BY <1>2, <2>2, <3>2 DEF Become, Incomplete, Inductive, TypeOK
    <3> QED BY <2>2, <3>1, <3>2
  <2>4. PICK type \in {"progress", "failed"} :
          \/ UNCHANGED events
          \/ events' = Append(events, [type |-> type, worker |-> WorkerId(m)])
    <3>1. worker[m].report # "completed"
      BY <1>2 DEF Incomplete
    <3> QED BY <1>6, <3>1
            DEF WorkerStep, HandlerStep, Deliver, NotForMe, Start, StartFails, Pause, Resume,
                ResumeFails, Remove, ResumeSeed, LoseConnection, MetadataArrives, Download,
                UntrackRemoved, Report, EndReport, Crash, Boot, Beat, Emit
  <2>5. \A i \in 1 .. Len(events') : events'[i].type # "completed"
    <3>1. CASE UNCHANGED events
      BY <1>2, <3>1 DEF Incomplete
    <3>2. CASE events' = Append(events, [type |-> type, worker |-> WorkerId(m)])
      <4>1. /\ Len(events') = Len(events) + 1 /\ Len(events) \in Nat
            /\ \A i \in 1 .. Len(events) : events'[i] = events[i]
            /\ events'[Len(events) + 1].type = type
        BY <3>2 DEF Inductive, TypeOK
      <4> QED BY <1>2, <4>1 DEF Incomplete
    <3> QED BY <2>4, <3>1, <3>2
  <2> QED BY <1>2, <2>1, <2>3, <2>5 DEF Incomplete
<1> QED BY <1>3, <1>4, <1>5, <1>6 DEF Next

-----------------------------------------------------------------------------

LEMMA InitAgrees == Init => Agreeing
<1> SUFFICES ASSUME Init PROVE Agreeing
  OBVIOUS
<1>1. /\ row = NoRow /\ commands = <<>> /\ events = <<>> /\ sending = {}
      /\ worker = [m \in Machines |-> [NewProcess EXCEPT !.fresh = FALSE]]
      /\ request = [q \in Requests |-> IdleRequest]
  BY DEF Init
<1>2. /\ \A q \in Requests : request[q].pc = "idle" /\ request[q].kind = "start"
      /\ \A m \in Machines : /\ ~ worker[m].busy /\ worker[m].client = "absent"
                              /\ worker[m].report = "none"
      /\ row.status = "None" /\ ~ row.deleted
      /\ Len(commands) = 0 /\ Len(events) = 0
  BY <1>1 DEF IdleRequest, NewProcess, NoRow
<1>3. Flying = {} /\ OneCommand(commands, worker) /\ ~ Failing
  <2>1. OneCommand(commands, worker)
    <3>1. Len(commands) <= 1
      BY <1>2
    <3> QED BY <1>2, <3>1 DEF OneCommand
  <2>3. ~ Failing
    BY <1>2 DEF Failing
  <2>2. Flying = {}
    BY <1>1, <1>2, InitHolds, CommandsHeld DEF Flying, Inductive, TypeOK
  <2> QED BY <2>1, <2>2, <2>3
<1>4. OneAtATime /\ CallsHold
  BY <1>1, <1>2, <1>3 DEF OneAtATime, CallsHold, Asks, Sent
<1>5. RowHolds /\ DeletedHolds
  BY <1>2 DEF RowHolds, Resting, DeletedHolds
<1>6. OnDisk
  BY <1>2 DEF OnDisk, Incomplete
<1> QED BY <1>4, <1>5, <1>6 DEF Agreeing, Orderly

LEMMA NextAgrees == Inductive /\ Agreeing /\ [Next]_vars => Agreeing'
<1> SUFFICES ASSUME Inductive, Agreeing, [Next]_vars PROVE Agreeing'
  OBVIOUS
<1>1. CASE Next
  BY <1>1, NextOnDisk, NextOrderly, CleanBefore DEF Agreeing
<1>2. CASE UNCHANGED vars
  <2>1. UNCHANGED <<row, commands, events, loading, sending, worker, disk, request, faults,
                    crowded, loose, hollow>>
    BY <1>2 DEF vars
  <2>2. OnDisk'
    BY <2>1 DEF Agreeing, OnDisk, Incomplete
  <2>3. ASSUME Orderly PROVE Orderly'
    <3>1. Failing' <=> Failing
      BY <2>1 DEF Failing
    <3>2. \A m \in Machines : Restarting(m) /\ Mine(m) => Restarting(m)' /\ Mine(m)'
      BY <2>1 DEF Restarting, Mine, WorkerId, Senders, Knows
    <3> QED BY <2>1, <2>3, <3>1, <3>2, Unnoticed
  <2>4. Clean' => Clean
    BY <2>1 DEF Clean
  <2> QED BY <2>2, <2>3, <2>4 DEF Agreeing
<1> QED BY <1>1, <1>2

\* The row and the workers agree whenever nothing is under way, whatever crashes,
\* redeliveries, recoveries and late events there were, but for the cases RestAgrees names.
THEOREM RowsAgree == Spec => []RestAgrees
<1>1. Agreeing => RestAgrees
  <2> SUFFICES ASSUME Agreeing, Clean, AtRest PROVE Agree
    BY DEF RestAgrees, Clean
  <2>1. /\ commands = <<>> /\ events = <<>> /\ loading = {} /\ sending = {}
        /\ \A q \in Requests : request[q].pc = "idle"
        /\ \A m \in Machines : /\ worker[m].up /\ ~ worker[m].fresh /\ ~ worker[m].busy
                                /\ worker[m].report = "none"
    BY DEF AtRest, UnderWay, Unsettled, Calling, Recovering
  <2>2. Flying = {} /\ ~ Failing
    BY <2>1 DEF Flying, Commands, Failing
  <2>3. /\ \A actions : ~ InFlight(actions)
        /\ \A q \in Requests : ~ Asks(q) /\ ~ Sent(q)
        /\ \A m \in Machines : ~ Restarting(m)
    BY <2>1, <2>2 DEF InFlight, Asks, Sent, Restarting
  <2>4. Going => \E m \in Machines : Running(m)
    BY <2>1, <2>2, <2>3 DEF Going, Still
  <2>5. row.status = "Completed" => hollow \/ disk # {}
    BY DEF Agreeing, OnDisk, Incomplete
  <2> QED BY <2>2, <2>3, <2>4, <2>5 DEF Agreeing, Orderly, DeletedHolds, RowHolds, Agree, Gone, Still, Resting
<1>2. Init => Inductive /\ Agreeing
  BY InitHolds, InitAgrees
<1>3. Inductive /\ Agreeing /\ [Next]_vars => (Inductive /\ Agreeing)'
  BY NextHolds, NextAgrees
<1> QED BY <1>1, <1>2, <1>3, PTL DEF Spec

=============================================================================

------------------------- MODULE TorrentClientProofs ------------------------
(***************************************************************************)
(* Theorems about the torrent client, for any number of handles and of     *)
(* goroutines of RestoreTorrent. The mutexes come first: whatever races    *)
(* there are, who is in a section holds a mutex of its own. Then, unless   *)
(* a mutex was lost or a handle shared, what each thread knows about the   *)
(* handle it has in hand. Of the library it is used that AddTorrentSpec    *)
(* returns the live handle when there is one: so there is never a second.  *)
(***************************************************************************)
EXTENDS TorrentClient, TLAPS

Holding == {"metadata", "verify", "drop", "store"}

\* What a thread has in hand at each place, and what only the command thread does.
Placed ==
  /\ \A t \in Threads :
       /\ thread[t].mutex = Nil <=> thread[t].pc \in {"idle", "add", "store"}
       /\ thread[t].handle = Nil <=> thread[t].pc \notin Holding
  /\ thread["parse"].op = "parse"
  /\ thread["parse"].pc \notin {"add", "store", "verify", "drop"}

\* Threads in sections hold different mutexes.
Locked == \A t, u \in Threads :
  t # u /\ {thread[t].pc, thread[u].pc} \subseteq Sections => thread[t].mutex # thread[u].mutex

\* No two mutexes are in use, in hands or in the map, unless one was lost.
OneMutex == orphaned \/
  \A t \in Threads : thread[t].mutex # Nil =>
     /\ locks # Nil => thread[t].mutex = locks
     /\ \A u \in Threads : thread[u].mutex # Nil => thread[u].mutex = thread[t].mutex

OneLive == \A g, h \in Handles : Live(g) /\ Live(h) => g = h

\* What is in the map lives, and so does what a thread waits for or is about to store;
\* the map is empty while metadata is fetched and while a torrent is dropped.
Kept == orphaned \/ shared \/
  /\ torrents # Nil => Live(torrents)
  /\ \A t \in Threads :
       /\ thread[t].pc \in {"metadata", "store"} => Live(thread[t].handle)
       /\ thread[t].pc \in {"metadata", "drop"} => torrents = Nil
       /\ thread[t].pc = "verify" => thread[t].handle = torrents
  /\ ~ (thread["parse"].pc = "metadata" /\ thread["command"].pc = "store")

Inductive == TypeOK /\ Placed /\ Locked /\ OneMutex /\ OneLive /\ Kept /\ NoStray

\* What TypeOK says of the threads and their mutexes.
ThreadTypes ==
  /\ thread \in [Threads -> Thread] /\ held \subseteq Mutexes
  /\ \A t \in Threads :
       /\ thread[t].pc \in Sections => thread[t].mutex \in held
       /\ thread[t].pc \in {"metadata", "verify", "drop", "store"} => thread[t].handle \in Handles

-----------------------------------------------------------------------------

Moves(t, r) == thread' = [thread EXCEPT ![t] = r]

\* The parts of the invariant that say something of the local state of a thread, from
\* what they say of its new local state.
LEMMA MoveTypes ==
  ASSUME TypeOK, Placed, NEW t \in Threads, NEW r \in Thread, Moves(t, r),
         \/ held' = held
         \/ held' = held \ {thread[t].mutex} /\ thread[t].pc \in Sections /\ Locked
         \/ \E k \in Mutexes : held' = held \cup {k},
         r.pc \in Sections => r.mutex \in held',
         r.mutex = Nil <=> r.pc \in {"idle", "add", "store"},
         r.handle = Nil <=> r.pc \notin Holding,
         t = "parse" => r.op = "parse" /\ r.pc \notin {"add", "store", "verify", "drop"}
  PROVE  /\ ThreadTypes'
         /\ Placed'
<1>1. /\ thread' \in [Threads -> Thread] /\ held' \subseteq Mutexes /\ thread'[t] = r
      /\ \A u \in Threads : u # t => thread'[u] = thread[u]
  BY DEF TypeOK, Moves
<1>2. ASSUME NEW u \in Threads, u # t, thread[u].pc \in Sections
      PROVE  thread[u].mutex \in held'
  BY <1>2 DEF TypeOK, Locked
<1>3. ASSUME NEW u \in Threads
      PROVE  /\ thread'[u].pc \in Sections => thread'[u].mutex \in held'
             /\ thread'[u].pc \in {"metadata", "verify", "drop", "store"}
                  => thread'[u].handle \in Handles
             /\ thread'[u].mutex = Nil <=> thread'[u].pc \in {"idle", "add", "store"}
             /\ thread'[u].handle = Nil <=> thread'[u].pc \notin Holding
  <2>1. CASE u = t
    BY <1>1, <2>1 DEF Thread, Holding
  <2>2. CASE u # t
    BY <1>1, <1>2, <2>2 DEF TypeOK, Placed
  <2> QED BY <2>1, <2>2
<1>4. thread'["parse"].op = "parse" /\ thread'["parse"].pc \notin {"add", "store", "verify", "drop"}
  BY <1>1 DEF Placed, Threads
<1> QED BY <1>1, <1>3, <1>4 DEF Placed, ThreadTypes

\* Of the mutexes: a thread that moves within its section, waits, locks or returns.
LEMMA MoveMutexes ==
  ASSUME TypeOK, Placed, Locked, OneMutex, NEW t \in Threads, NEW r \in Thread, Moves(t, r),
         orphaned => orphaned',
         \/ r.mutex = Nil /\ r.pc \notin Sections /\ locks' \in {locks, Nil}
         \/ r.mutex = thread[t].mutex /\ locks' \in {locks, Nil}
            /\ (r.pc \in Sections => thread[t].pc \in Sections \/ r.mutex \notin held)
         \/ r.pc = "lock" /\ r.mutex = Mutex(t) /\ InfoHashLock(t)
  PROVE  Locked' /\ OneMutex'
<1>1. /\ thread'[t] = r
      /\ \A u \in Threads : u # t => thread'[u] = thread[u]
  BY DEF TypeOK, Moves
<1>2. Locked'
  <2>1. ASSUME NEW u \in Threads, u # t, thread[u].pc \in Sections, r.pc \in Sections
        PROVE  r.mutex # thread[u].mutex
    BY <2>1 DEF TypeOK, Locked, Sections
  <2> QED BY <1>1, <2>1 DEF Locked
<1>3. ASSUME ~ orphaned', NEW u \in Threads, thread'[u].mutex # Nil
      PROVE  /\ locks' # Nil => thread'[u].mutex = locks'
             /\ \A w \in Threads : thread'[w].mutex # Nil => thread'[w].mutex = thread'[u].mutex
  <2>1. ~ orphaned
    BY <1>3
  <2>2. CASE r.mutex = Nil /\ locks' \in {locks, Nil}
    BY <1>1, <1>3, <2>1, <2>2 DEF OneMutex
  <2>3. CASE r.mutex = thread[t].mutex /\ locks' \in {locks, Nil}
    BY <1>1, <1>3, <2>1, <2>3 DEF OneMutex
  <2>4. CASE r.mutex = Mutex(t) /\ InfoHashLock(t)
    <3>1. locks' = r.mutex /\ (locks = Nil => \A w \in Threads : w # t => thread[w].mutex = Nil)
      BY <1>3, <2>4 DEF InfoHashLock
    <3>2. CASE locks = Nil
      BY <1>1, <1>3, <3>1, <3>2
    <3>3. CASE locks # Nil
      <4>1. r.mutex = locks
        BY <2>4, <3>3 DEF Mutex
      <4> QED BY <1>1, <1>3, <2>1, <3>1, <3>3, <4>1 DEF OneMutex
    <3> QED BY <3>2, <3>3
  <2> QED BY <2>2, <2>3, <2>4
<1> QED BY <1>2, <1>3 DEF OneMutex

\* The mutex that a thread takes is a mutex.
LEMMA MutexExists ==
  ASSUME TypeOK, NEW t \in Threads
  PROVE  Mutex(t) \in Mutexes /\ Mutex(t) # Nil
<1>1. \E m \in Mutexes : \A u \in Threads \ {t} : thread[u].mutex # m
  BY MutexesAssumption DEF Threads
<1> QED BY <1>1, NilAssumption DEF Mutex, TypeOK

\* Two threads are never in the sections unless a mutex was lost.
LEMMA OneInside ==
  ASSUME Inductive, ~ orphaned, NEW t \in Threads, NEW u \in Threads,
         thread[t].pc \in Sections, thread[u].pc \in Sections
  PROVE  t = u
<1>1. thread[t].mutex # Nil /\ thread[u].mutex # Nil
  BY DEF Inductive, Placed, Sections
<1>2. thread[t].mutex = thread[u].mutex
  BY <1>1 DEF Inductive, OneMutex
<1> QED BY <1>2 DEF Inductive, Locked

-----------------------------------------------------------------------------

\* A step of a thread that has no handle in hand, before or after it, and changes of
\* the handles at most what they are wanted for.
LEMMA HandlesStay ==
  ASSUME Inductive, NEW t \in Threads, NEW r \in Thread, Moves(t, r),
         thread[t].pc \notin Holding, r.pc \notin Holding,
         torrents' = torrents, \A h \in Handles : handle'[h].alive = handle[h].alive,
         orphaned => orphaned', shared => shared'
  PROVE  OneLive' /\ Kept' /\ NoStray'
<1>1. \A h : Live(h)' <=> Live(h)
  BY DEF Live
<1>2. OneLive'
  BY <1>1 DEF Inductive, OneLive
<1>3. /\ thread'[t] = r
      /\ \A u \in Threads : u # t => thread'[u] = thread[u]
      /\ thread[t].handle = Nil
  BY DEF Inductive, TypeOK, Placed, Moves
<1>4. ASSUME ~ orphaned', ~ shared' PROVE Kept' /\ NoStray'
  <2>1. ~ orphaned /\ ~ shared
    BY <1>4
  <2>2. ASSUME NEW u \in Threads, thread'[u].pc \in Holding PROVE thread'[u] = thread[u]
    BY <1>3, <2>2
  <2>3. Kept'
    BY <1>1, <2>1, <2>2 DEF Inductive, Kept, Holding, Threads
  <2>4. NoStray'
    BY <1>1, <1>3, <2>1, NilAssumption DEF Inductive, NoStray
  <2> QED BY <2>3, <2>4
<1> QED BY <1>2, <1>4 DEF Kept, NoStray

\* A thread takes the mutex of the map to begin an operation, or the second part of a start.
LEMMA WaitInductive ==
  ASSUME Inductive, NEW t \in Threads, NEW op \in Operations, NEW parsed \in BOOLEAN,
         Wait(t, op, parsed), InfoHashLock(t), t = "parse" => op = "parse",
         \/ thread[t].pc = "idle" /\ held' = held
         \/ thread[t].pc \in Sections /\ Unlock(t)
  PROVE  /\ ThreadTypes'
         /\ Placed' /\ Locked' /\ OneMutex'
         /\ locks' \in Mutexes \cup {Nil} /\ orphaned' \in BOOLEAN /\ (orphaned => orphaned')
<1> DEFINE r == [pc |-> "lock", op |-> op, parsed |-> parsed, mutex |-> Mutex(t), handle |-> Nil]
<1>1. Mutex(t) \in Mutexes /\ Mutex(t) # Nil
  BY MutexExists DEF Inductive
<1>2. r \in Thread /\ Moves(t, r)
  BY <1>1 DEF Thread, Places, Wait, Moves
<1>3. /\ locks' \in Mutexes \cup {Nil} /\ orphaned' \in BOOLEAN /\ (orphaned => orphaned')
  BY <1>1 DEF InfoHashLock, Inductive, TypeOK
<1>4. Locked' /\ OneMutex'
  BY <1>2, <1>3, MoveMutexes DEF Inductive
<1>5. r.pc \notin Sections /\ r.pc \notin Holding
  BY DEF Sections, Holding
<1>6. held' = held \/ (held' = held \ {thread[t].mutex} /\ thread[t].pc \in Sections /\ Locked)
  BY DEF Unlock, Inductive
<1> QED BY <1>1, <1>2, <1>3, <1>4, <1>5, <1>6, MoveTypes DEF Inductive

\* Of the other threads' handles: they have none in hand, or only wait or store.
LEMMA BeginInductive ==
  ASSUME Inductive, NEW t \in Threads, Begin(t)
  PROVE  Inductive'
<1>1. PICK op \in Operations : (t = "parse" <=> op = "parse") /\ Wait(t, op, FALSE)
  BY DEF Begin
<1>2. /\ thread[t].pc = "idle" /\ InfoHashLock(t)
      /\ UNCHANGED <<handle, torrents, held, restoring, shared>>
  BY DEF Begin
<1> DEFINE r == [pc |-> "lock", op |-> op, parsed |-> FALSE, mutex |-> Mutex(t), handle |-> Nil]
<1>3. r \in Thread /\ Moves(t, r) /\ r.pc \notin Holding /\ thread[t].pc \notin Holding
  BY <1>1, <1>2, MutexExists DEF Thread, Places, Wait, Moves, Holding, Inductive
<1>4. OneLive' /\ Kept' /\ NoStray'
  BY <1>2, <1>3, HandlesStay DEF InfoHashLock
<1> QED BY <1>1, <1>2, <1>4, WaitInductive DEF Inductive, TypeOK, ThreadTypes

LEMMA LockInductive ==
  ASSUME Inductive, NEW t \in Threads, Lock(t)
  PROVE  Inductive'
<1> DEFINE r == [pc |-> "enter", op |-> thread[t].op, parsed |-> thread[t].parsed,
                 mutex |-> thread[t].mutex, handle |-> Nil]
<1>1. /\ thread[t].pc = "lock" /\ thread[t].mutex \notin held /\ thread[t] \in Thread
      /\ thread[t].mutex \in Mutexes
  BY NilAssumption DEF Lock, Inductive, TypeOK, Placed, Thread
<1>2. r \in Thread /\ Moves(t, r) /\ r.pc \notin Holding /\ thread[t].pc \notin Holding
  BY <1>1 DEF Thread, Places, Sections, Lock, Go, Moves, Holding
<1>3. OneLive' /\ Kept' /\ NoStray'
  BY <1>2, HandlesStay DEF Lock, history
<1>4. held' = held \cup {r.mutex} /\ UNCHANGED <<locks, orphaned>>
  BY DEF Lock, history
<1>5. Locked' /\ OneMutex'
  BY <1>1, <1>2, <1>4, MoveMutexes DEF Inductive
<1>6. t = "parse" => r.op = "parse"
  BY DEF Inductive, Placed
<1> QED BY <1>1, <1>2, <1>3, <1>4, <1>5, <1>6, MoveTypes, NilAssumption
        DEF Inductive, TypeOK, ThreadTypes, Lock, history

\* A thread that returns from its section.
LEMMA ReturnInductive ==
  ASSUME Inductive, NEW t \in Threads, thread[t].pc \in Sections, Unlock(t), Return(t),
         locks' \in {locks, Nil}, orphaned' = orphaned
  PROVE  /\ ThreadTypes'
         /\ Placed' /\ Locked' /\ OneMutex'
         /\ locks' \in Mutexes \cup {Nil}
         /\ Idle \in Thread /\ Moves(t, Idle)
<1>1. Idle \in Thread /\ Moves(t, Idle)
  BY DEF Thread, Places, Operations, Idle, Return, Moves
<1>2. Idle.mutex = Nil /\ Idle.pc = "idle" /\ Idle.handle = Nil /\ Idle.op = "parse"
  BY DEF Idle
<1>3. Locked' /\ OneMutex'
  BY <1>1, <1>2, MoveMutexes DEF Inductive, Sections
<1>4. held' = held \ {thread[t].mutex} /\ Locked
  BY DEF Unlock, Inductive
<1>5. locks' \in Mutexes \cup {Nil}
  BY DEF Inductive, TypeOK
<1> QED BY <1>1, <1>2, <1>3, <1>4, <1>5, MoveTypes DEF Inductive, Sections, Holding

LEMMA SelectKeeps ==
  ASSUME handle \in [Handles -> Handle], NEW h, NEW wanted \in BOOLEAN, Select(h, wanted)
  PROVE  /\ handle' \in [Handles -> Handle]
         /\ \A g \in Handles : handle'[g].alive = handle[g].alive
BY DEF Select, Handle

\* The error of an operation on a torrent that is not there; pause and resume.
LEMMA PlainReturnInductive ==
  ASSUME Inductive, NEW t \in Threads, NotFound(t) \/ PauseOrResume(t)
  PROVE  Inductive'
<1>1. /\ thread[t].pc = "enter" /\ Unlock(t) /\ Return(t)
      /\ UNCHANGED <<torrents, locks, restoring, orphaned, shared>>
  BY DEF NotFound, PauseOrResume, history
<1>2. handle' \in [Handles -> Handle] /\ \A h \in Handles : handle'[h].alive = handle[h].alive
  <2>1. handle \in [Handles -> Handle]
    BY DEF Inductive, TypeOK
  <2>2. CASE NotFound(t)
    BY <2>1, <2>2 DEF NotFound
  <2>3. CASE PauseOrResume(t)
    <3>1. CASE thread[t].op = "resume"
      <4>1. Select(torrents, TRUE)
        BY <2>3, <3>1 DEF PauseOrResume
      <4> QED BY <4>1, <2>1, SelectKeeps
    <3>2. CASE thread[t].op # "resume"
      <4>1. Select(torrents, FALSE)
        BY <2>3, <3>2 DEF PauseOrResume
      <4> QED BY <4>1, <2>1, SelectKeeps
    <3> QED BY <3>1, <3>2
  <2> QED BY <2>2, <2>3
<1>3. thread[t].pc \in Sections /\ thread[t].pc \notin Holding /\ Idle.pc \notin Holding
  BY <1>1 DEF Sections, Holding, Idle
<1>4. OneLive' /\ Kept' /\ NoStray'
  BY <1>1, <1>2, <1>3, ReturnInductive, HandlesStay
<1> QED BY <1>1, <1>2, <1>3, <1>4, ReturnInductive DEF Inductive, TypeOK, ThreadTypes

LEMMA ParseKnownInductive ==
  ASSUME Inductive, NEW t \in Threads, ParseKnown(t)
  PROVE  Inductive'
<1>1. /\ thread[t].pc = "enter" /\ Unlock(t) /\ Parsed(t)
      /\ UNCHANGED <<handle, torrents, restoring, shared>>
  BY DEF ParseKnown
<1>2. thread[t].pc \in Sections /\ thread[t].pc \notin Holding
  BY <1>1 DEF Sections, Holding
<1>3. CASE thread[t].op = "parse"
  <2>1. Return(t) /\ UNCHANGED <<locks, orphaned>>
    BY <1>1, <1>3 DEF Parsed
  <2>2. OneLive' /\ Kept' /\ NoStray'
    BY <1>1, <1>2, <2>1, ReturnInductive, HandlesStay DEF Idle, Holding
  <2> QED BY <1>1, <1>2, <2>1, <2>2, ReturnInductive DEF Inductive, TypeOK, ThreadTypes
<1>4. CASE thread[t].op # "parse"
  <2>1. InfoHashLock(t) /\ Wait(t, "start", TRUE) /\ t # "parse"
    BY <1>1, <1>4 DEF Parsed, Inductive, Placed
  <2> DEFINE r == [pc |-> "lock", op |-> "start", parsed |-> TRUE, mutex |-> Mutex(t), handle |-> Nil]
  <2>2. r \in Thread /\ Moves(t, r) /\ r.pc \notin Holding
    BY <2>1, MutexExists DEF Thread, Places, Operations, Wait, Moves, Holding, Inductive
  <2>3. OneLive' /\ Kept' /\ NoStray'
    BY <1>1, <1>2, <2>1, <2>2, HandlesStay DEF InfoHashLock
  <2> QED BY <1>1, <1>2, <2>1, <2>3, WaitInductive DEF Inductive, TypeOK, ThreadTypes, Operations
<1> QED BY <1>3, <1>4

-----------------------------------------------------------------------------
(* What is live *)

\* AddTorrentSpec: afterwards the handle is live, and as before no other is.
LEMMA AddedIsLive ==
  ASSUME TypeOK, OneLive, NEW h \in Handles, Add(h)
  PROVE  /\ handle' \in [Handles -> Handle] /\ OneLive' /\ Live(h)'
         /\ \A g : Live(g) => g = h /\ Live(g)'
<1>1. CASE \E g \in Handles : Live(g)
  <2>1. Live(h)
    BY <1>1 DEF Add, AddedHandle
  <2>2. handle' = handle
    BY <2>1 DEF Add
  <2> QED BY <2>1, <2>2 DEF OneLive, Live, TypeOK
<1>2. CASE ~ \E g \in Handles : Live(g)
  <2>1. handle' = [handle EXCEPT ![h] = Added]
    BY <1>2 DEF Add
  <2>2. handle' \in [Handles -> Handle] /\ \A g \in Handles : handle'[g].alive => g = h
    BY <1>2, <2>1 DEF TypeOK, Handle, Added, Live
  <2>3. handle'[h].alive
    BY <2>1 DEF TypeOK, Added
  <2> QED BY <1>2, <2>2, <2>3 DEF OneLive, Live
<1> QED BY <1>1, <1>2

\* Drop: afterwards nothing else than before is live, and the handle is not.
LEMMA DroppedIsGone ==
  ASSUME TypeOK, OneLive, NEW h \in Handles, Drop(h)
  PROVE  /\ handle' \in [Handles -> Handle] /\ OneLive' /\ ~ Live(h)'
         /\ \A g : g # h => (Live(g)' <=> Live(g))
         /\ restoring' \subseteq Handles
<1>1. /\ handle' \in [Handles -> Handle] /\ ~ handle'[h].alive
      /\ \A g \in Handles : g # h => handle'[g] = handle[g]
  BY DEF Drop, TypeOK, Handle
<1>2. restoring' \subseteq Handles
  BY DEF Drop, TypeOK
<1> QED BY <1>1, <1>2 DEF OneLive, Live

\* A thread goes on within its section, and the locks stay.
LEMMA GoInductive ==
  ASSUME Inductive, NEW t \in Threads, thread[t].pc = "enter",
         NEW pc \in Sections, pc \in Holding, NEW h \in Handles, Go(t, pc, h),
         t = "parse" => pc \notin {"verify", "drop"},
         held' = held, locks' \in {locks, Nil}, orphaned' = orphaned
  PROVE  /\ ThreadTypes'
         /\ Placed' /\ Locked' /\ OneMutex'
         /\ locks' \in Mutexes \cup {Nil}
         /\ thread'[t].pc = pc /\ thread'[t].handle = h
         /\ \A u \in Threads : u # t => thread'[u] = thread[u]
<1> DEFINE r == [pc |-> pc, op |-> thread[t].op, parsed |-> thread[t].parsed,
                 mutex |-> thread[t].mutex, handle |-> h]
<1>1. thread \in [Threads -> Thread] /\ thread[t].pc \in Sections /\ locks \in Mutexes \cup {Nil}
  BY DEF Inductive, TypeOK, Sections
<1>2. r \in Thread /\ Moves(t, r)
  BY <1>1 DEF Thread, Places, Go, Moves
<1>3. Locked' /\ OneMutex'
  BY <1>1, <1>2, MoveMutexes DEF Inductive
<1>4. /\ r.pc \in Sections => r.mutex \in held'
      /\ r.mutex = Nil <=> r.pc \in {"idle", "add", "store"}
      /\ r.handle = Nil <=> r.pc \notin Holding
      /\ t = "parse" => r.op = "parse" /\ r.pc \notin {"add", "store", "verify", "drop"}
  BY <1>1, NilAssumption DEF Inductive, TypeOK, Placed, Sections
<1>5. thread'[t] = r /\ \A u \in Threads : u # t => thread'[u] = thread[u]
  BY <1>1, <1>2 DEF Moves
<1> QED BY <1>1, <1>2, <1>3, <1>4, <1>5, MoveTypes DEF Inductive

-----------------------------------------------------------------------------
(* The operations *)

\* Unless it shares the handle with RestoreTorrent, a parse that adds it finds the map empty.
LEMMA ParseAddsInductive ==
  ASSUME Inductive, NEW t \in Threads, ParseAdds(t)
  PROVE  Inductive'
<1>1. PICK h \in Handles : /\ Add(h) /\ Go(t, "metadata", h)
                           /\ shared' = (shared \/ h = torrents \/ Restored(h))
  BY DEF ParseAdds
<1>2. thread[t].pc = "enter" /\ UNCHANGED <<torrents, locks, held, restoring, orphaned>>
  BY DEF ParseAdds
<1>3. /\ handle' \in [Handles -> Handle] /\ OneLive' /\ Live(h)'
      /\ \A g : Live(g) => g = h /\ Live(g)'
  BY <1>1, AddedIsLive DEF Inductive
<1>4. /\ thread'[t].pc = "metadata" /\ thread'[t].handle = h
      /\ \A u \in Threads : u # t => thread'[u] = thread[u]
  BY <1>1, <1>2, GoInductive DEF Sections, Holding
<1>5. ASSUME ~ orphaned', ~ shared' PROVE Kept' /\ NoStray'
  <2>1. ~ orphaned /\ ~ shared /\ h # torrents /\ ~ Restored(h)
    BY <1>1, <1>2, <1>5
  <2>2. torrents = Nil
    BY <1>3, <2>1 DEF Inductive, Kept
  <2>3. \A u \in Threads : u # t => thread[u].pc \notin Sections
    BY <1>2, <2>1, OneInside DEF Sections
  <2>4. thread["command"].pc # "store"
    <3>1. CASE thread["command"].pc = "store"
      <4>1. Live(thread["command"].handle)
        BY <2>1, <3>1 DEF Inductive, Kept, Threads
      <4> QED BY <1>3, <2>1, <3>1, <4>1 DEF Restored
    <3> QED BY <3>1
  <2>5. \A u \in Threads : u # t => thread'[u].pc \notin {"metadata", "store", "drop", "verify"}
    BY <1>4, <2>3, <2>4 DEF Inductive, Placed, Sections, Threads
  <2>6. Kept'
    BY <1>2, <1>3, <1>4, <2>2, <2>5 DEF Kept, Threads
  <2>7. NoStray'
    BY <1>3, <1>4 DEF NoStray, OneLive, Live
  <2> QED BY <2>6, <2>7
<1>6. Kept' /\ NoStray'
  BY <1>5 DEF Kept, NoStray
<1>7. shared' \in BOOLEAN
  BY <1>1 DEF Inductive, TypeOK
<1> QED BY <1>1, <1>2, <1>3, <1>6, <1>7, GoInductive DEF Inductive, TypeOK, ThreadTypes, Sections, Holding

\* Nothing else is live than what was fetched, so the map loses nothing.
LEMMA ParseEndsInductive ==
  ASSUME Inductive, NEW t \in Threads, ParseEnds(t)
  PROVE  Inductive'
<1> DEFINE h == thread[t].handle
<1>1. /\ thread[t].pc = "metadata" /\ torrents' = h /\ Unlock(t) /\ Parsed(t)
      /\ UNCHANGED <<handle, restoring, shared>>
  BY DEF ParseEnds
<1>2. thread[t].pc \in Sections /\ h \in Handles
  BY <1>1 DEF Sections, Inductive, TypeOK
<1>3. OneLive' /\ \A g : Live(g)' <=> Live(g)
  BY <1>1 DEF Inductive, OneLive, Live
<1>4. /\ ThreadTypes'
      /\ Placed' /\ Locked' /\ OneMutex'
      /\ locks' \in Mutexes \cup {Nil} /\ orphaned' \in BOOLEAN /\ (orphaned => orphaned')
      /\ thread'[t].pc \in {"idle", "lock"}
      /\ \A u \in Threads : u # t => thread'[u] = thread[u]
  <2>1. CASE thread[t].op = "parse"
    <3>1. Return(t) /\ UNCHANGED <<locks, orphaned>>
      BY <1>1, <2>1 DEF Parsed
    <3>2. thread'[t] = Idle /\ \A u \in Threads : u # t => thread'[u] = thread[u]
      BY <3>1 DEF Return, Inductive, TypeOK
    <3> QED BY <1>1, <1>2, <3>1, <3>2, ReturnInductive DEF Inductive, TypeOK, ThreadTypes, Idle
  <2>2. CASE thread[t].op # "parse"
    <3>1. InfoHashLock(t) /\ Wait(t, "start", TRUE) /\ t # "parse"
      BY <1>1, <2>2 DEF Parsed, Inductive, Placed
    <3>2. thread'[t].pc = "lock" /\ \A u \in Threads : u # t => thread'[u] = thread[u]
      BY <3>1 DEF Wait, Inductive, TypeOK
    <3> QED BY <1>1, <1>2, <3>1, <3>2, WaitInductive DEF Operations
  <2> QED BY <2>1, <2>2
<1>5. ASSUME ~ orphaned', ~ shared' PROVE Kept' /\ NoStray'
  <2>1. ~ orphaned /\ ~ shared
    BY <1>1, <1>4, <1>5
  <2>2. Live(h)
    BY <1>1, <2>1 DEF Inductive, Kept
  <2>3. \A u \in Threads : u # t => thread[u].pc \notin Sections
    BY <1>2, <2>1, OneInside
  <2>4. ~ (thread["parse"].pc = "metadata" /\ thread["command"].pc = "store")
    BY <2>1 DEF Inductive, Kept
  <2>5. \A u \in Threads : thread'[u].pc \notin {"metadata", "store", "drop", "verify"}
    BY <1>1, <1>4, <2>3, <2>4 DEF Inductive, Placed, Sections, Threads
  <2>6. Kept'
    BY <1>1, <1>3, <2>2, <2>5, <1>2, NilAssumption DEF Kept, Threads
  <2>7. NoStray'
    BY <1>1, <1>3, <2>2, <1>2 DEF NoStray, Inductive, OneLive, Live
  <2> QED BY <2>6, <2>7
<1>6. Kept' /\ NoStray'
  BY <1>5 DEF Kept, NoStray
<1> QED BY <1>1, <1>2, <1>3, <1>4, <1>6 DEF Inductive, TypeOK, ThreadTypes


\* The map is empty while a parse waits, so that the handle it drops is not in the map.
LEMMA ParseTimesOutInductive ==
  ASSUME Inductive, NEW t \in Threads, ParseTimesOut(t)
  PROVE  Inductive'
<1>h. PICK h \in Handles : h = thread[t].handle
  BY DEF ParseTimesOut, RemoveDrops, Inductive, TypeOK
<1>1. /\ t = "parse" /\ thread[t].pc = "metadata" /\ Drop(h) /\ Unlock(t) /\ Return(t)
      /\ UNCHANGED <<torrents, locks, orphaned, shared>>
  BY <1>h DEF ParseTimesOut, history
<1>2. thread[t].pc \in Sections
  BY <1>1 DEF Sections
<1>3. /\ handle' \in [Handles -> Handle] /\ OneLive' /\ ~ Live(h)'
      /\ \A g : g # h => (Live(g)' <=> Live(g))
      /\ restoring' \subseteq Handles
  BY <1>1, <1>2, DroppedIsGone DEF Inductive
<1>4. thread'[t].pc = "idle" /\ \A u \in Threads : u # t => thread'[u] = thread[u]
  BY <1>1 DEF Return, Idle, Inductive, TypeOK
<1>5. ASSUME ~ orphaned', ~ shared' PROVE Kept' /\ NoStray'
  <2>1. ~ orphaned /\ ~ shared
    BY <1>1, <1>5
  <2>2. Live(h) /\ torrents = Nil /\ thread["command"].pc # "store"
    BY <1>h, <1>1, <2>1 DEF Inductive, Kept
  <2>3. \A u \in Threads : u # t => thread[u].pc \notin Sections
    BY <1>2, <2>1, OneInside
  <2>4. \A u \in Threads : thread'[u].pc \notin {"metadata", "store", "drop", "verify"}
    BY <1>1, <1>4, <2>2, <2>3 DEF Sections, Threads
  <2>5. Kept'
    BY <1>1, <2>2, <2>4 DEF Kept, Threads
  <2>6. \A g : ~ Live(g)'
    BY <1>2, <1>3, <2>2 DEF Inductive, OneLive, Live
  <2>7. NoStray'
    BY <2>6 DEF NoStray
  <2> QED BY <2>5, <2>7
<1>6. Kept' /\ NoStray'
  BY <1>5 DEF Kept, NoStray
<1> QED BY <1>1, <1>2, <1>3, <1>6, ReturnInductive DEF Inductive, TypeOK, ThreadTypes

\* The other thread has nothing in hand that the steps of a thread in its section could
\* harm: it neither waits for metadata nor stores.
LEMMA StartVerifiesInductive ==
  ASSUME Inductive, NEW t \in Threads, StartVerifies(t)
  PROVE  Inductive'
<1>1. /\ thread[t].pc = "enter" /\ thread[t].op = "start" /\ Go(t, "verify", torrents)
      /\ torrents \in Handles
      /\ UNCHANGED <<handle, torrents, locks, held, restoring, orphaned, shared>>
  BY DEF StartVerifies, At, history, Inductive, TypeOK
<1>2. t # "parse"
  BY <1>1 DEF Inductive, Placed
<1>3. /\ thread'[t].pc = "verify" /\ thread'[t].handle = torrents
      /\ \A u \in Threads : u # t => thread'[u] = thread[u]
      /\ thread[t].handle = Nil
  BY <1>1, <1>2, GoInductive DEF Sections, Holding, Inductive, Placed
<1>4. OneLive' /\ \A g : Live(g)' <=> Live(g)
  BY <1>1 DEF Inductive, OneLive, Live
<1>5. ASSUME ~ orphaned', ~ shared' PROVE Kept' /\ NoStray'
  <2>1. ~ orphaned /\ ~ shared
    BY <1>1, <1>5
  <2>2. Kept'
    BY <1>1, <1>3, <1>4, <2>1 DEF Inductive, Kept, Threads
  <2>3. NoStray'
    BY <1>1, <1>3, <1>4, <2>1, NilAssumption DEF Inductive, NoStray
  <2> QED BY <2>2, <2>3
<1>6. Kept' /\ NoStray'
  BY <1>5 DEF Kept, NoStray
<1> QED BY <1>1, <1>2, <1>4, <1>6, GoInductive DEF Inductive, TypeOK, ThreadTypes, Sections, Holding

LEMMA StartSelectsInductive ==
  ASSUME Inductive, NEW t \in Threads, StartSelects(t)
  PROVE  Inductive'
<1>1. /\ thread[t].pc = "verify" /\ Select(thread[t].handle, TRUE) /\ Unlock(t) /\ Return(t)
      /\ UNCHANGED <<torrents, locks, restoring, orphaned, shared>>
  BY DEF StartSelects, history
<1>2. thread[t].pc \in Sections
  BY <1>1 DEF Sections
<1>3. handle' \in [Handles -> Handle] /\ \A g \in Handles : handle'[g].alive = handle[g].alive
  BY <1>1, SelectKeeps DEF Inductive, TypeOK
<1>4. OneLive' /\ \A g : Live(g)' <=> Live(g)
  BY <1>3 DEF Inductive, OneLive, Live
<1>5. thread'[t].pc = "idle" /\ \A u \in Threads : u # t => thread'[u] = thread[u]
  BY <1>1 DEF Return, Idle, Inductive, TypeOK
<1>6. ASSUME ~ orphaned', ~ shared' PROVE Kept' /\ NoStray'
  <2>1. ~ orphaned /\ ~ shared
    BY <1>1, <1>6
  <2>2. thread[t].handle = torrents
    BY <1>1, <2>1 DEF Inductive, Kept
  <2>3. Kept'
    BY <1>1, <1>4, <1>5, <2>1 DEF Inductive, Kept, Threads
  <2>4. NoStray'
    BY <1>1, <1>4, <1>5, <2>1, <2>2 DEF Inductive, NoStray
  <2> QED BY <2>3, <2>4
<1>7. Kept' /\ NoStray'
  BY <1>6 DEF Kept, NoStray
<1> QED BY <1>1, <1>2, <1>3, <1>4, <1>7, ReturnInductive DEF Inductive, TypeOK, ThreadTypes

\* What was in the map is in the thread's hands until it is dropped.
LEMMA RemoveForgetsInductive ==
  ASSUME Inductive, NEW t \in Threads, RemoveForgets(t)
  PROVE  Inductive'
<1>1. /\ thread[t].pc = "enter" /\ thread[t].op = "remove" /\ torrents' = Nil /\ locks' = Nil
      /\ UNCHANGED <<handle, restoring, orphaned, shared>>
  BY DEF RemoveForgets, At, history
<1>2. thread[t].pc \in Sections /\ t # "parse" /\ thread[t].handle = Nil
  BY <1>1 DEF Sections, Holding, Inductive, Placed
<1>3. OneLive' /\ \A g : Live(g)' <=> Live(g)
  BY <1>1 DEF Inductive, OneLive, Live
<1>4. CASE torrents = Nil
  <2>1. Unlock(t) /\ Return(t)
    BY <1>4 DEF RemoveForgets
  <2>2. OneLive' /\ Kept' /\ NoStray'
    BY <1>1, <1>2, <1>4, <2>1, ReturnInductive, HandlesStay DEF Idle, Holding
  <2> QED BY <1>1, <1>2, <2>1, <2>2, ReturnInductive DEF Inductive, TypeOK, ThreadTypes
<1>5. CASE torrents # Nil
  <2>1. Go(t, "drop", torrents) /\ held' = held /\ torrents \in Handles
    BY <1>5 DEF RemoveForgets, Inductive, TypeOK
  <2>2. /\ thread'[t].pc = "drop" /\ thread'[t].handle = torrents
        /\ \A u \in Threads : u # t => thread'[u] = thread[u]
    BY <1>1, <1>2, <2>1, GoInductive DEF Sections, Holding
  <2>3. ASSUME ~ orphaned', ~ shared' PROVE Kept' /\ NoStray'
    <3>1. ~ orphaned /\ ~ shared
      BY <1>1, <2>3
    <3>2. \A u \in Threads : u # t => thread[u].pc \notin Sections
      BY <1>2, <3>1, OneInside
    <3>3. Kept'
      BY <1>1, <1>2, <1>3, <2>2, <3>1, <3>2 DEF Inductive, Kept, Threads, Sections
    <3>4. NoStray'
      BY <1>2, <1>3, <2>2, <3>1, NilAssumption DEF Inductive, NoStray
    <3> QED BY <3>3, <3>4
  <2>4. Kept' /\ NoStray'
    BY <2>3 DEF Kept, NoStray
  <2> QED BY <1>1, <1>2, <1>3, <2>1, <2>4, GoInductive DEF Inductive, TypeOK, ThreadTypes, Sections, Holding
<1> QED BY <1>4, <1>5

LEMMA RemoveDropsInductive ==
  ASSUME Inductive, NEW t \in Threads, RemoveDrops(t)
  PROVE  Inductive'
<1>h. PICK h \in Handles : h = thread[t].handle
  BY DEF ParseTimesOut, RemoveDrops, Inductive, TypeOK
<1>1. /\ thread[t].pc = "drop" /\ Drop(h) /\ Unlock(t) /\ Return(t)
      /\ UNCHANGED <<torrents, locks, orphaned, shared>>
  BY <1>h DEF RemoveDrops, history
<1>2. thread[t].pc \in Sections
  BY <1>1 DEF Sections
<1>3. /\ handle' \in [Handles -> Handle] /\ OneLive' /\ ~ Live(h)'
      /\ \A g : g # h => (Live(g)' <=> Live(g))
      /\ restoring' \subseteq Handles
  BY <1>1, <1>2, DroppedIsGone DEF Inductive
<1>4. thread'[t].pc = "idle" /\ \A u \in Threads : u # t => thread'[u] = thread[u]
  BY <1>1 DEF Return, Idle, Inductive, TypeOK
<1>5. ASSUME ~ orphaned', ~ shared' PROVE Kept' /\ NoStray'
  <2>1. ~ orphaned /\ ~ shared
    BY <1>1, <1>5
  <2>2. torrents = Nil
    BY <1>1, <2>1 DEF Inductive, Kept
  <2>3. t = "command" /\ \A u \in Threads : u # t => thread[u].pc \notin Sections
    BY <1>1, <1>2, <2>1, OneInside DEF Inductive, Placed, Threads
  <2>4. \A u \in Threads : thread'[u].pc \notin {"metadata", "store", "drop", "verify"}
    BY <1>4, <2>3 DEF Inductive, Placed, Sections, Threads
  <2>5. Kept'
    BY <1>1, <2>2, <2>4 DEF Kept, Threads
  <2>6. \A g : Live(g)' => Live(g) /\ g # h
    BY <1>3
  <2>7. NoStray'
    BY <1>h, <1>1, <1>4, <2>1, <2>6 DEF Inductive, NoStray
  <2> QED BY <2>5, <2>7
<1>6. Kept' /\ NoStray'
  BY <1>5 DEF Kept, NoStray
<1> QED BY <1>1, <1>2, <1>3, <1>6, ReturnInductive DEF Inductive, TypeOK, ThreadTypes


-----------------------------------------------------------------------------
(* RestoreTorrent, the library and the readers *)

LEMMA RestoreBeginsInductive ==
  ASSUME Inductive, RestoreBegins
  PROVE  Inductive'
<1> DEFINE t == "command"
           r == [pc |-> "add", op |-> "restore", parsed |-> FALSE, mutex |-> Nil, handle |-> Nil]
<1>1. /\ thread[t].pc = "idle" /\ Moves(t, r)
      /\ UNCHANGED <<handle, torrents, locks, held, restoring, orphaned, shared>>
  BY DEF RestoreBegins, Moves, history
<1>2. t \in Threads /\ r \in Thread /\ r.pc \notin Sections /\ r.pc \notin Holding
      /\ thread[t].pc \notin Holding
  BY <1>1 DEF Threads, Thread, Places, Operations, Sections, Holding
<1>3. OneLive' /\ Kept' /\ NoStray'
  BY <1>1, <1>2, HandlesStay
<1>4. Locked' /\ OneMutex'
  BY <1>1, <1>2, MoveMutexes DEF Inductive
<1> QED BY <1>1, <1>2, <1>3, <1>4, MoveTypes DEF Inductive, TypeOK, ThreadTypes

\* What is stored is live, and was in the map if anything was.
LEMMA RestoreAddsInductive ==
  ASSUME Inductive, RestoreAdds
  PROVE  Inductive'
<1> DEFINE t == "command"
<1>1. PICK h \in Handles : /\ Add(h) /\ Go(t, "store", h)
                           /\ shared' = (shared \/ Waited(h))
  BY DEF RestoreAdds
<1>2. thread[t].pc = "add" /\ UNCHANGED <<torrents, locks, held, restoring, orphaned>>
  BY DEF RestoreAdds
<1> DEFINE r == [pc |-> "store", op |-> thread[t].op, parsed |-> thread[t].parsed,
                 mutex |-> thread[t].mutex, handle |-> h]
<1>3. t \in Threads /\ thread[t] \in Thread /\ thread[t].mutex = Nil /\ thread[t].handle = Nil
  BY <1>2 DEF Threads, Inductive, TypeOK, Placed, Holding
<1>4. r \in Thread /\ Moves(t, r) /\ r.pc \notin Sections
  BY <1>1, <1>3 DEF Thread, Places, Go, Moves, Sections
<1>5. Locked' /\ OneMutex'
  BY <1>2, <1>3, <1>4, MoveMutexes DEF Inductive
<1>6. /\ handle' \in [Handles -> Handle] /\ OneLive' /\ Live(h)'
      /\ \A g : Live(g) => g = h /\ Live(g)'
  BY <1>1, AddedIsLive DEF Inductive
<1>7. /\ thread'[t].pc = "store" /\ thread'[t].handle = h
      /\ \A u \in Threads : u # t => thread'[u] = thread[u]
  BY <1>3, <1>4 DEF Moves, Inductive, TypeOK
<1>8. ASSUME ~ orphaned', ~ shared' PROVE Kept' /\ NoStray'
  <2>1. ~ orphaned /\ ~ shared /\ ~ Waited(h)
    BY <1>1, <1>2, <1>8
  <2>2. CASE thread["parse"].pc = "metadata"
    <3>1. Live(thread["parse"].handle)
      BY <2>1, <2>2 DEF Inductive, Kept, Threads
    <3> QED BY <1>6, <2>1, <2>2, <3>1 DEF Waited
  <2>3. CASE thread["parse"].pc # "metadata"
    <3>1. Kept'
      BY <1>2, <1>6, <1>7, <2>1, <2>3 DEF Inductive, Kept, Placed, Threads
    <3>2. NoStray'
      BY <1>6, <1>7, <1>3 DEF NoStray, OneLive, Live
    <3> QED BY <3>1, <3>2
  <2> QED BY <2>2, <2>3
<1>9. Kept' /\ NoStray'
  BY <1>8 DEF Kept, NoStray
<1>10. shared' \in BOOLEAN
  BY <1>1 DEF Inductive, TypeOK
<1>11. r.mutex = Nil /\ r.handle # Nil /\ r.pc \in Holding
  BY <1>3, NilAssumption DEF Holding
<1> QED BY <1>2, <1>3, <1>4, <1>5, <1>6, <1>9, <1>10, <1>11, MoveTypes DEF Inductive, TypeOK, ThreadTypes

LEMMA RestoreStoresInductive ==
  ASSUME Inductive, RestoreStores
  PROVE  Inductive'
<1> DEFINE t == "command"
<1>1. PICK h \in Handles : h = thread[t].handle
  BY DEF RestoreStores, Inductive, TypeOK, Threads
<1>2. /\ thread[t].pc = "store" /\ torrents' = h /\ Return(t)
      /\ restoring' = (IF handle[h].alive \/ handle[h].info THEN restoring \cup {h} ELSE restoring)
      /\ shared' = (shared \/ Waited(h))
      /\ UNCHANGED <<handle, locks, held, orphaned>>
  BY <1>1 DEF RestoreStores
<1>3. t \in Threads /\ Idle \in Thread /\ Moves(t, Idle) /\ Idle.mutex = Nil /\ Idle.pc = "idle"
      /\ Idle.handle = Nil
  BY <1>2 DEF Threads, Idle, Thread, Places, Operations, Return, Moves
<1>4. Locked' /\ OneMutex'
  BY <1>2, <1>3, MoveMutexes DEF Inductive, Sections
<1>5. OneLive' /\ \A g : Live(g)' <=> Live(g)
  BY <1>2 DEF Inductive, OneLive, Live
<1>6. thread'[t].pc = "idle" /\ \A u \in Threads : u # t => thread'[u] = thread[u]
  BY <1>3 DEF Moves, Inductive, TypeOK
<1>7. ASSUME ~ orphaned', ~ shared' PROVE Kept' /\ NoStray'
  <2>1. ~ orphaned /\ ~ shared
    BY <1>2, <1>7
  <2>2. Live(h) /\ thread["parse"].pc # "metadata"
    BY <1>1, <1>2, <1>3, <2>1 DEF Inductive, Kept
  <2>3. \A u \in Threads : thread'[u].pc \notin {"metadata", "store", "drop", "verify"}
    BY <1>6, <2>2 DEF Inductive, Placed, Threads
  <2>4. Kept'
    BY <1>2, <1>5, <2>2, <2>3 DEF Kept, Threads
  <2>5. NoStray'
    BY <1>2, <1>5, <2>2 DEF NoStray, Inductive, OneLive, Live
  <2> QED BY <2>4, <2>5
<1>8. Kept' /\ NoStray'
  BY <1>7 DEF Kept, NoStray
<1>9. restoring' \subseteq Handles /\ shared' \in BOOLEAN
  BY <1>2 DEF Inductive, TypeOK
<1> QED BY <1>2, <1>3, <1>4, <1>5, <1>8, <1>9, MoveTypes
        DEF Inductive, TypeOK, ThreadTypes, Sections, Holding, Idle

\* What selects files or adds metadata leaves the threads alone, and nothing dies of it.
LEMMA LibraryInductive ==
  ASSUME Inductive,
         ReadFile \/ \E h \in Handles : RestoreSelects(h) \/ Metadata(h)
  PROVE  Inductive'
<1> DEFINE Harmless ==
             /\ handle' \in [Handles -> Handle]
             /\ \A g \in Handles : handle'[g].alive = handle[g].alive
             /\ restoring' \subseteq Handles
             /\ UNCHANGED <<torrents, locks, held, thread, orphaned, shared>>
<1>1. Harmless
  <2>1. handle \in [Handles -> Handle] /\ restoring \subseteq Handles
    BY DEF Inductive, TypeOK
  <2>2. CASE ReadFile
    BY <2>1, <2>2, SelectKeeps DEF ReadFile, history
  <2>3. ASSUME NEW h \in Handles, RestoreSelects(h)
        PROVE  Harmless
    BY <2>1, <2>3, SelectKeeps DEF RestoreSelects, history
  <2>4. ASSUME NEW h \in Handles, Metadata(h)
        PROVE  Harmless
    <3>1. handle' = [handle EXCEPT ![h].info = TRUE]
      BY <2>4 DEF Metadata
    <3>2. handle' \in [Handles -> Handle] /\ \A g \in Handles : handle'[g].alive = handle[g].alive
      BY <2>1, <3>1 DEF Handle
    <3> QED BY <2>1, <2>4, <3>2 DEF Metadata, history
  <2> QED BY <2>2, <2>3, <2>4
<1>2. \A g : Live(g)' <=> Live(g)
  BY <1>1 DEF Live
<1>3. TypeOK'
  BY <1>1 DEF Inductive, TypeOK
<1>4. Placed' /\ Locked' /\ OneMutex'
  BY <1>1 DEF Inductive, Placed, Locked, OneMutex
<1>5. OneLive'
  BY <1>2 DEF Inductive, OneLive
<1>6. Kept' /\ NoStray'
  BY <1>1, <1>2 DEF Inductive, Kept, NoStray
<1> QED BY <1>3, <1>4, <1>5, <1>6 DEF Inductive

-----------------------------------------------------------------------------

LEMMA InitInductive == Init => Inductive
<1> SUFFICES ASSUME Init PROVE Inductive
  OBVIOUS
<1>1. TypeOK
  BY DEF Init, TypeOK, Handle, Thread, Places, Sections, Operations, Gone, Idle, Threads
<1>2. Placed /\ Locked /\ OneMutex
  BY DEF Init, Placed, Locked, OneMutex, Idle, Sections, Holding, Threads
<1>3. \A h : ~ Live(h)
  BY DEF Init, Live, Gone
<1> QED BY <1>1, <1>2, <1>3 DEF Init, Inductive, OneLive, Kept, NoStray, Idle, Threads

\* Every step preserves the invariant.
LEMMA NextInductive == Inductive /\ [Next]_vars => Inductive'
<1> SUFFICES ASSUME Inductive, [Next]_vars PROVE Inductive'
  OBVIOUS
<1>1. ASSUME NEW t \in Threads, Begin(t) PROVE Inductive'
  BY <1>1, BeginInductive
<1>2. ASSUME NEW t \in Threads, Lock(t) PROVE Inductive'
  BY <1>2, LockInductive
<1>3. ASSUME NEW t \in Threads, Parse(t) PROVE Inductive'
  BY <1>3, ParseKnownInductive, ParseAddsInductive, ParseEndsInductive, ParseTimesOutInductive
     DEF Parse
<1>4. ASSUME NEW t \in Threads, Command(t) PROVE Inductive'
  BY <1>4, PlainReturnInductive, StartVerifiesInductive, StartSelectsInductive,
     RemoveForgetsInductive, RemoveDropsInductive DEF Command
<1>5. CASE RestoreBegins \/ Restore
  BY <1>5, RestoreBeginsInductive, RestoreAddsInductive, RestoreStoresInductive DEF Restore
<1>6. CASE ReadFile \/ \E h \in Handles : RestoreSelects(h) \/ Metadata(h)
  BY <1>6, LibraryInductive
<1>7. CASE UNCHANGED vars
  <2>1. \A h : Live(h)' <=> Live(h)
    BY <1>7 DEF vars, Live
  <2>2. TypeOK' /\ Placed' /\ Locked' /\ OneMutex'
    BY <1>7 DEF vars, Inductive, TypeOK, Placed, Locked, OneMutex
  <2>3. OneLive' /\ Kept' /\ NoStray'
    BY <1>7, <2>1 DEF vars, Inductive, OneLive, Kept, NoStray
  <2> QED BY <2>2, <2>3 DEF Inductive
<1> QED BY <1>1, <1>2, <1>3, <1>4, <1>5, <1>6, <1>7 DEF Next

\* The invariant holds, with or without the fairness that only liveness needs.
THEOREM InductiveInvariant == Spec => []Inductive
BY InitInductive, NextInductive, PTL DEF Spec

\* Who is in a section of the mutexes holds one that is locked, whatever mutexes
\* RemoveTorrent took out of the map; a waiting thread has a handle to wait for.
THEOREM TypeCorrect == Spec => []TypeOK
<1>1. Inductive => TypeOK
  BY DEF Inductive
<1> QED BY <1>1, InductiveInvariant, PTL

\* "locks stores mutexes for each info hash to prevent concurrent operations": it does,
\* as long as RemoveTorrent deletes no mutex that another thread is after.
THEOREM MutexesExclude == Spec => []Exclusive
<1>1. Inductive => Exclusive
  BY OneInside DEF Exclusive
<1> QED BY <1>1, InductiveInvariant, PTL

\* What the map holds was not dropped: a parse that times out drops only its own handle.
THEOREM EntriesLive == Spec => []EntryIsLive
<1>1. Inductive => EntryIsLive
  BY DEF Inductive, Kept, EntryIsLive
<1> QED BY <1>1, InductiveInvariant, PTL

\* No live handle of the library is unknown to the client, as long as RemoveTorrent has
\* taken no mutex from under another thread and no parse has shared a handle with
\* RestoreTorrent; after either race the statement says nothing.
THEOREM NoneStrays == Spec => []NoStray
<1>1. Inductive => NoStray
  BY DEF Inductive
<1> QED BY <1>1, InductiveInvariant, PTL

=============================================================================

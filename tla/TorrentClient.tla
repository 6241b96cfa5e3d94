----------------------------- MODULE TorrentClient --------------------------
(***************************************************************************)
(* A worker's torrent client and what its goroutines do to one torrent:    *)
(* the consumer of parse-magnet-jobs, the consumer of download-jobs, the   *)
(* goroutines of RestoreTorrent and, in mode all, the readers of files.    *)
(*                                                                         *)
(* The map of torrents has one entry for the torrent and the map of locks  *)
(* one mutex. Of the BitTorrent library a handle is what AddTorrentSpec    *)
(* returned: alive until it is dropped, with metadata some time after it   *)
(* was added, wanted when some of its files have a priority. The library   *)
(* answers AddTorrentSpec with the live handle of the torrent if it has    *)
(* one, and a handle without metadata has no files. Names of handles and   *)
(* of mutexes that nothing refers to are used again.                       *)
(***************************************************************************)
EXTENDS Naturals, FiniteSets

CONSTANTS Handles,  \* names of handles
          Mutexes,  \* names of mutexes
          Nil,      \* no handle, no mutex
          MaxRestoring \* bound: goroutines of RestoreTorrent that still wait

ASSUME NilAssumption == Nil \notin Handles \cup Mutexes
ASSUME MutexesAssumption == \E k, l \in Mutexes : k # l  \* enough to make a new one
ASSUME MaxRestoringAssumption == MaxRestoring \in Nat

VARIABLES
  handle,    \* the library's handles
  torrents,  \* the entry in Client.torrents
  locks,     \* the entry in Client.locks
  held,      \* the mutexes that are locked
  thread,    \* local state of the two consumers
  restoring, \* handles for which a goroutine of RestoreTorrent waits
  orphaned,  \* history: a mutex was made while another thread had the one before
  shared     \* history: a parse waited for a handle that RestoreTorrent took

vars == <<handle, torrents, locks, held, thread, restoring, orphaned, shared>>

Threads == {"parse", "command"}
Operations == {"parse", "start", "pause", "resume", "remove", "restore"}

\* Where a thread is in its operation: waiting for the mutex, at the beginning of
\* the section it protects, and at the points at which others may run in between.
Sections == {"enter", "metadata", "verify", "drop"}
Places == {"idle", "lock", "add", "store"} \cup Sections

Handle == [alive : BOOLEAN, info : BOOLEAN, wanted : BOOLEAN]
Thread == [pc : Places, op : Operations, parsed : BOOLEAN,
           mutex : Mutexes \cup {Nil}, handle : Handles \cup {Nil}]

Gone == [alive |-> FALSE, info |-> FALSE, wanted |-> FALSE]
Added == [alive |-> TRUE, info |-> FALSE, wanted |-> FALSE]
Idle == [pc |-> "idle", op |-> "parse", parsed |-> FALSE, mutex |-> Nil, handle |-> Nil]

TypeOK ==
  /\ handle \in [Handles -> Handle]
  /\ torrents \in Handles \cup {Nil}
  /\ locks \in Mutexes \cup {Nil}
  /\ held \subseteq Mutexes
  /\ thread \in [Threads -> Thread]
  /\ \A t \in Threads :
       /\ thread[t].pc \in Sections => thread[t].mutex \in held
       /\ thread[t].pc \in {"metadata", "verify", "drop", "store"} => thread[t].handle \in Handles
  /\ restoring \subseteq Handles
  /\ orphaned \in BOOLEAN
  /\ shared \in BOOLEAN

Init ==
  /\ handle = [h \in Handles |-> Gone]
  /\ torrents = Nil
  /\ locks = Nil
  /\ held = {}
  /\ thread = [t \in Threads |-> Idle]
  /\ restoring = {}
  /\ orphaned = FALSE
  /\ shared = FALSE

history == <<orphaned, shared>>

-----------------------------------------------------------------------------
(* The maps and the library *)

\* Thread t goes on to pc, with a handle in hand.
Go(t, pc, h) ==
  thread' = [thread EXCEPT ![t] = [pc |-> pc, op |-> @.op, parsed |-> @.parsed, mutex |-> @.mutex,
                                   handle |-> h]]
At(t, pc, op) == thread[t].pc = pc /\ thread[t].op = op

\* getInfoHashLock, for thread t: a mutex that nothing refers to is made when there
\* is none in the map, whatever mutexes other threads still wait for or hold.
Mutex(t) == IF locks # Nil THEN locks
            ELSE CHOOSE m \in Mutexes : \A u \in Threads \ {t} : thread[u].mutex # m

InfoHashLock(t) ==
  /\ locks' = Mutex(t)
  /\ orphaned' = 
       (orphaned \/ (locks = Nil /\ \E u \in Threads \ {t} : thread[u].mutex # Nil))

Live(h) == h \in Handles /\ handle[h].alive
Unused(h) == h # torrents /\ h \notin restoring /\ \A t \in Threads : thread[t].handle # h

\* Thread t takes the mutex of the map, and waits for it.
Wait(t, op, parsed) ==
  thread' = [thread EXCEPT ![t] = [pc |-> "lock", op |-> op, parsed |-> parsed,
                                   mutex |-> Mutex(t), handle |-> Nil]]

\* AddTorrentSpec
AddedHandle == IF \E h \in Handles : Live(h) THEN CHOOSE h \in Handles : Live(h)
               ELSE CHOOSE h \in Handles : Unused(h)

Add(h) ==
  /\ h = AddedHandle
  /\ handle' = IF Live(h) THEN handle ELSE [handle EXCEPT ![h] = Added]

\* Drop. A goroutine of RestoreTorrent that waits for the metadata waits for ever.
Drop(h) ==
  /\ handle' = [handle EXCEPT ![h] = [alive |-> FALSE, info |-> @.info, wanted |-> FALSE]]
  /\ restoring' = IF handle[h].info THEN restoring ELSE restoring \ {h}

\* Files of a live handle get a priority or lose it.
Select(h, wanted) ==
  handle' = [handle EXCEPT ![h].wanted =
               IF handle[h].alive /\ handle[h].info THEN wanted ELSE @]

\* Mutant of Unlock: an operation that fails keeps the mutex.
UnlockUnlessParsing(t) ==
  held' = IF thread[t].op = "parse" THEN held ELSE held \ {thread[t].mutex}

Unlock(t) == held' = held \ {thread[t].mutex}

Return(t) == thread' = [thread EXCEPT ![t] = Idle]

-----------------------------------------------------------------------------
(* The operations *)

Begin(t) ==
  /\ thread[t].pc = "idle"
  /\ \E op \in Operations \ {"restore"} :
       /\ (t = "parse") <=> (op = "parse")
       /\ Wait(t, op, FALSE)
  /\ InfoHashLock(t)
  /\ UNCHANGED <<handle, torrents, held, restoring, shared>>

\* Mutant of Lock: two waiting threads are woken.
LockAnyway(t) ==
  /\ thread[t].pc = "lock"
  /\ held' = held \cup {thread[t].mutex}
  /\ Go(t, "enter", Nil)
  /\ UNCHANGED <<handle, torrents, locks, restoring, history>>

Lock(t) ==
  /\ thread[t].pc = "lock"
  /\ thread[t].mutex \notin held
  /\ held' = held \cup {thread[t].mutex}
  /\ Go(t, "enter", Nil)
  /\ UNCHANGED <<handle, torrents, locks, restoring, history>>

Parses(t) == thread[t].op = "parse" \/ (thread[t].op = "start" /\ ~ thread[t].parsed)
Restored(h) == thread["command"].pc = "store" /\ thread["command"].handle = h
Known == torrents # Nil /\ handle[torrents].info

\* ParseMagnet has returned with the files: a parse is done, a start calls
\* StartDownload, which takes the mutex again.
Parsed(t) ==
  IF thread[t].op = "parse"
  THEN Return(t) /\ UNCHANGED <<locks, orphaned>>
  ELSE /\ InfoHashLock(t)
       /\ Wait(t, "start", TRUE)

ParseKnown(t) ==
  /\ thread[t].pc = "enter" /\ Parses(t)
  /\ Known
  /\ Unlock(t)
  /\ Parsed(t)
  /\ UNCHANGED <<handle, torrents, restoring, shared>>

ParseAdds(t) ==
  /\ thread[t].pc = "enter" /\ Parses(t)
  /\ ~ Known
  /\ \E h \in Handles :
       /\ Add(h)
       /\ Go(t, "metadata", h)
       /\ shared' = (shared \/ h = torrents \/ Restored(h))
  /\ UNCHANGED <<torrents, locks, held, restoring, orphaned>>

ParseEnds(t) ==
  /\ thread[t].pc = "metadata"
  /\ handle[thread[t].handle].info
  /\ torrents' = thread[t].handle
  /\ Unlock(t)
  /\ Parsed(t)
  /\ UNCHANGED <<handle, restoring, shared>>

\* Mutant of ParseTimesOut: the handle is left to the library.
ParseGivesUp(t) ==
  /\ t = "parse" /\ thread[t].pc = "metadata"
  /\ Unlock(t)
  /\ Return(t)
  /\ UNCHANGED <<handle, torrents, locks, restoring, history>>

\* Only the handler of parse requests sets a deadline.
ParseTimesOut(t) ==
  /\ t = "parse" /\ thread[t].pc = "metadata"
  /\ Drop(thread[t].handle)
  /\ Unlock(t)
  /\ Return(t)
  /\ UNCHANGED <<torrents, locks, history>>

\* The operations on a torrent that is not in the map return an error.
NotFound(t) ==
  /\ thread[t].pc = "enter" /\ ~ Parses(t) /\ thread[t].op # "remove"
  /\ torrents = Nil
  /\ Unlock(t)
  /\ Return(t)
  /\ UNCHANGED <<handle, torrents, locks, restoring, history>>

\* StartDownload: VerifyDataContext takes its time.
StartVerifies(t) ==
  /\ At(t, "enter", "start") /\ thread[t].parsed
  /\ torrents # Nil
  /\ Go(t, "verify", torrents)
  /\ UNCHANGED <<handle, torrents, locks, held, restoring, history>>

StartSelects(t) ==
  /\ thread[t].pc = "verify"
  /\ Select(thread[t].handle, TRUE)
  /\ Unlock(t)
  /\ Return(t)
  /\ UNCHANGED <<torrents, locks, restoring, history>>

PauseOrResume(t) ==
  /\ thread[t].pc = "enter" /\ thread[t].op \in {"pause", "resume"}
  /\ torrents # Nil
  /\ Select(torrents, thread[t].op = "resume")
  /\ Unlock(t)
  /\ Return(t)
  /\ UNCHANGED <<torrents, locks, restoring, history>>

\* Mutant of RemoveForgets: only the mutex leaves its map.
RemoveLockOnly(t) ==
  /\ At(t, "enter", "remove")
  /\ locks' = Nil
  /\ IF torrents = Nil
     THEN Unlock(t) /\ Return(t)
     ELSE /\ Go(t, "drop", torrents)
          /\ UNCHANGED held
  /\ UNCHANGED <<handle, torrents, restoring, history>>

\* Mutant of RemoveForgets: the mutex is released before the torrent is dropped.
RemoveUnlocks(t) ==
  /\ At(t, "enter", "remove")
  /\ torrents' = Nil
  /\ locks' = Nil
  /\ Unlock(t)
  /\ IF torrents = Nil
     THEN Return(t)
     ELSE Go(t, "drop", torrents)
  /\ UNCHANGED <<handle, restoring, history>>

RemoveForgets(t) ==
  /\ At(t, "enter", "remove")
  /\ torrents' = Nil
  /\ locks' = Nil
  /\ IF torrents = Nil
     THEN Unlock(t) /\ Return(t)
     ELSE /\ Go(t, "drop", torrents)
          /\ UNCHANGED held
  /\ UNCHANGED <<handle, restoring, history>>

RemoveDrops(t) ==
  /\ thread[t].pc = "drop"
  /\ Drop(thread[t].handle)
  /\ Unlock(t)
  /\ Return(t)
  /\ UNCHANGED <<torrents, locks, history>>

-----------------------------------------------------------------------------
(* RestoreTorrent takes no mutex *)

\* Nothing to do about a torrent that is in the map.
RestoreBegins ==
  /\ thread["command"].pc = "idle"
  /\ torrents = Nil
  /\ Cardinality(restoring) < MaxRestoring
  /\ thread' = [thread EXCEPT !["command"] = [pc |-> "add", op |-> "restore", parsed |-> FALSE,
                                              mutex |-> Nil, handle |-> Nil]]
  /\ UNCHANGED <<handle, torrents, locks, held, restoring, history>>

Waited(h) == thread["parse"].pc = "metadata" /\ thread["parse"].handle = h

RestoreAdds ==
  /\ thread["command"].pc = "add"
  /\ \E h \in Handles :
       /\ Add(h)
       /\ Go("command", "store", h)
       /\ shared' = (shared \/ Waited(h))
  /\ UNCHANGED <<torrents, locks, held, restoring, orphaned>>

RestoreStores ==
  /\ thread["command"].pc = "store"
  /\ LET h == thread["command"].handle IN
       /\ torrents' = h
       /\ restoring' = IF handle[h].alive \/ handle[h].info THEN restoring \cup {h} ELSE restoring
       /\ shared' = (shared \/ Waited(h))
  /\ Return("command")
  /\ UNCHANGED <<handle, locks, held, orphaned>>

\* The goroutine: verify what is on the disk, then select files.
RestoreSelects(h) ==
  /\ h \in restoring
  /\ handle[h].info
  /\ restoring' = restoring \ {h}
  /\ Select(h, TRUE)
  /\ UNCHANGED <<torrents, locks, held, thread, history>>

-----------------------------------------------------------------------------
(* The library and the readers *)

Metadata(h) ==
  /\ Live(h) /\ ~ handle[h].info
  /\ handle' = [handle EXCEPT ![h].info = TRUE]
  /\ UNCHANGED <<torrents, locks, held, thread, restoring, history>>

\* GetFileReader gives the file it reads a priority, also in a paused torrent.
ReadFile ==
  /\ torrents # Nil
  /\ Select(torrents, TRUE)
  /\ UNCHANGED <<torrents, locks, held, thread, restoring, history>>

Parse(t) == ParseKnown(t) \/ ParseAdds(t) \/ ParseEnds(t) \/ ParseTimesOut(t)
Command(t) == \/ NotFound(t) \/ StartVerifies(t) \/ StartSelects(t) \/ PauseOrResume(t)
              \/ RemoveForgets(t) \/ RemoveDrops(t)
Restore == RestoreAdds \/ RestoreStores

Next ==
  \/ \E t \in Threads : Begin(t) \/ Lock(t) \/ Parse(t) \/ Command(t)
  \/ RestoreBegins \/ Restore
  \/ \E h \in Handles : RestoreSelects(h) \/ Metadata(h)
  \/ ReadFile

\* Goroutines run, a waiting thread gets a mutex that is released again and again
\* (Go's mutexes are handed over to one that starves), and there are peers.
Fairness ==
  /\ \A t \in Threads : SF_vars(Lock(t)) /\ WF_vars(Parse(t)) /\ WF_vars(Command(t))
  /\ WF_vars(Restore)
  /\ \A h \in Handles : WF_vars(Metadata(h))

Spec == Init /\ [][Next]_vars
FairSpec == Spec /\ Fairness

-----------------------------------------------------------------------------

\* "locks stores mutexes for each info hash to prevent concurrent operations": two
\* threads are never in the sections that the mutexes protect, unless RemoveTorrent
\* took a mutex out of the map that the other thread was after.
Exclusive ==
  orphaned \/ ~ \E t, u \in Threads : t # u /\ {thread[t].pc, thread[u].pc} \subseteq Sections

\* The map holds no handle that was dropped, whose download would neither go on nor
\* be started again by RestoreTorrent: a parse that times out drops only what it has
\* added, unless RestoreTorrent took the handle meanwhile or a mutex was lost.
EntryIsLive == orphaned \/ shared \/ torrents = Nil \/ Live(torrents)

\* No torrent stays in the library, perhaps downloading, after the client has lost
\* track of it: a live handle is in the map or some thread is about to store or drop
\* it, as long as neither race has happened: no mutex was lost to RemoveTorrent, and no
\* parse has waited for a handle that RestoreTorrent put, or was about to put, into the
\* map. After either one a torrent may be left behind for good, and nothing is promised.
NoStray == orphaned \/ shared \/ \A h \in Handles :
             Live(h) => h = torrents \/ \E t \in Threads : thread[t].handle = h

\* Every operation ends when there are peers, although operations wait for a mutex
\* that is held while metadata is fetched without a deadline; unless RemoveTorrent ever
\* takes a mutex out of the map that another thread is after, of which nothing is said.
OperationsEnd == \A t \in Threads : []<>(thread[t].pc = "idle") \/ <>orphaned

=============================================================================

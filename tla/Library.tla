------------------------------- MODULE Library -------------------------------
(* Accounts and torrents together: what an admin deletes, faults and restarts. *)
EXTENDS TorrentRows

vars == <<accountVars, rowVars, list, listVars>>

\* DeleteTorrent and DeleteUser read the rows, then delete the objects, the files, the
\* torrents and, at last, the user.
BeginDeleteTorrent(k, a) ==
  /\ IsAdmin(a) /\ torrent # NoRow
  /\ Begin(k, Request("deleteTorrent", a, "torrent", "status", NoRow, torrent))
  /\ UNCHANGED <<accounts, faults, rowVars, listVars>>

BeginDeleteUser(k, a, u) ==
  /\ MayDelete(a, u)
  /\ Begin(k, Request("deleteUser", a, u, "status", NoRow, IF Mine(u) THEN torrent ELSE NoRow))
  /\ UNCHANGED <<accounts, faults, rowVars, listVars>>

Deleting(k, step) == Ours(k, "deleteTorrent", step) \/ Ours(k, "deleteUser", step)

DeleteObjects(k) ==
  /\ Deleting(k, "read")
  /\ IF call[k].base = NoRow THEN UNCHANGED <<posters, stripped>>
     ELSE /\ posters' = posters \ {call[k].base.poster}
          /\ stripped' = stripped \cup {call[k].base.id}
  /\ Goes(k, "files")
  /\ UNCHANGED <<accounts, calls, faults, torrent, ids, files, uploaded, plan, spoilt,
                 leftover, listVars>>

\* Mutant of DeleteFiles: files go with their torrent by themselves.
LeaveFiles(k) ==
  /\ Deleting(k, "files")
  /\ Goes(k, "rows")
  /\ UNCHANGED <<accounts, calls, faults, torrent, ids, files, posters, uploaded, plan, history,
                 listVars>>

DeleteFiles(k) ==
  /\ Deleting(k, "files")
  /\ files' = IF call[k].base = NoRow THEN files ELSE files \ {call[k].base.id}
  /\ Goes(k, "rows")
  /\ UNCHANGED <<accounts, calls, faults, torrent, ids, posters, uploaded, plan, history,
                 listVars>>

\* Logged, and the deletion goes on.
DeleteFilesFails(k) ==
  /\ Deleting(k, "files") /\ call[k].base # NoRow
  /\ Fault
  /\ leftover' = leftover \cup {call[k].base.id}
  /\ Goes(k, "rows")
  /\ UNCHANGED <<accounts, calls, torrent, ids, files, posters, uploaded, plan, spoilt,
                 stripped, listVars>>

\* The torrent that goes: the one that was read, or whatever the user has by now.
Doomed(k) ==
  /\ torrent # NoRow
  /\ IF call[k].op = "deleteUser" THEN torrent.creator = call[k].on
     ELSE torrent.id = call[k].base.id

\* A torrent that DeleteUser has not read: its files stay.
Unseen(k) ==
  \/ call[k].base = NoRow
  \/ call[k].base # NoRow /\ call[k].base.id # torrent.id

DeleteRow(k) ==
  IF Doomed(k)
  THEN /\ torrent' = NoRow /\ plan' = NoRow
       /\ leftover' = IF Unseen(k) THEN leftover \cup {torrent.id} ELSE leftover
  ELSE UNCHANGED <<torrent, plan, leftover>>

DeleteTorrentRow(k) ==
  /\ Ours(k, "deleteTorrent", "rows")
  /\ DeleteRow(k)
  /\ LET u == call[k].base.creator IN
       Changes(Told(u), IF Doomed(k) THEN NotTold(u) ELSE {})
  /\ ReturnAfterWrite(k)
  /\ UNCHANGED <<accounts, calls, faults, ids, files, posters, uploaded, spoilt, stripped>>

DeleteTorrentRows(k) ==
  /\ Ours(k, "deleteUser", "rows")
  /\ DeleteRow(k)
  /\ Changes({}, {})
  /\ call' = [Overtaken("torrent") EXCEPT ![k].step = "user"]
  /\ UNCHANGED <<accounts, calls, faults, ids, files, posters, uploaded, spoilt, stripped>>

DeleteUser(k) ==
  /\ Ours(k, "deleteUser", "user")
  /\ DropAccount(k, call[k].on)
  /\ Tells(call[k].on)
  /\ UNCHANGED <<tokens, calls, faults, clobbered, rowVars>>

-----------------------------------------------------------------------------

\* A request that has changed the row and has yet to say so.
Untold(k) == Ours(k, "start", "files") \/ Ours(k, "deleteUser", "user")

\* A statement fails, and the request with it. A poster is deleted again.
CallFails(k) ==
  /\ call[k] # Idle
  /\ Fault
  /\ posters' = IF call[k].op = "poster" THEN posters \ {call[k].value} ELSE posters
  /\ excused' = (excused \/ Untold(k))
  /\ loading' = IF loading # Miss /\ Untold(k) THEN [loading EXCEPT !.excused = TRUE] ELSE loading
  /\ Return(k)
  /\ UNCHANGED <<accounts, calls, torrent, ids, files, uploaded, plan, history, cached, dropping>>

\* Requests and goroutines end with the server.
Restart ==
  /\ Fault
  /\ RestoreRoot
  /\ call' = [k \in Calls |-> Idle]
  /\ loading' = Miss /\ dropping' = FALSE
  /\ excused' = (excused \/ dropping \/ \E k \in Calls : Untold(k))
  /\ UNCHANGED <<tokens, calls, clobbered, rowVars, cached>>

ListStep ==
  /\ Load \/ Store \/ Drop \/ Expire
  /\ UNCHANGED <<accountVars, rowVars>>

ListFails ==
  /\ StoreFails \/ DropFails
  /\ Fault
  /\ UNCHANGED <<accounts, call, calls, rowVars>>

Starts(k) == StartCreates(k) \/ StartUpdates(k) \/ StartFiles(k)
Deletes(k) == DeleteObjects(k) \/ DeleteFiles(k) \/ DeleteFilesFails(k)
              \/ DeleteTorrentRow(k) \/ DeleteTorrentRows(k) \/ DeleteUser(k)

RowsNext ==
  \/ \E u \in Users :
       \/ \E status \in Status : SetStatus(u, status)
       \/ RemoveTorrent(u) \/ SetPoster(u) \/ BindIMDB(u)
  \/ Completed
  \/ \E k \in Calls :
       \/ \E u \in Users : BeginStart(k, u) \/ BeginPoster(k, u) \/ BeginDeleteTorrent(k, u)
       \/ \E u \in Users, v \in Visibility : BeginSetVisibility(k, u, v)
       \/ \E a, u \in Users : BeginDeleteUser(k, a, u)
       \/ Starts(k) \/ SetVisibility(k) \/ UpdatePoster(k) \/ RemovePoster(k) \/ Deletes(k)
       \/ CallFails(k)
  \/ Restart

Next ==
  /\ \/ AccountsNext /\ UNCHANGED <<rowVars, listVars>>
     \/ RowsNext
     \/ ListStep \/ ListFails
  /\ UNCHANGED list

Init == AccountsInit /\ RowsInit

Spec == Init /\ [][Next]_vars

-----------------------------------------------------------------------------

Values(field) ==
  CASE field = "nickname" -> Nicknames
    [] field = "password" -> Passwords
    [] field = "role" -> Roles
    [] field = "status" -> Status \cup {NoRow}
    [] field = "visibility" -> Visibility
    [] field = "poster" -> Poster

Operations == {"register", "save", "start", "visibility", "poster", "deleteTorrent", "deleteUser"}
Fields == {"nickname", "password", "role", "status", "visibility", "poster"}
Steps == {"read", "files", "rows", "user"}

\* All that a request under way can be, and more.
CallOf(values) ==
  [op : Operations, by : Users, on : Users \cup {"torrent"}, field : Fields, value : values,
   base : Account \cup Torrent \cup {NoRow}, step : Steps, stale : BOOLEAN]

Words == Nicknames \cup Passwords \cup Roles \cup Status \cup {NoRow} \cup Visibility
Call == CallOf(Words) \cup CallOf(Poster)

ASSUME NoneAssumption == NoRow \notin Account \cup Torrent /\ Idle \notin Call

Calling(c) ==
  /\ c.op \in Operations /\ c.by \in Users /\ c.on \in Users \cup {"torrent"}
  /\ c.field \in Fields /\ c.value \in Values(c.field)
  /\ c.base \in IF c.op = "save" THEN Account ELSE Torrent \cup {NoRow}
  /\ c.step \in Steps
  /\ c.stale \in BOOLEAN
  /\ c.base \in Torrent => c.base.id <= ids

\* Rows, requests and the cached list are of their types; a request never holds a row
\* with an id that was not given out.
TypeOK ==
  /\ account \in [Users -> Account \cup {NoRow}]
  /\ intended \in [Users -> Account \cup {NoRow}]
  /\ tokens \subseteq Users \X Roles /\ clobbered \subseteq Users
  /\ \A k \in Calls : call[k] = Idle \/ Calling(call[k])
  /\ calls \in 0 .. MaxCalls /\ faults \in 0 .. MaxFaults
  /\ torrent = NoRow \/ torrent \in Torrent
  /\ plan = NoRow \/ plan \in Torrent
  /\ ids \in 0 .. MaxIds /\ uploaded \in 0 .. MaxPosters
  /\ torrent # NoRow => torrent.id <= ids
  /\ files \subseteq 1 .. ids /\ stripped \subseteq 1 .. ids /\ leftover \subseteq 1 .. ids
  /\ posters \subseteq 1 .. uploaded
  /\ list \in Lists
  /\ cached \in {Miss, NoRow} \/ cached \in Torrent
  /\ loading = Miss \/ loading \in [shows : Torrent \cup {NoRow}, old : BOOLEAN, excused : BOOLEAN]
  /\ {spoilt, dropping, excused} \subseteq BOOLEAN

\* Each row is what the requests that were answered made of it, each changing only what
\* it is about, and a deleted row stays deleted: except when a Save wrote back a row that
\* somebody else had changed or deleted since it was read.
AnswersKept ==
  /\ torrent # plan => spoilt
  /\ \A u \in Users : account[u] # intended[u] => u \in clobbered

\* A cached list is what the tables say, or is about to be deleted, by a goroutine or by a
\* request that has committed its change and yet to drop lists (StartDownload before its
\* files, the deletion of a user before the user's row), or waits for its TTL for a reason: a change by somebody else than the creator, of the visibility or by an
\* event of a worker, a deletion told to who had the torrent before a Save put another
\* row in its place, a goroutine that stored what it had read before an invalidation, or
\* a failure.
StaleListsExplained ==
  cached \notin {Miss, Query} => dropping \/ excused \/ \E k \in Calls : Untold(k)

\* "Without this, hard-deleting the torrent leaves torrent_files orphans": files are of
\* the torrent, and the poster it names is stored. Files are left over where a deletion
\* failed or crossed a StartDownload; a poster is missing where an admin has deleted the
\* objects of the row and not, or not yet, the row, or where a Save brought a row back.
NothingDangles ==
  /\ \A id \in files : (torrent = NoRow \/ torrent.id # id) => id \in leftover
  /\ (torrent # NoRow /\ torrent.poster \notin {0} \cup posters)
       => spoilt \/ torrent.id \in stripped

=============================================================================

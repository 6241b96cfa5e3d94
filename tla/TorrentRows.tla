------------------------------ MODULE TorrentRows ----------------------------
(***************************************************************************)
(* The rows of one info hash: what requests do to the torrents and the     *)
(* torrent_files table, to the poster's object and to the cached lists.    *)
(* Lists of torrents do not depend on each other, so one of them is looked *)
(* at, whichever. The commands to the workers are left to DownloadControl. *)
(***************************************************************************)
EXTENDS Accounts

CONSTANTS Miss,       \* no list in Redis; nothing to store there
          Watched,    \* bound: the lists that are looked at
          MaxIds,     \* bound: rows created for the info hash, one after the other
          MaxPosters  \* bound: posters that are uploaded

ASSUME TorrentRowsAssumption ==
  /\ Watched \subseteq Users \cup {"public", "internal"}
  /\ {MaxIds, MaxPosters} \subseteq Nat \ {0}

VARIABLES
  torrent,   \* the row
  ids,       \* how many ids were used
  files,     \* ids of torrents that have rows in torrent_files
  posters,   \* posters whose object is stored
  uploaded,  \* how many posters were uploaded
  plan,      \* history: the row, if each request changed only what it is about
  spoilt,    \* history: the row was saved by a request after another one had changed it
  stripped,  \* history: ids of rows whose objects an admin has deleted
  leftover,  \* history: ids whose files a deletion has failed to delete, or has not seen
  list,      \* the list that is looked at
  cached,    \* this list in Redis, as far as it shows the torrent
  loading,   \* what a goroutine is about to store there
  dropping,  \* a goroutine is about to delete it
  excused    \* history: the cached list may be out of date until it expires

rowVars == <<torrent, ids, files, posters, uploaded, plan, spoilt, stripped, leftover>>
history == <<spoilt, stripped, leftover>>
listVars == <<cached, loading, dropping, excused>>

Lists == Users \cup {"public", "internal"}
Status == {"downloading", "completed", "stopped"}  \* stopped: paused, or no longer seeded
Visibility == {"private", "internal", "public"}
Poster == 0 .. MaxPosters  \* 0 is none, or a file of the torrent

Torrent == [id : 1 .. MaxIds, creator : Users, status : Status, visibility : Visibility,
            deleted : BOOLEAN, poster : Poster, imdb : BOOLEAN]

\* What the list should show of the torrent.
Query ==
  IF torrent # NoRow /\ ~ torrent.deleted
     /\ \/ list = torrent.creator
        \/ list = "public" /\ torrent.visibility = "public"
        \/ list = "internal" /\ torrent.visibility \in {"internal", "public"}
  THEN torrent ELSE NoRow

RowsInit ==
  /\ torrent = NoRow /\ ids = 0 /\ files = {}
  /\ posters = {} /\ uploaded = 0
  /\ plan = NoRow /\ spoilt = FALSE
  /\ stripped = {} /\ leftover = {}
  /\ list \in Watched
  /\ cached = Miss /\ loading = Miss /\ dropping = FALSE /\ excused = FALSE

-----------------------------------------------------------------------------
(* The cached list *)

\* Mutant of Told: the list of those who are logged in is forgotten.
ToldOnly(u) == {u, "public"}

\* The lists that invalidateTorrentListCache deletes.
Told(u) == {u, "public", "internal"}

\* The row has changed: a list is deleted, or is one that nobody deletes.
Changes(told, untold) ==
  /\ dropping' = (dropping \/ list \in told)
  /\ excused' = (excused \/ list \in untold)
  /\ loading' = IF loading = Miss THEN Miss
                ELSE [loading EXCEPT !.old = TRUE, !.excused = @ \/ list \in untold]
  /\ UNCHANGED cached

\* A request invalidates the list of its caller, who need not be the creator.
NotTold(u) == IF torrent # NoRow THEN {torrent.creator} \ {u} ELSE {}
ChangesBy(u) == Changes(Told(u), NotTold(u))
Tells(u) == dropping' = (dropping \/ list \in Told(u)) /\ UNCHANGED <<cached, loading, excused>>

ChangesSilently == Changes({}, Lists)

Load ==
  /\ cached = Miss /\ loading = Miss
  /\ list \in Users => Carries(list)
  /\ loading' = [shows |-> Query, old |-> FALSE, excused |-> FALSE]
  /\ UNCHANGED <<cached, dropping, excused>>

\* The goroutine stores what the request has read, whatever happened since.
Store ==
  /\ loading # Miss
  /\ cached' = loading.shows
  /\ excused' = loading.excused
  /\ loading' = Miss
  /\ UNCHANGED dropping

StoreFails == loading # Miss /\ loading' = Miss /\ UNCHANGED <<cached, dropping, excused>>

Drop ==
  /\ dropping
  /\ dropping' = FALSE
  /\ cached' = Miss /\ excused' = FALSE
  /\ loading' = IF loading = Miss THEN Miss
                ELSE [loading EXCEPT !.excused = @ \/ loading.old]

DropFails ==
  /\ dropping
  /\ dropping' = FALSE
  /\ excused' = TRUE
  /\ loading' = IF loading = Miss THEN Miss ELSE [loading EXCEPT !.excused = @ \/ loading.old]
  /\ UNCHANGED cached

Expire == cached # Miss /\ cached' = Miss /\ excused' = FALSE /\ UNCHANGED <<loading, dropping>>

-----------------------------------------------------------------------------
(* Requests about the torrent *)

accounts == <<account, tokens, intended, clobbered>>
Mine(u) == torrent # NoRow /\ torrent.creator = u
Shown(u) == Mine(u) /\ ~ torrent.deleted
Ours(k, op, step) == call[k] # Idle /\ call[k].op = op /\ call[k].step = step
Goes(k, step) == call' = [call EXCEPT ![k].step = step]
Planned(field, value) == plan' = IF plan = NoRow THEN NoRow ELSE [plan EXCEPT ![field] = value]

\* StartDownload: a new row with its files, or the old row, then its files.
BeginStart(k, u) ==
  /\ Carries(u)
  /\ Begin(k, Request("start", u, "torrent", "status", "downloading", torrent))
  /\ UNCHANGED <<accounts, faults, rowVars, listVars>>

StartCreates(k) ==
  /\ Ours(k, "start", "read") /\ call[k].base = NoRow
  /\ IF torrent # NoRow
     THEN Return(k) /\ UNCHANGED <<torrent, ids, files, plan, spoilt, listVars>>
     ELSE /\ ids < MaxIds
          /\ ids' = ids + 1
          /\ torrent' = [id |-> ids', creator |-> call[k].by, status |-> "downloading",
                         visibility |-> "private", deleted |-> FALSE, poster |-> 0,
                         imdb |-> FALSE]
          /\ plan' = torrent' /\ spoilt' = FALSE
          /\ files' = files \cup {ids'}
          /\ ChangesBy(call[k].by)
          /\ ReturnAfterWrite(k)
  /\ UNCHANGED <<accounts, calls, faults, posters, uploaded, stripped, leftover>>

StartUpdates(k) ==
  /\ Ours(k, "start", "read") /\ call[k].base # NoRow
  /\ IF torrent # NoRow /\ torrent.id = call[k].base.id
     THEN /\ torrent' = [torrent EXCEPT !.status = "downloading", !.deleted = FALSE]
          /\ plan' = IF plan = NoRow THEN NoRow
                     ELSE [plan EXCEPT !.status = "downloading", !.deleted = FALSE]
          /\ Changes({}, NotTold(call[k].by))
          /\ call' = [Overtaken("torrent") EXCEPT ![k].step = "files"]
     ELSE UNCHANGED <<torrent, plan, listVars>> /\ Goes(k, "files")
  /\ UNCHANGED <<accounts, calls, faults, ids, files, posters, uploaded, history>>

\* The row is gone, or goes without a look at the files that come now.
Crosses(id) ==
  \/ torrent = NoRow
  \/ torrent # NoRow /\ torrent.id # id
  \/ \E c \in Calls : call[c] # Idle /\ call[c].step = "rows"

StartFiles(k) ==
  /\ Ours(k, "start", "files")
  /\ LET id == call[k].base.id IN
       /\ files' = files \cup {id}
       /\ leftover' = IF Crosses(id) THEN leftover \cup {id} ELSE leftover
  /\ Tells(call[k].by)
  /\ Return(k)
  /\ UNCHANGED <<accounts, calls, faults, torrent, ids, posters, uploaded, plan, spoilt, stripped>>

\* Pause, resume, stop and resume seeding, by whoever is logged in.
SetStatus(u, status) ==
  /\ Carries(u) /\ Counted
  /\ torrent # NoRow
  /\ status = "completed" => ~ torrent.deleted
  /\ torrent' = [torrent EXCEPT !.status = status]
  /\ Planned("status", status)
  /\ ChangesBy(u)
  /\ call' = Overtaken("torrent")
  /\ UNCHANGED <<accounts, faults, ids, files, posters, uploaded, history>>

RemoveTorrent(u) ==
  /\ Carries(u) /\ Counted
  /\ torrent # NoRow
  /\ torrent' = [torrent EXCEPT !.deleted = TRUE]
  /\ Planned("deleted", TRUE)
  /\ ChangesBy(u)
  /\ call' = Overtaken("torrent")
  /\ UNCHANGED <<accounts, faults, ids, files, posters, uploaded, history>>

\* An event of a worker: a download is completed. No list is told.
Completed ==
  /\ Counted
  /\ torrent # NoRow
  /\ torrent' = [torrent EXCEPT !.status = "completed"]
  /\ Planned("status", "completed")
  /\ ChangesSilently
  /\ call' = Overtaken("torrent")
  /\ UNCHANGED <<accounts, faults, ids, files, posters, uploaded, history>>

\* SetTorrentPublic reads the row and saves it whole. No list is told.
BeginSetVisibility(k, u, v) ==
  /\ Carries(u) /\ Mine(u)
  /\ Begin(k, Request("visibility", u, "torrent", "visibility", v, torrent))
  /\ UNCHANGED <<accounts, faults, rowVars, listVars>>

\* A row that is gone comes back, over one that has taken its place if there is one.
SetVisibility(k) ==
  /\ Ours(k, "visibility", "read")
  /\ torrent' = IF torrent = NoRow THEN Saved(k) ELSE [Saved(k) EXCEPT !.id = torrent.id]
  /\ Planned("visibility", call[k].value)
  /\ spoilt' = (spoilt \/ call[k].stale)
  /\ ChangesSilently
  /\ ReturnAfterWrite(k)
  /\ UNCHANGED <<accounts, calls, faults, ids, files, posters, uploaded, stripped, leftover>>

\* UploadPoster stores the object, and deletes it when the row cannot be updated.
BeginPoster(k, u) ==
  /\ Carries(u) /\ Shown(u)
  /\ uploaded < MaxPosters
  /\ uploaded' = uploaded + 1
  /\ posters' = posters \cup {uploaded'}
  /\ Begin(k, Request("poster", u, "torrent", "poster", uploaded', torrent))
  /\ UNCHANGED <<accounts, faults, torrent, ids, files, plan, history, listVars>>

UpdatePoster(k) ==
  /\ Ours(k, "poster", "read")
  /\ Shown(call[k].by)
  /\ torrent' = [torrent EXCEPT !.poster = call[k].value]
  /\ Planned("poster", call[k].value)
  /\ ChangesBy(call[k].by)
  /\ ReturnAfterWrite(k)
  /\ UNCHANGED <<accounts, calls, faults, ids, files, posters, uploaded, history>>

RemovePoster(k) ==
  /\ Ours(k, "poster", "read")
  /\ ~ Shown(call[k].by)
  /\ posters' = posters \ {call[k].value}
  /\ Return(k)
  /\ UNCHANGED <<accounts, calls, faults, torrent, ids, files, uploaded, plan, history, listVars>>

\* SetPosterFromFile, whose last write is by id alone.
SetPoster(u) ==
  /\ Carries(u) /\ Shown(u) /\ Counted
  /\ torrent' = [torrent EXCEPT !.poster = 0]
  /\ Planned("poster", 0)
  /\ ChangesBy(u)
  /\ call' = Overtaken("torrent")
  /\ UNCHANGED <<accounts, faults, ids, files, posters, uploaded, history>>

BindIMDB(u) ==
  /\ Carries(u) /\ Shown(u) /\ Counted
  /\ torrent' = [torrent EXCEPT !.imdb = TRUE]
  /\ Planned("imdb", TRUE)
  /\ ChangesBy(u)
  /\ call' = Overtaken("torrent")
  /\ UNCHANGED <<accounts, faults, ids, files, posters, uploaded, history>>

=============================================================================

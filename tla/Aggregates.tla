------------------------------ MODULE Aggregates -----------------------------
(***************************************************************************)
(* The torrent aggregate of domain/torrent and the repository that loads   *)
(* and stores it. Nothing but their tests uses them yet: the services work *)
(* on the rows. Here some clients do: each loads the aggregate, calls its  *)
(* methods and saves it, or uses the repository's direct updates. Posters, *)
(* names, sizes and the visibility, which have setters, are left out.      *)
(***************************************************************************)
EXTENDS Integers, FiniteSets

CONSTANTS Clients,
          Files,
          OriginalFiles,  \* the files that came with the torrent
          Videos,         \* of these, the videos that are selected
          None,           \* a client that holds nothing
          MaxCalls        \* bound: methods called and statements executed, other than Save

ASSUME AggregatesAssumption ==
  /\ IsFiniteSet(Files) /\ Videos \subseteq OriginalFiles /\ OriginalFiles \subseteq Files
  /\ MaxCalls \in Nat

VARIABLES
  row,      \* the torrents row
  files,    \* its rows in torrent_files
  held,     \* what each client has in memory
  calls,
  current   \* history: the summaries of the row that are of the file rows as they are

vars == <<row, files, held, calls, current>>

Download == {"pending", "downloading", "completed", "failed", "paused"}
Stage == {"none", "pending", "active", "completed", "failed"}
Kinds == {"transcode", "cloud"}
File == [Kinds -> Stage]
FileRows == [Files -> File]

Summary == [status : Stage, done : 0 .. Cardinality(Files), total : 0 .. Cardinality(Files),
            progress : 0 .. 100]
Torrent == [status : Download, progress : {0, 50, 100}, imdb : BOOLEAN, local : BOOLEAN,
            deleted : BOOLEAN, summary : [Kinds -> Summary]]

NoSummary == [status |-> "none", done |-> 0, total |-> 0, progress |-> 0]
NewTorrent == [status |-> "pending", progress |-> 0, imdb |-> FALSE, local |-> FALSE,
               deleted |-> FALSE, summary |-> [k \in Kinds |-> NoSummary]]

\* An aggregate: the torrent, and its files or none of them; stale when the row has
\* changed since, forced when UpdateProgress has set the status, and which of its
\* summaries are of the file rows as they are.
Aggregate(loaded) ==
  [what |-> "aggregate", torrent |-> row, files |-> loaded, stale |-> FALSE, forced |-> FALSE,
   current |-> current]

Counted == calls < MaxCalls /\ calls' = calls + 1

-----------------------------------------------------------------------------
(* The methods of the aggregate *)

In(fs, k, s) == {f \in DOMAIN fs : fs[f][k] = s}
Only(fs, S) == [f \in DOMAIN fs \cap S |-> fs[f]]

\* Mutant of StatusOf: files that wait hide files that are at work.
StatusPendingFirst(fs, k) ==
  CASE In(fs, k, "pending") # {} -> "pending"
    [] In(fs, k, "pending") = {} /\ In(fs, k, "active") # {} -> "active"
    [] OTHER -> "completed"

StatusOf(fs, k) ==
  LET Some(s) == In(fs, k, s) # {}
  IN CASE Some("active") -> "active"
       [] ~ Some("active") /\ Some("pending") -> "pending"
       [] ~ Some("active") /\ ~ Some("pending") /\ Some("failed") /\ ~ Some("completed") -> "failed"
       [] OTHER -> "completed"

Summarised(fs, k) ==
  LET done == Cardinality(In(fs, k, "completed"))
      total == Cardinality(DOMAIN fs \ In(fs, k, "none"))
  IN IF total = 0 THEN NoSummary
     ELSE [status |-> StatusOf(fs, k), done |-> done, total |-> total,
           progress |-> (done * 100) \div total]

\* Transcodes are of the selected original videos, uploads of any file.
Recalculated(fs, k) ==
  IF k = "transcode" THEN Summarised(Only(fs, Videos), k) ELSE Summarised(fs, k)

Moves ==
  { <<"pending", "downloading">>, <<"failed", "downloading">>, <<"paused", "downloading">>,
    <<"downloading", "completed">>, <<"downloading", "failed">>, <<"downloading", "paused">> }

Has(c, what) == held[c] # None /\ held[c].what = what
Holds(c) == Has(c, "aggregate")

\* Mutant of Move: a torrent that is completed is downloaded again.
MoveFromAny(c, to) ==
  /\ Holds(c) /\ Counted
  /\ held' = [held EXCEPT ![c].torrent.status = to]
  /\ UNCHANGED <<row, files, current>>

\* StartDownload, Resume, MarkCompleted, MarkFailed, Pause.
Move(c, to) ==
  /\ Holds(c) /\ Counted
  /\ <<held[c].torrent.status, to>> \in Moves
  /\ LET progress == IF to = "completed" THEN 100 ELSE held[c].torrent.progress
     IN held' = [held EXCEPT ![c].torrent = [@ EXCEPT !.status = to, !.progress = progress]]
  /\ UNCHANGED <<row, files, current>>

UpdateProgress(c, progress, status) ==
  /\ Holds(c) /\ Counted
  /\ held' = [held EXCEPT ![c].torrent = [@ EXCEPT !.status = status, !.progress = progress],
                          ![c].forced = TRUE]
  /\ UNCHANGED <<row, files, current>>

SetImdbID(c) ==
  /\ Holds(c) /\ Counted
  /\ held' = [held EXCEPT ![c].torrent.imdb = TRUE]
  /\ UNCHANGED <<row, files, current>>

MarkLocalFilesDeleted(c) ==
  /\ Holds(c) /\ Counted
  /\ held[c].torrent.status # "downloading"
  /\ held[c].torrent.summary["cloud"].status # "active"
  /\ held' = [held EXCEPT ![c].torrent.local = TRUE]
  /\ UNCHANGED <<row, files, current>>

\* The methods that mark a file, none of which looks at its present mark.
MarkFile(c, f, k, stage) ==
  /\ Holds(c) /\ Counted
  /\ f \in DOMAIN held[c].files
  /\ held' = [held EXCEPT ![c].files[f][k] = stage]
  /\ UNCHANGED <<row, files, current>>

AsStored(fs, k) == DOMAIN fs = Files /\ \A f \in Files : fs[f][k] = files[f][k]

RecalculateSummary(c, k) ==
  /\ Holds(c) /\ Counted
  /\ held' = [held EXCEPT ![c].torrent.summary[k] = Recalculated(held[c].files, k),
                          ![c].current = IF AsStored(held[c].files, k) THEN @ \cup {k} ELSE @ \ {k}]
  /\ UNCHANGED <<row, files, current>>

-----------------------------------------------------------------------------
(* The repository *)

\* The row has changed: what others hold is stale.
RowChanged(others) ==
  [d \in Clients |-> IF d \in others /\ held[d] # None THEN [held[d] EXCEPT !.stale = TRUE]
                    ELSE held[d]]

\* Rows of files have changed in some columns.
FilesChanged(columns) ==
  /\ current' = current \ columns
  /\ held' = [d \in Clients |-> IF held[d] = None THEN None
                                ELSE [held[d] EXCEPT !.current = @ \ columns]]

\* Mutant of Find: a deleted torrent is found too.
FindDeleted(c, loaded) ==
  /\ held[c] = None
  /\ held' = [held EXCEPT ![c] = Aggregate(loaded)]
  /\ UNCHANGED <<row, files, calls, current>>

Find(c, loaded) ==
  /\ held[c] = None
  /\ ~ row.deleted
  /\ held' = [held EXCEPT ![c] = Aggregate(loaded)]
  /\ UNCHANGED <<row, files, calls, current>>

\* By id or info hash; without its files the aggregate has none.
FindByID(c) == Find(c, Only(files, {}))
FindByIDWithFiles(c) == Find(c, files)
FindActiveForRestore(c) == row.status \in {"downloading", "paused"} /\ Find(c, files)
FindCompletedPendingTranscode(c) ==
  /\ row.status = "completed"
  /\ row.summary["transcode"].status \in {"pending", "active"}
  /\ Find(c, files)

\* What the mapper makes of the aggregate: no IMDb id, and not deleted.
TorrentToModel(t) == [t EXCEPT !.imdb = FALSE, !.deleted = FALSE]

\* Every column of the torrent; of its files, only whose they are.
Save(c) ==
  /\ Holds(c)
  /\ row' = TorrentToModel(held[c].torrent)
  /\ current' = held[c].current
  /\ held' = [RowChanged(Clients \ {c}) EXCEPT ![c] = None]
  /\ UNCHANGED <<files, calls>>

\* A client is done with what it holds, or fails.
Forget(c) ==
  /\ held[c] # None
  /\ held' = [held EXCEPT ![c] = None]
  /\ UNCHANGED <<row, files, calls, current>>

Delete ==
  /\ Counted
  /\ row' = [row EXCEPT !.deleted = TRUE]
  /\ held' = RowChanged(Clients)
  /\ UNCHANGED <<files, current>>

SaveFile(c, f) ==
  /\ Holds(c) /\ Counted
  /\ f \in DOMAIN held[c].files
  /\ files' = [files EXCEPT ![f] = held[c].files[f]]
  /\ FilesChanged({k \in Kinds : files[f][k] # held[c].files[f][k]})
  /\ UNCHANGED row

UpdateFileFields(f, k, stage) ==
  /\ Counted
  /\ files[f][k] # stage
  /\ files' = [files EXCEPT ![f][k] = stage]
  /\ FilesChanged({k})
  /\ UNCHANGED row

\* UpdateTranscodeSummary, UpdateCloudSummary: the read and the calculation, then the write.
ReadForSummary(c, k) ==
  /\ held[c] = None /\ Counted
  /\ ~ row.deleted
  /\ held' = [held EXCEPT ![c] =
       [what |-> "summary", kind |-> k, value |-> Recalculated(files, k), stale |-> FALSE,
        current |-> {k}]]
  /\ UNCHANGED <<row, files, current>>

WriteSummary(c) ==
  /\ Has(c, "summary")
  /\ LET k == held[c].kind IN
       /\ row' = [row EXCEPT !.summary[k] = held[c].value]
       /\ current' = IF k \in held[c].current THEN current \cup {k} ELSE current \ {k}
  /\ held' = [RowChanged(Clients \ {c}) EXCEPT ![c] = None]
  /\ UNCHANGED <<files, calls>>

-----------------------------------------------------------------------------

Init ==
  /\ row = NewTorrent
  /\ files = [f \in Files |-> [k \in Kinds |-> "none"]]
  /\ held = [c \in Clients |-> None]
  /\ calls = 0
  /\ current = Kinds

ClientStep(c) ==
  \/ \E to \in Download : Move(c, to)
  \/ \E status \in Download : UpdateProgress(c, 50, status)
  \/ SetImdbID(c) \/ MarkLocalFilesDeleted(c)
  \/ \E f \in Files, k \in Kinds, stage \in Stage : MarkFile(c, f, k, stage)
  \/ \E k \in Kinds : RecalculateSummary(c, k) \/ ReadForSummary(c, k)
  \/ FindByID(c) \/ FindByIDWithFiles(c)
  \/ FindActiveForRestore(c) \/ FindCompletedPendingTranscode(c)
  \/ Save(c) \/ Forget(c) \/ WriteSummary(c)
  \/ \E f \in Files : SaveFile(c, f)

Next ==
  \/ \E c \in Clients : ClientStep(c)
  \/ Delete
  \/ \E f \in Files, k \in Kinds, stage \in Stage : UpdateFileFields(f, k, stage)

Spec == Init /\ [][Next]_vars

-----------------------------------------------------------------------------
(* What the services make of the same rows *)

\* recomputeCloudStatus of the event processor.
RecomputedCloud ==
  LET Some(s) == \E f \in Files : files[f]["cloud"] = s
      done == Cardinality({f \in Files : files[f]["cloud"] = "completed"})
      total == Cardinality({f \in Files : files[f]["cloud"] # "none"})
  IN [status |-> CASE Some("active") -> "active"
                   [] ~ Some("active") /\ Some("pending") -> "pending"
                   [] ~ Some("active") /\ ~ Some("pending") /\ Some("completed") -> "completed"
                   [] ~ Some("active") /\ ~ Some("pending") /\ ~ Some("completed")
                        /\ Some("failed") -> "failed"
                   [] OTHER -> "none",
      done |-> done, total |-> total,
      progress |-> IF total = 0 THEN 0 ELSE (done * 100) \div total]

\* recomputeTranscodeStatus: of all original files, with no other default than completed,
\* and as progress all or nothing.
RecomputedTranscode ==
  LET Some(s) == \E f \in OriginalFiles : files[f]["transcode"] = s
      status == CASE Some("active") -> "active"
                  [] ~ Some("active") /\ Some("pending") -> "pending"
                  [] ~ Some("active") /\ ~ Some("pending") /\ Some("failed")
                       /\ ~ Some("completed") -> "failed"
                  [] OTHER -> "completed"
  IN [status |-> status,
      done |-> Cardinality({f \in OriginalFiles : files[f]["transcode"] = "completed"}),
      progress |-> IF status = "completed" THEN 100 ELSE 0]

-----------------------------------------------------------------------------

HeldAggregate ==
  [what : {"aggregate"}, torrent : {t \in Torrent : ~ t.deleted},
   files : FileRows \cup [{} -> File], stale : BOOLEAN, forced : BOOLEAN,
   current : SUBSET Kinds]
HeldSummary ==
  [what : {"summary"}, kind : Kinds, value : Summary, stale : BOOLEAN, current : SUBSET Kinds]

\* The rows are of their types and percentages at most 100; what a client holds is an
\* aggregate of a torrent that is not deleted, with all of its files or none, or a summary.
TypeOK ==
  /\ row \in Torrent /\ files \in FileRows
  /\ DOMAIN held = Clients
  /\ \A c \in Clients : held[c] = None \/ held[c] \in HeldAggregate \cup HeldSummary
  /\ calls \in 0 .. MaxCalls
  /\ current \subseteq Kinds

Backwards ==
  \/ row.status = "completed" /\ row'.status # "completed"
  \/ row.status # "pending" /\ row'.status = "pending"
  \/ row.deleted /\ ~ row'.deleted

\* A completed torrent stays completed, a started one is not pending again and a deleted
\* one does not come back, unless a client has used UpdateProgress, which sets any
\* status, or saves what it loaded before the row was changed: Save writes every column.
LivesForwards ==
  [][Backwards => \E c \in Clients :
       /\ Holds(c) /\ held'[c] = None
       /\ held[c].stale \/ held[c].forced]_vars

\* Files that were marked although nobody transcodes them: the services count them, the
\* aggregate does not.
OthersMarked == \E f \in OriginalFiles \ Videos : files[f]["transcode"] # "none"

\* Unless a file row has changed since the files were read, or a client recalculated a
\* summary from files it had changed in memory or not loaded at all: the cloud summary of
\* the row, whoever wrote it, is the one the services compute from the file rows. That of
\* the transcodes differs from theirs in three cases and in no other. The services count
\* every original file, the aggregate the selected videos; with nothing marked the services
\* say completed and 100, the aggregate none and 0; and when some but not all of the files
\* are completed the services' progress is 0 until nothing waits and 100 from then on, even
\* if a file has failed, the aggregate's a percentage.
SummariesAgree ==
  /\ "cloud" \in current => row.summary["cloud"] = RecomputedCloud
  /\ "transcode" \in current =>
       LET s == row.summary["transcode"] IN
       /\ s.done <= RecomputedTranscode.done
       /\ ~ OthersMarked => s.done = RecomputedTranscode.done
       /\ ~ OthersMarked /\ s.total # 0 => s.status = RecomputedTranscode.status
       /\ ~ OthersMarked /\ s.total # 0 /\ s.done \in {0, s.total} =>
            s.progress = RecomputedTranscode.progress

=============================================================================

---------------------------- MODULE DerivedRows -----------------------------
(***************************************************************************)
(* The indexes of the torrent_files rows of one torrent. Server replicas   *)
(* insert rows for derived files, concurrently: transcoded outputs at      *)
(* MAX(index)+1 in a transaction that is repeated when the unique index    *)
(* rejects the row, extracted subtitles at COUNT and once. An              *)
(* administrator's ResetTranscode deletes the derived rows it has read.    *)
(***************************************************************************)
EXTENDS Naturals, FiniteSets

CONSTANTS
  Originals,   \* the number of original files, at the indexes below it
  Completions, \* completed events, each adds the row of an output
  Subtitles,   \* subtitle events, each adds the row of a subtitle
  MaxAttempts  \* maxAttempts of createTranscodedFileWithRetry

Events == Completions \cup Subtitles

ASSUME OriginalsAssumption == Originals \in Nat
ASSUME EventsAssumption == IsFiniteSet(Events) /\ Completions \cap Subtitles = {}
ASSUME AttemptsAssumption == MaxAttempts \in Nat \ {0}

VARIABLES
  pc,       \* where the handler of each event is
  index,    \* the index it has chosen
  attempts, \* its rejected insertions
  present,  \* the events whose row is in the table
  doomed,   \* the rows a reset has read and will delete
  inserts,  \* history: the number of insertions so far
  since,    \* history: inserts when the handler chose first
  last,     \* history: inserts when it chose last
  overlap   \* history: a reset has overlapped with an insertion

derivedVars == <<pc, index, attempts, present, doomed, inserts, since, last, overlap>>

DerivedTypeOK ==
  /\ pc \in [Events -> {"choose", "insert", "done", "lost", "failed"}]
  /\ index \in [Events -> Nat]
  /\ attempts \in [Events -> 0 .. MaxAttempts]
  /\ present \subseteq Events
  /\ doomed \subseteq Events
  /\ inserts \in Nat
  /\ since \in [Events -> Nat]
  /\ last \in [Events -> Nat]
  /\ overlap \in BOOLEAN

DerivedInit ==
  /\ pc = [e \in Events |-> "choose"]
  /\ index = [e \in Events |-> 0]
  /\ attempts = [e \in Events |-> 0]
  /\ present = {}
  /\ doomed = {}
  /\ inserts = 0
  /\ since = [e \in Events |-> 0]
  /\ last = [e \in Events |-> 0]
  /\ overlap = FALSE

-----------------------------------------------------------------------------

Taken == (0 .. Originals - 1) \cup {index[e] : e \in present}

Choose(e, i) ==
  /\ pc[e] = "choose"
  /\ pc' = [pc EXCEPT ![e] = "insert"]
  /\ index' = [index EXCEPT ![e] = i]
  /\ last' = [last EXCEPT ![e] = inserts]
  /\ since' = IF attempts[e] = 0 THEN [since EXCEPT ![e] = inserts] ELSE since
  /\ UNCHANGED <<attempts, present, doomed, inserts, overlap>>

\* MAX(index) + 1, or 0 in an empty table. Each attempt is a new transaction, whose
\* snapshot begins with this read.
ChooseAfterMax(e) ==
  /\ e \in Completions
  /\ \/ Taken = {} /\ Choose(e, 0)
     \/ \E max \in Taken : (\A i \in Taken : i <= max) /\ Choose(e, max + 1)

\* Mutant of ChooseCount: only the derived rows are counted.
ChooseDerivedCount(e) == e \in Subtitles /\ Choose(e, Cardinality(present))

\* handleSubtitleExtracted counts the rows of the torrent.
ChooseCount(e) == e \in Subtitles /\ Choose(e, Originals + Cardinality(present))

\* The error of Count is ignored: the count is then 0.
CountFails(e) == e \in Subtitles /\ Choose(e, 0)

Insert(e) ==
  /\ pc[e] = "insert"
  /\ index[e] \notin Taken
  /\ pc' = [pc EXCEPT ![e] = "done"]
  /\ present' = present \cup {e}
  /\ inserts' = inserts + 1
  /\ UNCHANGED <<index, attempts, doomed, since, last, overlap>>

\* Mutant of Conflict: the next attempt does not read the maximum again.
ConflictWithoutRead(e) ==
  /\ pc[e] = "insert"
  /\ index[e] \in Taken
  /\ LET rejected == attempts[e] + 1
     IN /\ attempts' = [attempts EXCEPT ![e] = rejected]
        /\ pc' = [pc EXCEPT ![e] = IF e \in Completions /\ rejected < MaxAttempts
                                   THEN "insert" ELSE "lost"]
  /\ UNCHANGED <<index, present, doomed, inserts, since, last, overlap>>

\* Mutant of Conflict: one attempt too many.
ConflictOffByOne(e) ==
  /\ pc[e] = "insert"
  /\ index[e] \in Taken
  /\ attempts' = [attempts EXCEPT ![e] = @ + 1]
  /\ pc' = [pc EXCEPT ![e] = IF e \in Completions /\ attempts[e] < MaxAttempts
                             THEN "choose" ELSE "lost"]
  /\ UNCHANGED <<index, present, doomed, inserts, since, last, overlap>>

\* The unique index rejects the row: an output is tried again, up to maxAttempts
\* times, a subtitle is not. The event is acknowledged also when its row is lost.
Conflict(e) ==
  /\ pc[e] = "insert"
  /\ index[e] \in Taken
  /\ LET rejected == attempts[e] + 1
     IN /\ attempts' = [attempts EXCEPT ![e] = rejected]
        /\ pc' = [pc EXCEPT ![e] = IF e \in Completions /\ rejected < MaxAttempts
                                   THEN "choose" ELSE "lost"]
  /\ UNCHANGED <<index, present, doomed, inserts, since, last, overlap>>

\* Any other error of the transaction ends the handler.
Fails(e) ==
  /\ pc[e] \in {"choose", "insert"}
  /\ pc' = [pc EXCEPT ![e] = "failed"]
  /\ UNCHANGED <<index, attempts, present, doomed, inserts, since, last, overlap>>

\* ResetTranscode reads the derived rows, then deletes them by their ids.
ReadDerived ==
  /\ doomed = {} /\ present # {}
  /\ doomed' = present
  /\ UNCHANGED <<pc, index, attempts, present, inserts, since, last, overlap>>

DeleteDerived ==
  /\ doomed # {}
  /\ present' = present \ doomed
  /\ doomed' = {}
  /\ overlap' = (overlap \/ present # doomed \/ \E e \in Events : pc[e] = "insert")
  /\ UNCHANGED <<pc, index, attempts, inserts, since, last>>

DerivedNext ==
  \/ \E e \in Events : \/ ChooseAfterMax(e) \/ ChooseCount(e) \/ CountFails(e)
                       \/ Insert(e) \/ Conflict(e) \/ Fails(e)
  \/ ReadDerived \/ DeleteDerived

DerivedSpec == DerivedInit /\ [][DerivedNext]_derivedVars

-----------------------------------------------------------------------------
(* Safety *)

\* An output loses its row to the unique index only if maxAttempts other rows were
\* inserted while it was handled: the retries of createTranscodedFileWithRetry
\* choose afresh, and no conflict is with a row that an earlier one was with.
OutputLostToMany ==
  \A e \in Completions : pc[e] = "lost" => inserts - since[e] >= MaxAttempts

\* A subtitle whose COUNT succeeded (its index is then not 0) loses its row only if
\* another row was inserted between its COUNT and its insertion, or if a reset
\* overlapped with an insertion and left a gap in the indexes, after which COUNT is
\* no free index.
SubtitleLostToRival ==
  \A e \in Subtitles :
    pc[e] = "lost" /\ index[e] # 0 => overlap \/ inserts > last[e]

\* The inductive invariant behind the first: each rejection of an output is charged
\* to a row inserted after its choice, and its next choice is made after that.
Charge(e) ==
  /\ pc[e] = "insert" => /\ since[e] + attempts[e] <= last[e]
                         /\ index[e] \in Taken => last[e] < inserts
  /\ since[e] + attempts[e] <= inserts
  /\ pc[e] = "lost" => attempts[e] = MaxAttempts

Charged == \A e \in Completions : Charge(e)

Inserted == {e \in Events : pc[e] = "done"}

=============================================================================

------------------------------ MODULE RowsProofs ------------------------------
(***************************************************************************)
(* Theorems about the rows of a torrent, for any number of files, events,  *)
(* attempts and clients.                                                   *)
(* DerivedRows: the invariant charges every rejected insertion of an       *)
(* output to a row inserted after the handler's last choice; as long as no *)
(* reset overlaps with an insertion the indexes have no gap.               *)
(* Aggregates: the invariant relates what is in the row, and what clients  *)
(* hold in memory, to the file rows and to the life of the row.            *)
(***************************************************************************)
EXTENDS DerivedRows, Aggregates, FiniteSetTheorems, TLAPS

-----------------------------------------------------------------------------
(* DerivedRows: the retries of outputs *)

\* The rows in the table are those of events that are done, and the history counts.
Recorded == /\ present \subseteq Inserted
            /\ \A e \in Events : last[e] <= inserts
            /\ \A e \in Events :
                 pc[e] \in {"choose", "insert"} => attempts[e] < MaxAttempts

Charging == DerivedTypeOK /\ Recorded /\ Charged

\* Before the first event all is empty.
LEMMA InitCharging == DerivedInit => Charging
<1> SUFFICES ASSUME DerivedInit PROVE Charging
  OBVIOUS
<1> USE AttemptsAssumption DEF DerivedInit
<1>1. DerivedTypeOK
  <2>1. 0 \in 0 .. MaxAttempts
    OBVIOUS
  <2> QED BY <2>1 DEF DerivedTypeOK
<1>2. Recorded
  BY DEF Recorded, Inserted
<1>3. Charged
  BY DEF Charged, Charge, Events
<1> QED BY <1>1, <1>2, <1>3 DEF Charging

\* A choice of a free index changes nothing for the other events.
LEMMA ChooseCharging ==
  ASSUME Charging, NEW e \in Events, NEW i \in Nat, Choose(e, i),
         e \in Completions => i \notin Taken
  PROVE  Charging'
<1> USE AttemptsAssumption DEF Choose
<1>1. e \notin present
  BY DEF Charging, Recorded, Inserted
<1>2. DerivedTypeOK'
  BY DEF Charging, DerivedTypeOK
<1>3. Taken' = Taken
  BY <1>1 DEF Charging, DerivedTypeOK, Taken
<1>4. Recorded'
  BY DEF Charging, DerivedTypeOK, Recorded, Inserted
<1>5. ASSUME NEW c \in Completions PROVE Charge(c)'
  <2>1. c \in Events
    BY DEF Events
  <2>2. Charge(c)
    BY DEF Charging, Charged
  <2>3. CASE c = e
    BY <1>3, <2>1, <2>2, <2>3 DEF Charging, DerivedTypeOK, Charge
  <2>4. CASE c # e
    BY <1>3, <2>1, <2>2, <2>4 DEF Charging, DerivedTypeOK, Charge
  <2> QED BY <2>3, <2>4
<1>6. Charged'
  BY <1>5 DEF Charged
<1> QED BY <1>2, <1>4, <1>6 DEF Charging

\* Every step preserves the invariant.
LEMMA NextCharging == Charging /\ [DerivedNext]_derivedVars => Charging'
<1> SUFFICES ASSUME Charging, [DerivedNext]_derivedVars PROVE Charging'
  OBVIOUS
<1> USE OriginalsAssumption, AttemptsAssumption
<1>1. ASSUME NEW e \in Events, ChooseAfterMax(e) PROVE Charging'
  <2>1. Taken \subseteq Nat
    BY DEF Charging, DerivedTypeOK, Taken
  <2>2. CASE Taken = {} /\ Choose(e, 0)
    BY <2>2, ChooseCharging
  <2>3. ASSUME NEW max \in Taken, \A i \in Taken : i <= max, Choose(e, max + 1)
        PROVE  Charging'
    <3>1. max + 1 \in Nat /\ max + 1 \notin Taken
      BY <2>1, <2>3
    <3> QED BY <3>1, <2>3, ChooseCharging
  <2> QED BY <1>1, <2>2, <2>3 DEF ChooseAfterMax
<1>2. ASSUME NEW e \in Events, ChooseCount(e) \/ CountFails(e) PROVE Charging'
  <2>1. e \notin Completions
    BY <1>2, EventsAssumption DEF ChooseCount, CountFails
  <2>2. Cardinality(present) \in Nat
    BY EventsAssumption, FS_Subset, FS_CardinalityType DEF Charging, DerivedTypeOK
  <2> QED BY <1>2, <2>1, <2>2, ChooseCharging DEF ChooseCount, CountFails
<1>3. ASSUME NEW e \in Events, Insert(e) PROVE Charging'
  <2>1. DerivedTypeOK'
    BY <1>3 DEF Insert, Charging, DerivedTypeOK
  <2>2. Recorded'
    BY <1>3 DEF Insert, Charging, DerivedTypeOK, Recorded, Inserted
  <2>3. ASSUME NEW c \in Completions PROVE Charge(c)'
    <3>1. c \in Events
      BY DEF Events
    <3>2. Charge(c)
      BY DEF Charging, Charged
    <3>3. last[c] <= inserts
      BY <3>1 DEF Charging, Recorded
    <3> QED BY <1>3, <3>1, <3>2, <3>3 DEF Insert, Charging, DerivedTypeOK, Charge
  <2>4. Charged'
    BY <2>3 DEF Charged
  <2> QED BY <2>1, <2>2, <2>4 DEF Charging
<1>4. ASSUME NEW e \in Events, Conflict(e) PROVE Charging'
  <2> DEFINE rejected == attempts[e] + 1
  <2>1. /\ attempts' = [attempts EXCEPT ![e] = rejected]
        /\ UNCHANGED <<index, present, doomed, inserts, since, last, overlap>>
    BY <1>4 DEF Conflict
  <2>2. PICK next \in {"choose", "lost"} :
          /\ pc' = [pc EXCEPT ![e] = next]
          /\ next = "choose" => rejected < MaxAttempts
          /\ e \in Completions /\ next = "lost" => rejected >= MaxAttempts
    <3>1. attempts[e] \in Nat
      BY DEF Charging, DerivedTypeOK
    <3>2. CASE e \in Completions /\ rejected < MaxAttempts
      BY <1>4, <3>2 DEF Conflict
    <3>3. CASE ~ (e \in Completions /\ rejected < MaxAttempts)
      <4>1. pc' = [pc EXCEPT ![e] = "lost"]
        BY <1>4, <3>3 DEF Conflict
      <4>2. e \in Completions => rejected >= MaxAttempts
        BY <3>1, <3>3, AttemptsAssumption
      <4> QED BY <4>1, <4>2
    <3> QED BY <3>2, <3>3
  <2>3. rejected \in 1 .. MaxAttempts
    BY <1>4 DEF Conflict, Charging, DerivedTypeOK, Recorded
  <2>4. DerivedTypeOK'
    BY <2>1, <2>2, <2>3 DEF Charging, DerivedTypeOK
  <2>5. Recorded'
    <3>1. Inserted \subseteq Inserted'
      BY <1>4, <2>2 DEF Conflict, Charging, DerivedTypeOK, Inserted
    <3>2. ASSUME NEW d \in Events, pc'[d] \in {"choose", "insert"}
          PROVE  attempts'[d] < MaxAttempts
      BY <2>1, <2>2, <3>2 DEF Charging, DerivedTypeOK, Recorded
    <3> QED BY <2>1, <3>1, <3>2 DEF Charging, Recorded
  <2>6. ASSUME NEW c \in Completions PROVE Charge(c)'
    <3>1. c \in Events
      BY DEF Events
    <3>2. Charge(c)
      BY DEF Charging, Charged
    <3>3. Taken' = Taken
      BY <2>1 DEF Taken
    <3>4. CASE c = e
      <4>0. pc[c] = "insert" /\ index[c] \in Taken
        BY <1>4, <3>4 DEF Conflict
      <4>1. since[c] + attempts[c] <= last[c] /\ last[c] < inserts
        BY <3>1, <3>2, <4>0 DEF Charging, DerivedTypeOK, Charge
      <4>2. attempts'[c] = rejected /\ pc'[c] = next
        BY <2>1, <2>2, <3>1, <3>4 DEF Charging, DerivedTypeOK
      <4> QED BY <2>1, <2>2, <2>3, <3>1, <3>4, <4>1, <4>2 DEF Charging, DerivedTypeOK, Charge
    <3>5. CASE c # e
      <4>1. attempts'[c] = attempts[c] /\ pc'[c] = pc[c]
        BY <2>1, <2>2, <3>1, <3>5 DEF Charging, DerivedTypeOK
      <4> QED BY <2>1, <3>2, <3>3, <4>1 DEF Charge
    <3> QED BY <3>4, <3>5
  <2>7. Charged'
    BY <2>6 DEF Charged
  <2> QED BY <2>4, <2>5, <2>7 DEF Charging
<1>5. ASSUME NEW e \in Events, Fails(e) PROVE Charging'
  BY <1>5 DEF Fails, Charging, DerivedTypeOK, Recorded, Charged, Charge, Inserted, Taken, Events
<1>6. CASE ReadDerived
  BY <1>6 DEF ReadDerived, Charging, DerivedTypeOK, Recorded, Charged, Charge, Inserted, Taken
<1>7. CASE DeleteDerived
  <2>1. Taken' \subseteq Taken
    BY <1>7 DEF DeleteDerived, Taken
  <2> QED BY <1>7, <2>1 DEF DeleteDerived, Charging, DerivedTypeOK, Recorded, Charged, Charge, Inserted
<1>8. CASE UNCHANGED derivedVars
  BY <1>8 DEF derivedVars, Charging, DerivedTypeOK, Recorded, Charged, Charge, Inserted, Taken
<1> QED BY <1>1, <1>2, <1>3, <1>4, <1>5, <1>6, <1>7, <1>8 DEF DerivedNext

\* The inductive invariant.
THEOREM ChargedInductive == DerivedSpec => []Charging
BY InitCharging, NextCharging, PTL DEF DerivedSpec

\* The type invariant.
THEOREM DerivedTypes == DerivedSpec => []DerivedTypeOK
BY ChargedInductive, PTL DEF Charging

\* The loss of an output's row takes MaxAttempts insertions of other rows while its
\* completed event is handled, however many replicas insert and whatever resets delete.
THEOREM OutputsAreRetried == DerivedSpec => []OutputLostToMany
<1>1. Charging => OutputLostToMany
  <2> SUFFICES ASSUME Charging, NEW e \in Completions, pc[e] = "lost"
               PROVE  inserts - since[e] >= MaxAttempts
    BY DEF OutputLostToMany
  <2>1. inserts \in Nat /\ since[e] \in Nat
    BY DEF Charging, DerivedTypeOK, Events
  <2>2. since[e] + MaxAttempts <= inserts
    BY DEF Charging, Charged, Charge
  <2> QED BY <2>1, <2>2, AttemptsAssumption
<1> QED BY <1>1, ChargedInductive, PTL

-----------------------------------------------------------------------------
(* DerivedRows: subtitles *)

\* The number of rows of the torrent. As long as no reset overlaps with an insertion,
\* the indexes are those below it.
Rows == Originals + Cardinality(present)

WithoutGap == overlap \/ /\ \A i \in Nat : i \in Taken <=> i < Rows
                         /\ \A e \in Events : pc[e] = "insert" => index[e] <= Rows

\* What a subtitle's COUNT returned is still the number of rows, and the first free
\* index, until another row is inserted.
CountsHold ==
  \A e \in Subtitles :
    index[e] # 0 => \/ overlap \/ inserts > last[e]
                    \/ pc[e] # "lost" /\ (pc[e] = "insert" => index[e] = Rows)

NoGapInductive == WithoutGap /\ CountsHold

LEMMA RowsType ==
  ASSUME Charging
  PROVE  /\ Rows \in Nat /\ Originals \in Nat /\ IsFiniteSet(present)
         /\ Taken \subseteq Nat
         /\ \A e \in Events : index[e] \in Nat /\ last[e] \in Nat /\ last[e] <= inserts
         /\ inserts \in Nat /\ overlap \in BOOLEAN
<1>1. IsFiniteSet(present) /\ Cardinality(present) \in Nat
  BY EventsAssumption, FS_Subset, FS_CardinalityType DEF Charging, DerivedTypeOK
<1>2. Taken \subseteq Nat
  BY OriginalsAssumption DEF Charging, DerivedTypeOK, Taken
<1> QED BY <1>1, <1>2, OriginalsAssumption DEF Charging, DerivedTypeOK, Recorded, Rows

\* A choice that is at most the number of rows, and exactly that for a subtitle
\* whose index is not 0, leaves the indexes as they are.
LEMMA ChooseNoGap ==
  ASSUME Charging, NoGapInductive, NEW e \in Events, NEW i \in Nat, Choose(e, i),
         overlap \/ i <= Rows, e \in Subtitles => i = 0 \/ i = Rows
  PROVE  NoGapInductive'
<1>1. /\ pc' = [pc EXCEPT ![e] = "insert"] /\ index' = [index EXCEPT ![e] = i]
      /\ last' = [last EXCEPT ![e] = inserts]
      /\ UNCHANGED <<present, inserts, overlap>> /\ pc[e] = "choose"
  BY DEF Choose
<1>2. Rows' = Rows
  BY <1>1 DEF Rows
<1>3. Taken' = Taken
  <2>1. e \notin present
    BY <1>1 DEF Charging, Recorded, Inserted
  <2> QED BY <1>1, <2>1 DEF Charging, DerivedTypeOK, Taken
<1>4. WithoutGap'
  BY <1>1, <1>2, <1>3 DEF NoGapInductive, WithoutGap, Charging, DerivedTypeOK
<1>5. ASSUME NEW s \in Subtitles, index'[s] # 0
      PROVE  \/ overlap' \/ inserts' > last'[s]
             \/ pc'[s] # "lost" /\ (pc'[s] = "insert" => index'[s] = Rows')
  <2>1. s \in Events
    BY DEF Events
  <2>2. CASE s = e
    BY <1>1, <1>2, <1>5, <2>1, <2>2 DEF Charging, DerivedTypeOK
  <2>3. CASE s # e
    BY <1>1, <1>2, <1>5, <2>1, <2>3 DEF NoGapInductive, CountsHold, Charging, DerivedTypeOK
  <2> QED BY <2>2, <2>3
<1> QED BY <1>4, <1>5 DEF NoGapInductive, CountsHold

LEMMA NoGapNext == Charging /\ NoGapInductive /\ [DerivedNext]_derivedVars => NoGapInductive'
<1> SUFFICES ASSUME Charging, NoGapInductive, [DerivedNext]_derivedVars PROVE NoGapInductive'
  OBVIOUS
<1>t. /\ Rows \in Nat /\ Originals \in Nat /\ IsFiniteSet(present)
      /\ Taken \subseteq Nat
      /\ \A e \in Events : index[e] \in Nat /\ last[e] \in Nat /\ last[e] <= inserts
      /\ inserts \in Nat /\ overlap \in BOOLEAN
  BY RowsType
<1>1. ASSUME NEW e \in Events, ChooseAfterMax(e) PROVE NoGapInductive'
  <2>0. e \notin Subtitles
    BY <1>1, EventsAssumption DEF ChooseAfterMax
  <2>1. CASE Taken = {} /\ Choose(e, 0)
    BY <2>0, <2>1, <1>t, ChooseNoGap
  <2>2. ASSUME NEW max \in Taken, \A i \in Taken : i <= max, Choose(e, max + 1)
        PROVE  NoGapInductive'
    <3>1. max + 1 \in Nat
      BY <1>t
    <3>2. overlap \/ max + 1 <= Rows
      BY <1>t DEF NoGapInductive, WithoutGap
    <3> QED BY <2>0, <2>2, <3>1, <3>2, ChooseNoGap
  <2> QED BY <1>1, <2>1, <2>2 DEF ChooseAfterMax
<1>2. ASSUME NEW e \in Events, ChooseCount(e) PROVE NoGapInductive'
  <2>1. Choose(e, Rows)
    BY <1>2 DEF ChooseCount, Rows
  <2> QED BY <2>1, <1>t, ChooseNoGap
<1>3. ASSUME NEW e \in Events, CountFails(e) PROVE NoGapInductive'
  <2>1. Choose(e, 0)
    BY <1>3 DEF CountFails
  <2> QED BY <2>1, <1>t, ChooseNoGap
<1>4. ASSUME NEW e \in Events, Insert(e) PROVE NoGapInductive'
  <2>1. /\ pc[e] = "insert" /\ index[e] \notin Taken
        /\ pc' = [pc EXCEPT ![e] = "done"]
        /\ present' = present \cup {e} /\ inserts' = inserts + 1
        /\ UNCHANGED <<index, last, overlap>>
    BY <1>4 DEF Insert
  <2>2. Rows' = Rows + 1
    <3>1. e \notin present
      BY <2>1 DEF Charging, Recorded, Inserted
    <3>2. Cardinality(present \cup {e}) = Cardinality(present) + 1
      BY <3>1, <1>t, FS_AddElement
    <3>3. Cardinality(present) \in Nat
      BY <1>t, FS_CardinalityType
    <3> QED BY <2>1, <3>2, <3>3, <1>t DEF Rows
  <2>3. Taken' = Taken \cup {index[e]}
    BY <2>1 DEF Taken
  <2>4. WithoutGap'
    <3> SUFFICES ASSUME ~ overlap PROVE WithoutGap'
      BY <2>1 DEF WithoutGap
    <3>1. index[e] = Rows
      BY <2>1, <1>t DEF NoGapInductive, WithoutGap
    <3>2. \A i \in Nat : i \in Taken' <=> i < Rows'
      BY <2>2, <2>3, <3>1, <1>t DEF NoGapInductive, WithoutGap
    <3>3. ASSUME NEW d \in Events, pc'[d] = "insert" PROVE index'[d] <= Rows'
      <4>1. pc[d] = "insert"
        BY <2>1, <3>3 DEF Charging, DerivedTypeOK
      <4> QED BY <2>1, <2>2, <4>1, <1>t DEF NoGapInductive, WithoutGap
    <3> QED BY <3>2, <3>3 DEF WithoutGap
  <2>5. CountsHold'
    BY <2>1, <1>t DEF CountsHold, Events
  <2> QED BY <2>4, <2>5 DEF NoGapInductive
<1>5. ASSUME NEW e \in Events, Conflict(e) PROVE NoGapInductive'
  <2>1. /\ pc[e] = "insert" /\ index[e] \in Taken
        /\ UNCHANGED <<index, present, inserts, last, overlap>>
    BY <1>5 DEF Conflict
  <2>2. PICK next \in {"choose", "lost"} : pc' = [pc EXCEPT ![e] = next]
    BY <1>5 DEF Conflict
  <2>3. Rows' = Rows /\ Taken' = Taken
    BY <2>1 DEF Rows, Taken
  <2>4. WithoutGap'
    BY <2>1, <2>2, <2>3 DEF NoGapInductive, WithoutGap, Charging, DerivedTypeOK
  <2>5. ASSUME NEW s \in Subtitles, index[s] # 0, ~ overlap, ~ (inserts > last[s])
        PROVE  pc'[s] # "lost" /\ (pc'[s] = "insert" => index[s] = Rows)
    <3>1. s \in Events /\ pc[s] # "lost" /\ (pc[s] = "insert" => index[s] = Rows)
      BY <2>5 DEF NoGapInductive, CountsHold, Events
    <3>2. s # e
      BY <2>1, <2>5, <3>1, <1>t DEF NoGapInductive, WithoutGap
    <3> QED BY <2>2, <3>1, <3>2 DEF Charging, DerivedTypeOK
  <2>6. CountsHold'
    BY <2>1, <2>3, <2>5 DEF CountsHold
  <2> QED BY <2>4, <2>6 DEF NoGapInductive
<1>6. ASSUME NEW e \in Events, Fails(e) PROVE NoGapInductive'
  <2>1. Rows' = Rows /\ Taken' = Taken
    BY <1>6 DEF Fails, Rows, Taken
  <2> QED BY <1>6, <2>1
          DEF Fails, NoGapInductive, WithoutGap, CountsHold, Charging, DerivedTypeOK, Events
<1>7. CASE ReadDerived \/ UNCHANGED derivedVars
  <2>1. Rows' = Rows /\ Taken' = Taken
    BY <1>7 DEF ReadDerived, derivedVars, Rows, Taken
  <2> QED BY <1>7, <2>1 DEF ReadDerived, derivedVars, NoGapInductive, WithoutGap, CountsHold
<1>8. CASE DeleteDerived
  <2>1. CASE overlap'
    BY <2>1 DEF NoGapInductive, WithoutGap, CountsHold
  <2>2. CASE ~ overlap'
    <3>1. /\ ~ overlap /\ present' = {} /\ \A e \in Events : pc[e] # "insert"
          /\ UNCHANGED <<pc, index, inserts, last>>
      BY <1>8, <2>2 DEF DeleteDerived
    <3>2. Rows' = Originals /\ \A i \in Nat : i \in Taken' <=> i < Rows'
      BY <3>1, <1>t, FS_EmptySet DEF Rows, Taken
    <3>3. WithoutGap'
      BY <3>1, <3>2 DEF WithoutGap
    <3>4. CountsHold'
      BY <3>1, <1>8 DEF NoGapInductive, CountsHold, Events
    <3> QED BY <3>3, <3>4 DEF NoGapInductive
  <2> QED BY <2>1, <2>2
<1> QED BY <1>1, <1>2, <1>3, <1>4, <1>5, <1>6, <1>7, <1>8 DEF DerivedNext

\* A subtitle's row is lost to the unique index only to a row inserted after its COUNT,
\* or after a reset that overlapped with an insertion, for any number of events.
THEOREM SubtitlesLoseToRivals == DerivedSpec => []SubtitleLostToRival
<1>1. DerivedInit => NoGapInductive
  <2> SUFFICES ASSUME DerivedInit PROVE NoGapInductive
    OBVIOUS
  <2>1. Rows = Originals /\ Originals \in Nat
    BY FS_EmptySet, OriginalsAssumption DEF DerivedInit, Rows
  <2>2. \A i \in Nat : i \in Taken <=> i < Rows
    BY <2>1 DEF DerivedInit, Taken
  <2> QED BY <2>2 DEF DerivedInit, NoGapInductive, WithoutGap, CountsHold, Events
<1>2. NoGapInductive => SubtitleLostToRival
  BY DEF NoGapInductive, CountsHold, SubtitleLostToRival
<1> QED BY <1>1, <1>2, NoGapNext, ChargedInductive, PTL DEF DerivedSpec

-----------------------------------------------------------------------------
(* Aggregates: what is held and what is stored *)

LoadedFiles == FileRows \cup [{} -> File]

\* The torrent is not behind the row: its life went on from there, if at all.
Follows(t, r) ==
  /\ ~ r.deleted
  /\ r.status = "completed" => t.status = "completed"
  /\ t.status = "pending" => r.status = "pending"

\* What a client holds is true of the row and of the file rows, as far as it is current.
Right(h, r, fs) ==
  /\ h.what = "aggregate" =>
       /\ \A k \in h.current : h.torrent.summary[k] = Recalculated(fs, k)
       /\ h.stale \/ h.forced \/ Follows(h.torrent, r)
  /\ h.what = "summary" => (h.kind \in h.current => h.value = Recalculated(fs, h.kind))

Consistent ==
  /\ TypeOK
  /\ \A k \in current : row.summary[k] = Recalculated(files, k)
  /\ \A c \in Clients : held[c] # None => Right(held[c], row, files)

-----------------------------------------------------------------------------
(* Summaries *)

\* A percentage of a part is at most 100.
LEMMA Percentage ==
  ASSUME NEW done \in Nat, NEW total \in Nat, total # 0, done <= total
  PROVE  (done * 100) \div total \in 0 .. 100
<1> DEFINE q == (done * 100) \div total
<1>1. q \in Int /\ total * q <= done * 100 /\ done * 100 < total * (q + 1)
  OBVIOUS
<1>2. q \in Int /\ q >= 0
  OBVIOUS
<1>3. ASSUME q > 100 PROVE FALSE
  <2>1. total * q >= total * 101
    BY <1>1, <1>3
  <2> QED BY <1>1, <2>1
<1> QED BY <1>1, <1>2, <1>3

\* A summary of loaded files is one the row can store: at most as many done as there are
\* in total, of all files, and a percentage.
LEMMA SummarisedTyped ==
  ASSUME NEW fs \in LoadedFiles \cup [Files \cap Videos -> File], NEW k \in Kinds
  PROVE  Summarised(fs, k) \in Summary
<1> DEFINE done == Cardinality(In(fs, k, "completed"))
           total == Cardinality(DOMAIN fs \ In(fs, k, "none"))
<1>1. DOMAIN fs \subseteq Files /\ IsFiniteSet(DOMAIN fs)
  BY AggregatesAssumption, FS_EmptySet, FS_Subset DEF LoadedFiles, FileRows
<1>2. /\ In(fs, k, "completed") \subseteq DOMAIN fs \ In(fs, k, "none")
      /\ DOMAIN fs \ In(fs, k, "none") \subseteq Files
  BY <1>1 DEF In
<1>3. /\ done \in Nat /\ total \in Nat /\ done <= total
      /\ Cardinality(Files) \in Nat /\ total <= Cardinality(Files)
  <2>1. IsFiniteSet(DOMAIN fs \ In(fs, k, "none"))
    BY <1>2, AggregatesAssumption, FS_Subset
  <2>2. IsFiniteSet(In(fs, k, "completed"))
    BY <1>2, <2>1, FS_Subset
  <2> QED BY <1>2, <2>1, <2>2, AggregatesAssumption, FS_Subset, FS_CardinalityType
<1>4. StatusOf(fs, k) \in Stage
  BY DEF StatusOf, Stage
<1> HIDE DEF done, total
<1>5. CASE total = 0
  BY <1>3, <1>5 DEF Summarised, NoSummary, Summary, Stage, done, total
<1>6. CASE total # 0
  <2>1. (done * 100) \div total \in 0 .. 100
    BY <1>3, <1>6, Percentage
  <2>2. Summarised(fs, k) = [status |-> StatusOf(fs, k), done |-> done, total |-> total,
                             progress |-> (done * 100) \div total]
    BY <1>6 DEF Summarised, done, total
  <2> QED BY <1>3, <1>4, <2>1, <2>2 DEF Summary
<1> QED BY <1>5, <1>6

\* So is the one of RecalculateTranscodeSummary and of RecalculateCloudSummary.
LEMMA RecalculatedTyped ==
  ASSUME NEW fs \in LoadedFiles, NEW k \in Kinds
  PROVE  Recalculated(fs, k) \in Summary
<1>1. Only(fs, Videos) \in LoadedFiles \cup [Files \cap Videos -> File]
  BY DEF Only, LoadedFiles, FileRows
<1> QED BY <1>1, SummarisedTyped DEF Recalculated

\* A summary is of one column, and depends on no other.
LEMMA OneColumn ==
  ASSUME NEW fs, NEW gs, NEW k, DOMAIN fs = DOMAIN gs, \A f \in DOMAIN fs : fs[f][k] = gs[f][k]
  PROVE  Recalculated(fs, k) = Recalculated(gs, k)
<1>1. ASSUME NEW S, NEW T, DOMAIN S = DOMAIN T, \A f \in DOMAIN S : S[f][k] = T[f][k]
      PROVE  Summarised(S, k) = Summarised(T, k)
  <2>1. \A s : In(S, k, s) = In(T, k, s)
    BY <1>1 DEF In
  <2>2. StatusOf(S, k) = StatusOf(T, k)
    BY <2>1 DEF StatusOf
  <2>3. /\ In(S, k, "completed") = In(T, k, "completed")
        /\ DOMAIN S \ In(S, k, "none") = DOMAIN T \ In(T, k, "none")
    BY <1>1, <2>1
  <2> QED BY <2>2, <2>3 DEF Summarised
<1>2. /\ DOMAIN Only(fs, Videos) = DOMAIN Only(gs, Videos)
      /\ \A f \in DOMAIN Only(fs, Videos) : Only(fs, Videos)[f][k] = Only(gs, Videos)[f][k]
  BY DEF Only
<1> QED BY <1>1, <1>2 DEF Recalculated

\* Whoever computes them: the aggregate's cloud summary is the services', and so is that of
\* the transcodes where SummariesAgree says so.
LEMMA SummariesAreServices ==
  ASSUME files \in FileRows
  PROVE  /\ Recalculated(files, "cloud") = RecomputedCloud
         /\ LET s == Recalculated(files, "transcode") IN
              /\ s.done <= RecomputedTranscode.done
              /\ ~ OthersMarked => s.done = RecomputedTranscode.done
              /\ ~ OthersMarked /\ s.total # 0 => s.status = RecomputedTranscode.status
              /\ ~ OthersMarked /\ s.total # 0 /\ s.done \in {0, s.total} =>
                   s.progress = RecomputedTranscode.progress
<1> DEFINE fs == Only(files, Videos)
<1>1. DOMAIN files = Files /\ Videos \subseteq Files
  BY AggregatesAssumption DEF FileRows
<1>2. ASSUME NEW s \in Stage
      PROVE  In(files, "cloud", s) = {f \in Files : files[f]["cloud"] = s}
  BY <1>1 DEF In
<1>3. DOMAIN files \ In(files, "cloud", "none") = {f \in Files : files[f]["cloud"] # "none"}
  BY <1>1 DEF In
<1>4. \A f \in Files : files[f]["cloud"] \in Stage /\ files[f]["transcode"] \in Stage
  BY DEF FileRows, File, Kinds
<1>5. Recalculated(files, "cloud") = RecomputedCloud
  <2> DEFINE done == Cardinality({f \in Files : files[f]["cloud"] = "completed"})
             total == Cardinality({f \in Files : files[f]["cloud"] # "none"})
  <2>1. Recalculated(files, "cloud") = Summarised(files, "cloud")
    BY DEF Recalculated
  <2>2. /\ In(files, "cloud", "completed") = {f \in Files : files[f]["cloud"] = "completed"}
    BY <1>2 DEF Stage
  <2>3. CASE total = 0
    <3>1. {f \in Files : files[f]["cloud"] # "none"} = {}
      <4>1. IsFiniteSet({f \in Files : files[f]["cloud"] # "none"})
        BY AggregatesAssumption, FS_Subset
      <4> QED BY <2>3, <4>1, FS_EmptySet
    <3>2. \A f \in Files : files[f]["cloud"] = "none"
      BY <3>1
    <3>3. done = 0
      <4>1. {f \in Files : files[f]["cloud"] = "completed"} = {}
        BY <3>2
      <4> QED BY <4>1, FS_EmptySet
    <3>4. RecomputedCloud = NoSummary
      BY <2>3, <3>2, <3>3 DEF RecomputedCloud, NoSummary
    <3>5. Summarised(files, "cloud") = NoSummary
      BY <1>3, <2>3 DEF Summarised
    <3> QED BY <2>1, <3>4, <3>5
  <2>4. CASE total # 0
    <3>1. PICK g \in Files : files[g]["cloud"] # "none"
      <4>1. {f \in Files : files[f]["cloud"] # "none"} # {}
        BY <2>4, FS_EmptySet
      <4> QED BY <4>1
    <3>2. \A s \in Stage : In(files, "cloud", s) # {} <=> \E f \in Files : files[f]["cloud"] = s
      BY <1>2
    <3>3. files[g]["cloud"] \in {"pending", "active", "completed", "failed"}
      BY <1>4, <3>1 DEF Stage
    <3>4. StatusOf(files, "cloud") = RecomputedCloud.status
      BY <3>2, <3>3 DEF StatusOf, RecomputedCloud, Stage
    <3>5. Summarised(files, "cloud") =
            [status |-> StatusOf(files, "cloud"), done |-> done, total |-> total,
             progress |-> (done * 100) \div total]
      BY <1>3, <2>2, <2>4 DEF Summarised
    <3>6. RecomputedCloud = [status |-> RecomputedCloud.status, done |-> done, total |-> total,
                             progress |-> (done * 100) \div total]
      BY <2>4 DEF RecomputedCloud
    <3> QED BY <2>1, <3>4, <3>5, <3>6
  <2> QED BY <2>3, <2>4
<1>6. DOMAIN fs = Videos /\ \A f \in Videos : fs[f] = files[f]
  BY <1>1 DEF Only
<1>7. Recalculated(files, "transcode") = Summarised(fs, "transcode")
  BY DEF Recalculated
<1>8. /\ \A v \in Videos : fs[v]["transcode"] \in Stage
      /\ Videos \subseteq OriginalFiles /\ OriginalFiles \subseteq Files
      /\ IsFiniteSet(OriginalFiles) /\ IsFiniteSet(Videos)
  BY <1>1, <1>4, <1>6, AggregatesAssumption, FS_Subset
<1> DEFINE marked == Videos \ In(fs, "transcode", "none")
           completed == In(fs, "transcode", "completed")
           counted == {f \in OriginalFiles : files[f]["transcode"] = "completed"}
           S == Summarised(fs, "transcode")
<1>9. /\ completed = {f \in Videos : files[f]["transcode"] = "completed"}
      /\ marked = {f \in Videos : files[f]["transcode"] # "none"}
      /\ completed \subseteq marked /\ completed \subseteq counted
      /\ IsFiniteSet(marked) /\ IsFiniteSet(counted) /\ IsFiniteSet(completed)
  <2>1. /\ completed = {f \in Videos : files[f]["transcode"] = "completed"}
        /\ marked = {f \in Videos : files[f]["transcode"] # "none"}
    BY <1>6 DEF In
  <2>2. completed \subseteq marked /\ marked \subseteq Videos
        /\ completed \subseteq counted /\ counted \subseteq OriginalFiles
    BY <1>8, <2>1
  <2> HIDE DEF marked, completed, counted
  <2> QED BY <1>8, <2>1, <2>2, FS_Subset
<1>10. /\ Cardinality(completed) <= Cardinality(counted)
       /\ Cardinality(completed) \in Nat /\ Cardinality(counted) \in Nat
       /\ Cardinality(marked) \in Nat
       /\ Cardinality(marked) = 0 => completed = {}
  <2> HIDE DEF marked, completed, counted
  <2> QED BY <1>9, FS_Subset, FS_CardinalityType, FS_EmptySet
<1>11. S.done = Cardinality(completed) /\ S.total = Cardinality(marked)
  BY <1>6, <1>10, FS_EmptySet DEF Summarised, NoSummary
<1>12. RecomputedTranscode.done = Cardinality(counted)
  BY DEF RecomputedTranscode
<1>13. ~ OthersMarked => completed = counted
  BY <1>8, <1>9 DEF OthersMarked
<1>14. ASSUME ~ OthersMarked, S.total # 0 PROVE S.status = RecomputedTranscode.status
  <2>1. ASSUME NEW s \in Stage \ {"none"}
        PROVE  In(fs, "transcode", s) # {} <=> \E f \in OriginalFiles : files[f]["transcode"] = s
    <3>1. In(fs, "transcode", s) = {f \in Videos : files[f]["transcode"] = s}
      BY <1>6 DEF In
    <3>2. \A f \in OriginalFiles \ Videos : files[f]["transcode"] = "none"
      BY <1>14 DEF OthersMarked
    <3> QED BY <1>8, <2>1, <3>1, <3>2
  <2> HIDE DEF fs
  <2>2. StatusOf(fs, "transcode") = RecomputedTranscode.status
    BY <2>1 DEF StatusOf, RecomputedTranscode, Stage
  <2> QED BY <1>14, <2>2 DEF Summarised, NoSummary
<1>15. ASSUME ~ OthersMarked, S.total # 0, S.done \in {0, S.total}
       PROVE  S.progress = RecomputedTranscode.progress
  <2>1. S.progress = (S.done * 100) \div S.total /\ S.status = StatusOf(fs, "transcode")
    BY <1>15 DEF Summarised, NoSummary
  <2>2. S.total \in Nat \ {0}
    BY <1>10, <1>11, <1>15
  <2>3. RecomputedTranscode.progress = IF S.status = "completed" THEN 100 ELSE 0
    BY <1>14, <1>15 DEF RecomputedTranscode
  <2>4. PICK v \in Videos : files[v]["transcode"] # "none"
    <3>1. marked # {}
      <4> HIDE DEF marked
      <4> QED BY <1>11, <2>2, FS_EmptySet
    <3> QED BY <1>9, <3>1
  <2>5. CASE S.done = 0
    <3>1. completed = {}
      <4> HIDE DEF completed
      <4> QED BY <1>9, <1>11, <2>5, FS_EmptySet
    <3>2. fs[v]["transcode"] \in {"pending", "active", "failed"}
      BY <1>6, <1>8, <1>9, <2>4, <3>1 DEF Stage
    <3>3. v \in In(fs, "transcode", fs[v]["transcode"])
      BY <1>6 DEF In
    <3>4. S.status # "completed"
      <4> HIDE DEF fs
      <4> QED BY <2>1, <3>1, <3>2, <3>3 DEF StatusOf
    <3>5. S.progress = 0
      BY <2>1, <2>2, <2>5
    <3> QED BY <2>3, <3>4, <3>5
  <2>6. CASE S.done = S.total
    <3>1. completed = marked
      <4> HIDE DEF completed, marked
      <4> QED BY <1>9, <1>11, <2>6, FS_Subset
    <3>2. \A s \in {"pending", "active", "failed"} : In(fs, "transcode", s) = {}
      BY <1>6, <1>9, <3>1 DEF In
    <3>3. S.status = "completed"
      <4> HIDE DEF fs
      <4> QED BY <2>1, <3>2 DEF StatusOf
    <3>4. S.progress = 100
      BY <2>1, <2>2, <2>6
    <3> QED BY <2>3, <3>3, <3>4
  <2> QED BY <1>15, <2>5, <2>6
<1> HIDE DEF S, completed, counted
<1>16. S.done <= RecomputedTranscode.done /\ (~ OthersMarked => S.done = RecomputedTranscode.done)
  BY <1>10, <1>11, <1>12, <1>13
<1> QED BY <1>5, <1>7, <1>14, <1>15, <1>16 DEF S

-----------------------------------------------------------------------------
(* The steps *)

Held == HeldAggregate \cup HeldSummary

\* What a client holds is the only thing that changes.
LEMMA PutConsistent ==
  ASSUME Consistent, NEW c \in Clients, NEW h, held' = [held EXCEPT ![c] = h],
         h = None \/ (h \in Held /\ Right(h, row, files)),
         UNCHANGED <<row, files, current>>, calls' \in 0 .. MaxCalls
  PROVE  Consistent'
<1> USE DEF Consistent
<1>1. TypeOK'
  BY DEF TypeOK, Held
<1>2. ASSUME NEW d \in Clients, held'[d] # None PROVE Right(held'[d], row, files)
  <2>1. held'[d] = IF d = c THEN h ELSE held[d]
    BY DEF TypeOK
  <2> QED BY <1>2, <2>1
<1>3. \A d \in Clients : held'[d] # None => Right(held'[d], row', files')
  BY <1>2
<1>4. (\A d \in Clients : held[d] # None => Right(held[d], row, files))'
  BY <1>3
<1>5. (\A k \in current : row.summary[k] = Recalculated(files, k))'
  OBVIOUS
<1> QED BY <1>1, <1>4, <1>5

\* The bound on the calls.
LEMMA CountedCalls == TypeOK /\ Counted => calls' \in 0 .. MaxCalls
BY AggregatesAssumption DEF TypeOK, Counted

\* A method changes the torrent in memory and keeps its summaries: what it makes of it
\* follows the rows the torrent followed before, or the status was forced.
LEMMA TorrentChanged ==
  ASSUME Consistent, NEW c \in Clients, Holds(c), Counted,
         NEW t \in Torrent, ~ t.deleted, t.summary = held[c].torrent.summary,
         NEW forced \in BOOLEAN, held[c].forced => forced,
         forced \/ \A r \in Torrent : Follows(held[c].torrent, r) => Follows(t, r),
         held' = [held EXCEPT ![c] = [held[c] EXCEPT !.torrent = t, !.forced = forced]],
         UNCHANGED <<row, files, current>>
  PROVE  Consistent'
<1> DEFINE h == [held[c] EXCEPT !.torrent = t, !.forced = forced]
<1>1. held[c] \in HeldAggregate /\ Right(held[c], row, files)
  BY DEF Consistent, TypeOK, Holds, Has, HeldSummary
<1>2. h \in HeldAggregate
  BY <1>1 DEF HeldAggregate
<1>3. Right(h, row, files)
  BY <1>1 DEF Right, HeldAggregate, Consistent, TypeOK
<1>4. calls' \in 0 .. MaxCalls
  BY CountedCalls DEF Consistent
<1> QED BY <1>2, <1>3, <1>4, PutConsistent DEF Held

\* The methods of the torrent: the life of the download, and the two marks.
LEMMA MethodsConsistent ==
  ASSUME Consistent, NEW c \in Clients,
         \/ \E to \in Download : Move(c, to)
         \/ \E status \in Download : UpdateProgress(c, 50, status)
         \/ SetImdbID(c) \/ MarkLocalFilesDeleted(c)
  PROVE  Consistent'
<1>0. held[c] \in HeldAggregate /\ DOMAIN held = Clients /\ Holds(c)
  BY DEF Consistent, TypeOK, Holds, Has, HeldSummary, Move, UpdateProgress, SetImdbID,
         MarkLocalFilesDeleted
<1> DEFINE t == held[c].torrent
<1>t. t \in Torrent /\ ~ t.deleted /\ held[c].forced \in BOOLEAN
  BY <1>0 DEF HeldAggregate
<1>1. ASSUME NEW to \in Download, Move(c, to) PROVE Consistent'
  <2>0. PICK p : p = IF to = "completed" THEN 100 ELSE t.progress
    OBVIOUS
  <2>1. PICK u : u = [t EXCEPT !.status = to, !.progress = p]
    OBVIOUS
  <2>2. held' = [held EXCEPT ![c] = [held[c] EXCEPT !.torrent = u, !.forced = held[c].forced]]
    <3>1. held' = [held EXCEPT ![c].torrent = [@ EXCEPT !.status = to, !.progress = p]]
      BY <1>1, <2>0 DEF Move
    <3>2. [held[c].torrent EXCEPT !.status = to, !.progress = p] = u
      BY <2>1
    <3>3. held' = [held EXCEPT ![c].torrent = u]
      BY <3>1, <3>2
    <3> QED BY <1>0, <3>3 DEF HeldAggregate
  <2>3. u \in Torrent /\ ~ u.deleted /\ u.summary = t.summary /\ u.status = to
    BY <1>t, <2>0, <2>1 DEF Torrent
  <2>4. \A r \in Torrent : Follows(t, r) => Follows(u, r)
    BY <1>1, <2>3 DEF Move, Moves, Follows
  <2> QED BY <1>0, <1>1, <1>t, <2>2, <2>3, <2>4, TorrentChanged DEF Move
<1>2. ASSUME NEW status \in Download, UpdateProgress(c, 50, status) PROVE Consistent'
  <2>1. PICK u : u = [t EXCEPT !.status = status, !.progress = 50]
    OBVIOUS
  <2>2. held' = [held EXCEPT ![c] = [held[c] EXCEPT !.torrent = u, !.forced = TRUE]]
    BY <1>0, <1>2, <2>1 DEF UpdateProgress, HeldAggregate, Torrent
  <2>3. u \in Torrent /\ ~ u.deleted /\ u.summary = t.summary
    BY <1>t, <2>1 DEF Torrent
  <2> QED BY <1>0, <1>2, <2>2, <2>3, TorrentChanged DEF UpdateProgress
<1>3. CASE SetImdbID(c)
  <2>1. PICK u : u = [t EXCEPT !.imdb = TRUE]
    OBVIOUS
  <2>2. held' = [held EXCEPT ![c] = [held[c] EXCEPT !.torrent = u, !.forced = held[c].forced]]
    BY <1>0, <1>3, <2>1 DEF SetImdbID, HeldAggregate, Torrent
  <2>3. u \in Torrent /\ ~ u.deleted /\ u.summary = t.summary /\ u.status = t.status
    BY <1>t, <2>1 DEF Torrent
  <2>4. \A r \in Torrent : Follows(t, r) => Follows(u, r)
    BY <2>3 DEF Follows
  <2> QED BY <1>0, <1>3, <1>t, <2>2, <2>3, <2>4, TorrentChanged DEF SetImdbID
<1>4. CASE MarkLocalFilesDeleted(c)
  <2>1. PICK u : u = [t EXCEPT !.local = TRUE]
    OBVIOUS
  <2>2. held' = [held EXCEPT ![c] = [held[c] EXCEPT !.torrent = u, !.forced = held[c].forced]]
    BY <1>0, <1>4, <2>1 DEF MarkLocalFilesDeleted, HeldAggregate, Torrent
  <2>3. u \in Torrent /\ ~ u.deleted /\ u.summary = t.summary /\ u.status = t.status
    BY <1>t, <2>1 DEF Torrent
  <2>4. \A r \in Torrent : Follows(t, r) => Follows(u, r)
    BY <2>3 DEF Follows
  <2> QED BY <1>0, <1>4, <1>t, <2>2, <2>3, <2>4, TorrentChanged DEF MarkLocalFilesDeleted
<1> QED BY <1>1, <1>2, <1>3, <1>4

\* A file is marked in memory: no summary is calculated from it before Recalculate.
LEMMA MarkFileConsistent ==
  ASSUME Consistent, NEW c \in Clients, NEW f \in Files, NEW k \in Kinds, NEW stage \in Stage,
         MarkFile(c, f, k, stage)
  PROVE  Consistent'
<1>0. held[c] \in HeldAggregate /\ Right(held[c], row, files) /\ DOMAIN held = Clients
  BY DEF Consistent, TypeOK, Holds, Has, HeldSummary, MarkFile
<1>1. PICK fs : fs = [held[c].files EXCEPT ![f][k] = stage]
  OBVIOUS
<1>2. PICK h : h = [held[c] EXCEPT !.files = fs]
  OBVIOUS
<1>3. held' = [held EXCEPT ![c] = h]
  BY <1>0, <1>1, <1>2 DEF MarkFile, HeldAggregate
<1>4. fs \in LoadedFiles
  BY <1>0, <1>1 DEF HeldAggregate, LoadedFiles, FileRows, File
<1>5. h \in HeldAggregate
  BY <1>0, <1>2, <1>4 DEF HeldAggregate, LoadedFiles
<1>7. Right(h, row, files)
  BY <1>0, <1>2 DEF Right, HeldAggregate
<1>8. calls' \in 0 .. MaxCalls /\ UNCHANGED <<row, files, current>>
  BY CountedCalls DEF Consistent, MarkFile
<1> QED BY <1>3, <1>5, <1>7, <1>8, PutConsistent DEF Held

\* A summary calculated in memory is of the file rows when the marks are the rows'.
LEMMA RecalculateConsistent ==
  ASSUME Consistent, NEW c \in Clients, NEW k \in Kinds, RecalculateSummary(c, k)
  PROVE  Consistent'
<1>0. held[c] \in HeldAggregate /\ Right(held[c], row, files) /\ DOMAIN held = Clients
  BY DEF Consistent, TypeOK, Holds, Has, HeldSummary, RecalculateSummary
<1>1. PICK s : s = Recalculated(held[c].files, k)
  OBVIOUS
<1>2. s \in Summary
  BY <1>0, <1>1, RecalculatedTyped DEF HeldAggregate, LoadedFiles
<1>3. PICK t : t = [held[c].torrent EXCEPT !.summary = [@ EXCEPT ![k] = s]]
  OBVIOUS
<1>4. PICK K : K = IF AsStored(held[c].files, k) THEN held[c].current \cup {k}
                   ELSE held[c].current \ {k}
  OBVIOUS
<1>5. PICK h : h = [held[c] EXCEPT !.torrent = t, !.current = K]
  OBVIOUS
<1>6. held' = [held EXCEPT ![c] = h]
  BY <1>0, <1>1, <1>3, <1>4, <1>5 DEF RecalculateSummary, HeldAggregate, Torrent
<1>7. /\ t \in Torrent /\ ~ t.deleted /\ t.status = held[c].torrent.status
      /\ t.summary = [held[c].torrent.summary EXCEPT ![k] = s]
      /\ held[c].torrent.summary \in [Kinds -> Summary]
  BY <1>0, <1>2, <1>3 DEF HeldAggregate, Torrent
<1>8. K \subseteq Kinds
  BY <1>0, <1>4 DEF HeldAggregate
<1>9. h \in HeldAggregate
  BY <1>0, <1>5, <1>7, <1>8 DEF HeldAggregate
<1>10. ASSUME NEW j \in K PROVE t.summary[j] = Recalculated(files, j)
  <2>1. CASE j = k
    <3>1. AsStored(held[c].files, k)
      BY <1>4, <2>1
    <3>2. Recalculated(held[c].files, k) = Recalculated(files, k)
      BY <3>1, OneColumn DEF AsStored, Consistent, TypeOK, FileRows
    <3> QED BY <1>1, <1>7, <2>1, <3>2
  <2>2. CASE j # k
    <3>1. j \in held[c].current
      BY <1>4, <2>2
    <3>2. held[c].torrent.summary[j] = Recalculated(files, j)
      BY <1>0, <3>1 DEF Right, HeldAggregate
    <3> QED BY <1>7, <1>8, <2>2, <3>2
  <2> QED BY <2>1, <2>2
<1>11. Right(h, row, files)
  <2>1. /\ h.files = held[c].files /\ h.current = K /\ h.torrent = t /\ h.what = "aggregate"
        /\ h.stale = held[c].stale /\ h.forced = held[c].forced
    BY <1>0, <1>5 DEF HeldAggregate
  <2>2. h.stale \/ h.forced \/ Follows(h.torrent, row)
    BY <1>0, <1>7, <2>1 DEF Right, HeldAggregate, Follows
  <2> QED BY <1>10, <2>1, <2>2 DEF Right
<1>12. calls' \in 0 .. MaxCalls /\ UNCHANGED <<row, files, current>>
  BY CountedCalls DEF Consistent, RecalculateSummary
<1> QED BY <1>6, <1>9, <1>11, <1>12, PutConsistent DEF Held

\* The row is written: what others hold is stale now, and only its summaries can be right.
LEMMA RowWritten ==
  ASSUME Consistent, row' \in Torrent, files' = files, current' \subseteq Kinds,
         \A k \in current' : row'.summary[k] = Recalculated(files, k),
         calls' \in 0 .. MaxCalls, DOMAIN held' = Clients,
         \A d \in Clients : \/ held'[d] = None
                            \/ held[d] # None /\ held'[d] = [held[d] EXCEPT !.stale = TRUE]
  PROVE  Consistent'
<1> USE DEF Consistent
<1>1. ASSUME NEW d \in Clients, held'[d] # None
      PROVE  held'[d] \in Held /\ Right(held'[d], row', files)
  <2>1. /\ held[d] \in Held /\ Right(held[d], row, files)
        /\ held'[d] = [held[d] EXCEPT !.stale = TRUE]
    BY <1>1 DEF TypeOK, Held
  <2>2. CASE held[d] \in HeldAggregate
    BY <2>1, <2>2 DEF HeldAggregate, Held, Right
  <2>3. CASE held[d] \in HeldSummary
    BY <2>1, <2>3 DEF HeldSummary, Held, Right
  <2> QED BY <2>1, <2>2, <2>3 DEF Held
<1>2. TypeOK'
  BY <1>1 DEF TypeOK, Held
<1>3. \A d \in Clients : held'[d] # None => Right(held'[d], row', files')
  BY <1>1
<1>4. (\A d \in Clients : held[d] # None => Right(held[d], row, files))'
  BY <1>3
<1>5. (\A k \in current : row.summary[k] = Recalculated(files, k))'
  OBVIOUS
<1> QED BY <1>2, <1>4, <1>5

\* File rows are written: summaries of the other columns stay right.
LEMMA FilesWritten ==
  ASSUME Consistent, NEW columns, FilesChanged(columns), files' \in FileRows,
         \A k \in Kinds \ columns, f \in Files : files'[f][k] = files[f][k],
         row' = row, calls' \in 0 .. MaxCalls
  PROVE  Consistent'
<1> USE DEF Consistent
<1>1. ASSUME NEW k \in Kinds, k \notin columns
      PROVE  Recalculated(files', k) = Recalculated(files, k)
  BY <1>1, OneColumn DEF TypeOK, FileRows
<1>2. ASSUME NEW d \in Clients, held'[d] # None
      PROVE  held'[d] \in Held /\ Right(held'[d], row, files')
  <2>1. /\ held[d] \in Held /\ Right(held[d], row, files)
        /\ held'[d] = [held[d] EXCEPT !.current = @ \ columns]
    BY <1>2 DEF TypeOK, Held, FilesChanged
  <2>2. CASE held[d] \in HeldAggregate
    <3>1. held'[d] \in HeldAggregate
      BY <2>1, <2>2 DEF HeldAggregate
    <3>2. \A k \in held'[d].current : k \in Kinds /\ k \notin columns /\ k \in held[d].current
      BY <2>1, <2>2 DEF HeldAggregate
    <3>3. \A k \in held'[d].current : held'[d].torrent.summary[k] = Recalculated(files', k)
      BY <1>1, <2>1, <2>2, <3>2 DEF HeldAggregate, Right
    <3>4. /\ held'[d].what = "aggregate"
          /\ held'[d].stale \/ held'[d].forced \/ Follows(held'[d].torrent, row)
      BY <2>1, <2>2 DEF HeldAggregate, Right
    <3> QED BY <3>1, <3>3, <3>4 DEF Held, Right
  <2>3. CASE held[d] \in HeldSummary
    <3>1. /\ held'[d] \in HeldSummary /\ held'[d].what = "summary"
          /\ held'[d].kind = held[d].kind /\ held'[d].value = held[d].value
      BY <2>1, <2>3 DEF HeldSummary
    <3>2. held'[d].kind \in held'[d].current =>
            held[d].kind \in Kinds /\ held[d].kind \notin columns /\ held[d].kind \in held[d].current
      BY <2>1, <2>3 DEF HeldSummary
    <3>3. held'[d].kind \in held'[d].current => held'[d].value = Recalculated(files', held'[d].kind)
      <4> SUFFICES ASSUME held'[d].kind \in held'[d].current
                   PROVE  held'[d].value = Recalculated(files', held'[d].kind)
        OBVIOUS
      <4>1. held[d].value = Recalculated(files, held[d].kind)
        BY <2>1, <2>3, <3>2 DEF HeldSummary, Right
      <4> QED BY <1>1, <3>1, <3>2, <4>1
    <3> QED BY <3>1, <3>3 DEF Held, Right
  <2> QED BY <2>1, <2>2, <2>3 DEF Held
<1>3. TypeOK'
  BY <1>2 DEF TypeOK, Held, FilesChanged
<1>4. \A d \in Clients : held'[d] # None => Right(held'[d], row', files')
  BY <1>2
<1>5. (\A d \in Clients : held[d] # None => Right(held[d], row, files))'
  BY <1>4
<1>6. ASSUME NEW k \in current' PROVE row'.summary[k] = Recalculated(files', k)
  <2>1. k \in current /\ k \in Kinds /\ k \notin columns
    BY DEF FilesChanged, TypeOK
  <2> QED BY <1>1, <2>1
<1>7. (\A k \in current : row.summary[k] = Recalculated(files, k))'
  BY <1>6
<1> QED BY <1>3, <1>5, <1>7

\* What a client reads is the row's, and the row's summaries are the files'.
LEMMA ReadsConsistent ==
  ASSUME Consistent, NEW c \in Clients,
         \/ FindByID(c) \/ FindByIDWithFiles(c) \/ FindActiveForRestore(c)
         \/ FindCompletedPendingTranscode(c) \/ Forget(c)
         \/ \E k \in Kinds : ReadForSummary(c, k)
  PROVE  Consistent'
<1> USE DEF Consistent
<1>1. ASSUME NEW loaded \in {files, Only(files, {})}, Find(c, loaded) PROVE Consistent'
  <2>1. PICK h : h = Aggregate(loaded)
    OBVIOUS
  <2>2. loaded \in LoadedFiles
    BY DEF LoadedFiles, Only, TypeOK
  <2>3. h \in HeldAggregate /\ Right(h, row, files)
    <3>1. ~ row.deleted /\ row \in Torrent /\ current \subseteq Kinds
      BY <1>1 DEF Find, TypeOK
    <3>2. h = [what |-> "aggregate", torrent |-> row, files |-> loaded, stale |-> FALSE,
               forced |-> FALSE, current |-> current]
      BY <2>1 DEF Aggregate
    <3>3. h \in HeldAggregate
      BY <2>2, <3>1, <3>2 DEF HeldAggregate, LoadedFiles
    <3>4. Follows(row, row)
      BY <3>1 DEF Follows
    <3> QED BY <2>2, <3>2, <3>3, <3>4 DEF Right
  <2> QED BY <1>1, <2>1, <2>3, PutConsistent DEF Find, Held, TypeOK
<1>2. CASE Forget(c)
  BY <1>2, PutConsistent DEF Forget, TypeOK
<1>3. ASSUME NEW k \in Kinds, ReadForSummary(c, k) PROVE Consistent'
  <2>1. PICK h : h = [what |-> "summary", kind |-> k, value |-> Recalculated(files, k),
                      stale |-> FALSE, current |-> {k}]
    OBVIOUS
  <2>2. Recalculated(files, k) \in Summary
    BY RecalculatedTyped DEF LoadedFiles, TypeOK
  <2>3. h \in HeldSummary /\ Right(h, row, files)
    BY <2>1, <2>2 DEF HeldSummary, Right
  <2> QED BY <1>3, <2>1, <2>3, PutConsistent, CountedCalls DEF ReadForSummary, Held
<1> QED BY <1>1, <1>2, <1>3 DEF FindByID, FindByIDWithFiles, FindActiveForRestore,
                                FindCompletedPendingTranscode

\* Save, Delete and the update of a summary write the row only.
LEMMA RowWritesConsistent ==
  ASSUME Consistent, Delete \/ \E c \in Clients : Save(c) \/ WriteSummary(c)
  PROVE  Consistent'
<1> USE DEF Consistent
<1>1. ASSUME NEW c \in Clients, Save(c) PROVE Consistent'
  <2>1. held[c] \in HeldAggregate /\ Right(held[c], row, files)
    BY <1>1 DEF TypeOK, Save, Holds, Has, HeldSummary
  <2>2. /\ row' = TorrentToModel(held[c].torrent) /\ row' \in Torrent
        /\ row'.summary = held[c].torrent.summary
    BY <1>1, <2>1 DEF Save, TorrentToModel, HeldAggregate, Torrent
  <2>3. \A k \in current' : row'.summary[k] = Recalculated(files, k)
    BY <1>1, <2>1, <2>2 DEF Save, HeldAggregate, Right
  <2>4. current' \subseteq Kinds
    BY <1>1, <2>1 DEF Save, HeldAggregate
  <2>5. DOMAIN held' = Clients /\ calls' \in 0 .. MaxCalls /\ files' = files
    BY <1>1 DEF Save, RowChanged, TypeOK
  <2>6. \A d \in Clients : \/ held'[d] = None
                           \/ held[d] # None /\ held'[d] = [held[d] EXCEPT !.stale = TRUE]
    BY <1>1 DEF Save, RowChanged
  <2> QED BY <2>2, <2>3, <2>4, <2>5, <2>6, RowWritten
<1>2. ASSUME NEW c \in Clients, WriteSummary(c) PROVE Consistent'
  <2>1. held[c] \in HeldSummary /\ Right(held[c], row, files)
    BY <1>2 DEF TypeOK, WriteSummary, Has, HeldAggregate
  <2>2. PICK k : k = held[c].kind
    OBVIOUS
  <2>3. PICK s : s = held[c].value
    OBVIOUS
  <2>4. k \in Kinds /\ s \in Summary /\ row \in Torrent
    BY <2>1, <2>2, <2>3 DEF HeldSummary, TypeOK
  <2>5. row' = [row EXCEPT !.summary = [@ EXCEPT ![k] = s]]
    BY <1>2, <2>2, <2>3, <2>4 DEF WriteSummary, Torrent
  <2>6. row' \in Torrent /\ row'.summary = [row.summary EXCEPT ![k] = s]
        /\ row.summary \in [Kinds -> Summary]
    BY <2>4, <2>5 DEF Torrent
  <2>7. current' = IF k \in held[c].current THEN current \cup {k} ELSE current \ {k}
    BY <1>2, <2>2 DEF WriteSummary
  <2>8. ASSUME NEW j \in current' PROVE row'.summary[j] = Recalculated(files, j)
    <3>1. CASE j = k
      BY <2>1, <2>2, <2>3, <2>4, <2>6, <2>7, <3>1 DEF HeldSummary, Right
    <3>2. CASE j # k
      BY <2>4, <2>6, <2>7, <3>2 DEF TypeOK
    <3> QED BY <3>1, <3>2
  <2>9. DOMAIN held' = Clients /\ calls' \in 0 .. MaxCalls /\ files' = files
        /\ current' \subseteq Kinds
    BY <1>2, <2>4, <2>7 DEF WriteSummary, RowChanged, TypeOK
  <2>10. \A d \in Clients : \/ held'[d] = None
                            \/ held[d] # None /\ held'[d] = [held[d] EXCEPT !.stale = TRUE]
    BY <1>2 DEF WriteSummary, RowChanged
  <2> QED BY <2>6, <2>8, <2>9, <2>10, RowWritten
<1>3. CASE Delete
  <2>1. row' \in Torrent /\ row'.summary = row.summary
    BY <1>3 DEF Delete, Torrent, TypeOK
  <2>2. DOMAIN held' = Clients /\ calls' \in 0 .. MaxCalls /\ files' = files
        /\ current' = current
    BY <1>3, CountedCalls DEF Delete, RowChanged
  <2>3. \A d \in Clients : \/ held'[d] = None
                           \/ held[d] # None /\ held'[d] = [held[d] EXCEPT !.stale = TRUE]
    BY <1>3 DEF Delete, RowChanged
  <2> QED BY <2>1, <2>2, <2>3, RowWritten DEF TypeOK
<1> QED BY <1>1, <1>2, <1>3

\* SaveFile and UpdateFileFields write file rows: the columns they change are accounted for.
LEMMA FileWritesConsistent ==
  ASSUME Consistent,
         \/ \E c \in Clients, f \in Files : SaveFile(c, f)
         \/ \E f \in Files, k \in Kinds, stage \in Stage : UpdateFileFields(f, k, stage)
  PROVE  Consistent'
<1> USE DEF Consistent
<1>1. ASSUME NEW c \in Clients, NEW f \in Files, SaveFile(c, f) PROVE Consistent'
  <2>1. held[c] \in HeldAggregate /\ Right(held[c], row, files) /\ f \in DOMAIN held[c].files
    BY <1>1 DEF TypeOK, SaveFile, Holds, Has, HeldSummary
  <2>2. PICK g : g = held[c].files[f]
    OBVIOUS
  <2>3. g \in File
    BY <2>1, <2>2 DEF HeldAggregate, FileRows
  <2>4. files' = [files EXCEPT ![f] = g] /\ files \in FileRows
    BY <1>1, <2>2 DEF SaveFile, TypeOK
  <2>5. PICK columns : columns = {k \in Kinds : files[f][k] # g[k]}
    OBVIOUS
  <2>6. FilesChanged(columns)
    BY <1>1, <2>2, <2>5 DEF SaveFile
  <2>7. files' \in FileRows
    BY <2>3, <2>4 DEF FileRows
  <2>8. \A k \in Kinds \ columns, e \in Files : files'[e][k] = files[e][k]
    BY <2>4, <2>5 DEF FileRows
  <2> QED BY <1>1, <2>6, <2>7, <2>8, FilesWritten, CountedCalls DEF SaveFile
<1>2. ASSUME NEW f \in Files, NEW k \in Kinds, NEW stage \in Stage, UpdateFileFields(f, k, stage)
      PROVE  Consistent'
  <2>1. PICK g : g = [files[f] EXCEPT ![k] = stage]
    OBVIOUS
  <2>2. files' = [files EXCEPT ![f] = g] /\ files \in FileRows
    BY <1>2, <2>1 DEF UpdateFileFields, TypeOK
  <2>3. /\ g \in File
        /\ \A j \in Kinds \ {k} : g[j] = files[f][j]
    <3>1. files[f] \in File
      BY <2>2 DEF FileRows
    <3> QED BY <2>1, <3>1 DEF File, Kinds
  <2>4. files' \in FileRows
    BY <2>2, <2>3 DEF FileRows
  <2>5. \A j \in Kinds \ {k}, e \in Files : files'[e][j] = files[e][j]
    BY <2>2, <2>3 DEF FileRows
  <2> QED BY <1>2, <2>4, <2>5, FilesWritten, CountedCalls DEF UpdateFileFields
<1> QED BY <1>1, <1>2

\* A new torrent has nothing to transcode or upload, and nobody holds it.
LEMMA InitConsistent == Init => Consistent
<1> SUFFICES ASSUME Init PROVE Consistent
  OBVIOUS
<1> USE DEF Init
<1>1. NoSummary \in Summary
  <2>1. Cardinality(Files) \in Nat
    BY AggregatesAssumption, FS_CardinalityType
  <2> QED BY <2>1 DEF NoSummary, Summary, Stage
<1>2. TypeOK
  BY <1>1, AggregatesAssumption DEF TypeOK, Torrent, NewTorrent, Download, FileRows, File, Stage
<1>3. ASSUME NEW k \in Kinds PROVE row.summary[k] = Recalculated(files, k)
  <2>1. ASSUME NEW fs, DOMAIN fs \subseteq Files, \A f \in DOMAIN fs : fs[f][k] = "none"
        PROVE  Summarised(fs, k) = NoSummary
    <3>1. DOMAIN fs \ In(fs, k, "none") = {}
      BY <2>1 DEF In
    <3> QED BY <3>1, FS_EmptySet DEF Summarised
  <2>2. /\ DOMAIN files \subseteq Files /\ \A f \in DOMAIN files : files[f][k] = "none"
        /\ DOMAIN Only(files, Videos) \subseteq Files
        /\ \A f \in DOMAIN Only(files, Videos) : Only(files, Videos)[f][k] = "none"
    BY DEF Only
  <2>3. Recalculated(files, k) = NoSummary
    BY <2>1, <2>2 DEF Recalculated
  <2> QED BY <2>3 DEF NewTorrent
<1> QED BY <1>2, <1>3 DEF Consistent

\* Every step of a client, and every direct update, preserves the invariant.
LEMMA NextConsistent == Consistent /\ [Next]_vars => Consistent'
<1> SUFFICES ASSUME Consistent, [Next]_vars PROVE Consistent'
  OBVIOUS
<1>1. ASSUME NEW c \in Clients, ClientStep(c) PROVE Consistent'
  BY <1>1, MethodsConsistent, MarkFileConsistent, RecalculateConsistent, ReadsConsistent,
     RowWritesConsistent, FileWritesConsistent DEF ClientStep
<1>2. CASE Delete
  BY <1>2, RowWritesConsistent
<1>3. ASSUME NEW f \in Files, NEW k \in Kinds, NEW stage \in Stage, UpdateFileFields(f, k, stage)
      PROVE  Consistent'
  BY <1>3, FileWritesConsistent
<1>4. CASE UNCHANGED vars
  <2>1. TypeOK'
    BY <1>4 DEF vars, Consistent, TypeOK
  <2> QED BY <1>4, <2>1 DEF vars, Consistent
<1> QED BY <1>1, <1>2, <1>3, <1>4 DEF Next

\* The inductive invariant: the summaries in the row, and those in the memory of any
\* client, are of the file rows as they are unless a file row has changed since; and an
\* aggregate that is neither stale nor forced follows the row.
THEOREM StaysConsistent == Spec => []Consistent
BY InitConsistent, NextConsistent, PTL DEF Spec

\* The types: rows, aggregates and summaries in memory are of their types, percentages at
\* most 100, for any number of files and clients.
THEOREM AggregateTypes == Spec => []TypeOK
BY StaysConsistent, PTL DEF Consistent

\* Whoever wrote it, the cloud summary of the row is that of recomputeCloudStatus, and the
\* transcode summary differs from recomputeTranscodeStatus only as SummariesAgree says: with
\* other original files marked, with nothing marked, and in the progress of a torrent of
\* which some files are completed; unless a file row has changed since its files were read,
\* or the summary was recalculated from changed or missing files.
THEOREM SameSummaries == Spec => []SummariesAgree
<1>1. Consistent => SummariesAgree
  <2> SUFFICES ASSUME Consistent PROVE SummariesAgree
    OBVIOUS
  <2> USE DEF Consistent
  <2>1. files \in FileRows
    BY DEF TypeOK
  <2> HIDE DEF Consistent
  <2>2. \A k \in current : row.summary[k] = Recalculated(files, k)
    BY DEF Consistent
  <2> QED BY <2>1, <2>2, SummariesAreServices DEF SummariesAgree
<1> QED BY <1>1, StaysConsistent, PTL

\* Of all that writes the row only Save can take the life of a torrent backwards, and only
\* that of an aggregate loaded before the row was last changed, or whose status was set by
\* UpdateProgress.
THEOREM NeverBackwards == Spec => LivesForwards
<1> DEFINE Excused == \E c \in Clients :
                        /\ Holds(c) /\ held'[c] = None
                        /\ held[c].stale \/ held[c].forced
<1>1. Consistent /\ [Next]_vars => [Backwards => Excused]_vars
  <2> SUFFICES ASSUME Consistent, Next, Backwards PROVE Excused
    BY DEF Backwards, vars
  <2>0. row' # row
    BY DEF Backwards
  <2>1. PICK c \in Clients : Save(c)
    <3>1. CASE Delete
      BY <3>1 DEF Delete, Backwards, Consistent, TypeOK, Torrent
    <3>2. ASSUME NEW c \in Clients, WriteSummary(c) PROVE FALSE
      <4>1. row'.status = row.status /\ row'.deleted = row.deleted
        BY <3>2 DEF WriteSummary, Consistent, TypeOK, Torrent
      <4> QED BY <4>1 DEF Backwards
    <3> QED BY <2>0, <3>1, <3>2 DEF Next, ClientStep, Move, UpdateProgress, SetImdbID,
               MarkLocalFilesDeleted, MarkFile, RecalculateSummary, ReadForSummary, FindByID,
               FindByIDWithFiles, FindActiveForRestore, FindCompletedPendingTranscode, Find,
               Forget, SaveFile, UpdateFileFields
  <2>2. Holds(c) /\ held'[c] = None
    BY <2>1 DEF Save, RowChanged
  <2>3. held[c] \in HeldAggregate /\ Right(held[c], row, files)
    BY <2>2 DEF Consistent, TypeOK, Holds, Has, HeldSummary
  <2>4. row'.status = held[c].torrent.status /\ ~ row'.deleted
    BY <2>1, <2>3 DEF Save, TorrentToModel, HeldAggregate, Torrent
  <2>5. held[c].stale \/ held[c].forced
    BY <2>3, <2>4 DEF Right, HeldAggregate, Follows, Backwards
  <2> QED BY <2>2, <2>5
<1> QED BY <1>1, StaysConsistent, PTL DEF Spec, LivesForwards

=============================================================================

---------------------------- MODULE LibraryProofs ---------------------------
(***************************************************************************)
(* Theorems about accounts, torrents and the cached lists, for any number  *)
(* of users, requests under way and rows.                                  *)
(***************************************************************************)
EXTENDS Library, TLAPS

(* Requests under way *)

\* What a request of each kind holds, and how far it can be.
Shape(c) ==
  \/ /\ c.op = "register" /\ c.on \in Users /\ c.base = NoRow /\ c.step = "read"
     /\ c.field = "nickname" /\ c.value \in Nicknames
  \/ /\ c.op = "save" /\ c.on \in Users /\ c.base \in Account /\ c.step = "read"
     /\ \/ c.field = "nickname" /\ c.value \in Nicknames
        \/ c.field = "password" /\ c.value \in Passwords
        \/ c.field = "role" /\ c.value \in Roles
     /\ c.on = Root => c.base.super
  \/ /\ c.op = "start" /\ c.on = "torrent" /\ c.base \in Torrent \cup {NoRow}
     /\ c.field = "status" /\ c.value = "downloading"
     /\ c.base = NoRow => c.step = "read"
     /\ c.step \in {"read", "files"}
  \/ /\ c.op = "visibility" /\ c.on = "torrent" /\ c.base \in Torrent /\ c.step = "read"
     /\ c.field = "visibility" /\ c.value \in Visibility
  \/ /\ c.op = "poster" /\ c.on = "torrent" /\ c.base \in Torrent /\ c.step = "read"
     /\ c.field = "poster" /\ c.value \in Poster
  \/ /\ c.op = "deleteTorrent" /\ c.on = "torrent" /\ c.base \in Torrent
     /\ c.field = "status" /\ c.value = NoRow
     /\ c.step \in {"read", "files", "rows"}
  \/ /\ c.op = "deleteUser" /\ c.on \in Users \ {Root} /\ c.base \in Torrent \cup {NoRow}
     /\ c.field = "status" /\ c.value = NoRow
     /\ c.step \in Steps

CallsTyped ==
  /\ call \in [Calls -> Call \cup {Idle}]
  /\ \A k \in Calls : call[k] # Idle =>
       Shape(call[k]) /\ (call[k].base \in Torrent => call[k].base.id <= ids)

AccountsTyped ==
  /\ account \in [Users -> Account \cup {NoRow}]
  /\ intended \in [Users -> Account \cup {NoRow}]
  /\ tokens \subseteq Users \X Roles /\ clobbered \subseteq Users
  /\ account[Root] # NoRow /\ account[Root].super /\ intended[Root] # NoRow

RowsTyped ==
  /\ torrent = NoRow \/ torrent \in Torrent
  /\ plan = NoRow \/ plan \in Torrent
  /\ ids \in 0 .. MaxIds /\ uploaded \in 0 .. MaxPosters
  /\ torrent # NoRow => torrent.id <= ids
  /\ files \subseteq 1 .. ids /\ stripped \subseteq 1 .. ids /\ leftover \subseteq 1 .. ids
  /\ posters \subseteq 1 .. uploaded
  /\ spoilt \in BOOLEAN

CachedRow == [shows : Torrent \cup {NoRow}, old : BOOLEAN, excused : BOOLEAN]

ListTyped ==
  /\ list \in Lists
  /\ cached \in {Miss, NoRow} \/ cached \in Torrent
  /\ loading = Miss \/ loading \in CachedRow
  /\ dropping \in BOOLEAN /\ excused \in BOOLEAN

Counts == calls \in 0 .. MaxCalls /\ faults \in 0 .. MaxFaults

Typed == AccountsTyped /\ CallsTyped /\ RowsTyped /\ ListTyped /\ Counts

\* Request d is c, later.
Held(c, d) ==
  /\ c \in Call /\ d \in Call
  /\ d.op = c.op /\ d.by = c.by /\ d.on = c.on
  /\ d.field = c.field /\ d.value = c.value /\ d.base = c.base
  /\ c.stale => d.stale

\* The request of k stays where it is, if there is one.
Stays(k) ==
  IF call[k] = Idle THEN call'[k] = Idle
  ELSE call'[k] # Idle /\ Held(call[k], call'[k]) /\ call'[k].step = call[k].step

OthersStay(k) == \A j \in Calls \ {k} : Stays(j)

\* Whoever had read the row knows, so to say, that it has changed.
Noticed(on) ==
  \A k \in Calls : call[k] # Idle /\ call'[k] # Idle /\ call[k].on = on => call'[k].stale

LEMMA CallOrIdle == ASSUME NEW c \in Call PROVE c # Idle
BY NoneAssumption

LEMMA StaleIsHeld ==
  ASSUME NEW c \in Call
  PROVE  LET d == [c EXCEPT !.stale = TRUE] IN Held(c, d) /\ d.stale /\ d.step = c.step /\ d # Idle
<1> DEFINE d == [c EXCEPT !.stale = TRUE]
<1>1. d \in Call
  BY DEF Call, CallOf
<1>2. /\ d.op = c.op /\ d.by = c.by /\ d.on = c.on /\ d.step = c.step
      /\ d.field = c.field /\ d.value = c.value /\ d.base = c.base /\ d.stale
  BY DEF Call, CallOf
<1> QED BY <1>1, <1>2, CallOrIdle DEF Held

LEMMA StepIsHeld ==
  ASSUME NEW c \in Call, NEW step \in Steps
  PROVE  LET d == [c EXCEPT !.step = step] IN
           Held(c, d) /\ d.stale = c.stale /\ d.step = step /\ d # Idle
<1> DEFINE d == [c EXCEPT !.step = step]
<1>1. d \in Call
  BY DEF Call, CallOf
<1>2. /\ d.op = c.op /\ d.by = c.by /\ d.on = c.on /\ d.step = step
      /\ d.field = c.field /\ d.value = c.value /\ d.base = c.base /\ d.stale = c.stale
  BY DEF Call, CallOf
<1> QED BY <1>1, <1>2, CallOrIdle DEF Held

LEMMA HeldItself == ASSUME NEW c \in Call PROVE Held(c, c)
BY DEF Held

LEMMA OvertakenCalls ==
  ASSUME CallsTyped, NEW on
  PROVE  /\ Overtaken(on) \in [Calls -> Call \cup {Idle}]
         /\ \A k \in Calls :
              IF call[k] = Idle THEN Overtaken(on)[k] = Idle
              ELSE /\ Overtaken(on)[k] # Idle /\ Held(call[k], Overtaken(on)[k])
                   /\ Overtaken(on)[k].step = call[k].step
                   /\ call[k].on = on => Overtaken(on)[k].stale
<1>1. ASSUME NEW k \in Calls, call[k] # Idle, call[k].on = on
      PROVE  /\ Overtaken(on)[k] \in Call /\ Overtaken(on)[k] # Idle
             /\ Held(call[k], Overtaken(on)[k])
             /\ Overtaken(on)[k].step = call[k].step /\ Overtaken(on)[k].stale
  <2>1. call[k] \in Call
    BY <1>1 DEF CallsTyped
  <2>2. Overtaken(on)[k] = [call[k] EXCEPT !.stale = TRUE]
    BY <1>1 DEF Overtaken
  <2> QED BY <2>1, <2>2, StaleIsHeld DEF Held
<1>2. ASSUME NEW k \in Calls, call[k] # Idle, call[k].on # on
      PROVE  /\ Overtaken(on)[k] = call[k] /\ call[k] \in Call
             /\ Held(call[k], Overtaken(on)[k])
  BY <1>2, HeldItself DEF CallsTyped, Overtaken
<1>3. ASSUME NEW k \in Calls, call[k] = Idle PROVE Overtaken(on)[k] = Idle
  BY <1>3 DEF Overtaken
<1>4. Overtaken(on) \in [Calls -> Call \cup {Idle}]
  <2>1. Overtaken(on) = [k \in Calls |-> Overtaken(on)[k]]
    BY DEF Overtaken
  <2>2. \A k \in Calls : Overtaken(on)[k] \in Call \cup {Idle}
    BY <1>1, <1>2, <1>3
  <2> QED BY <2>1, <2>2
<1> QED BY <1>1, <1>2, <1>3, <1>4

\* How the operators of the model move the requests.
LEMMA Ended ==
  ASSUME CallsTyped, NEW k \in Calls, Return(k)
  PROVE  call' \in [Calls -> Call \cup {Idle}] /\ OthersStay(k) /\ call'[k] = Idle
BY HeldItself DEF CallsTyped, Return, OthersStay, Stays

LEMMA EndedAfterWrite ==
  ASSUME CallsTyped, NEW k \in Calls, NEW on, call' = [Overtaken(on) EXCEPT ![k] = Idle]
  PROVE  /\ call' \in [Calls -> Call \cup {Idle}] /\ OthersStay(k) /\ call'[k] = Idle
         /\ Noticed(on)
<1>1. /\ call' \in [Calls -> Call \cup {Idle}] /\ call'[k] = Idle
      /\ \A j \in Calls \ {k} : call'[j] = Overtaken(on)[j]
  BY OvertakenCalls
<1> QED BY <1>1, OvertakenCalls DEF OthersStay, Stays, Noticed

LEMMA Opened ==
  ASSUME CallsTyped, NEW k \in Calls, NEW c \in Call, Begin(k, c)
  PROVE  /\ call' \in [Calls -> Call \cup {Idle}] /\ OthersStay(k)
         /\ call[k] = Idle /\ call'[k] = c /\ c # Idle
<1>1. call' = [call EXCEPT ![k] = c] /\ call[k] = Idle
  BY DEF Begin
<1> QED BY <1>1, HeldItself, CallOrIdle DEF CallsTyped, OthersStay, Stays

LEMMA Gone ==
  ASSUME CallsTyped, NEW k \in Calls, call[k] # Idle, NEW step \in Steps, Goes(k, step)
  PROVE  /\ call' \in [Calls -> Call \cup {Idle}] /\ OthersStay(k)
         /\ call'[k] # Idle /\ Held(call[k], call'[k]) /\ call'[k].step = step
<1>1. call[k] \in Call
  BY DEF CallsTyped
<1>2. /\ call' = [call EXCEPT ![k] = [call[k] EXCEPT !.step = step]]
      /\ [call[k] EXCEPT !.step = step] \in Call
  BY <1>1, StepIsHeld DEF Goes, Held
<1>3. /\ call' \in [Calls -> Call \cup {Idle}] /\ call'[k] = [call[k] EXCEPT !.step = step]
      /\ \A j \in Calls \ {k} : call'[j] = call[j]
  BY <1>2 DEF CallsTyped
<1>4. OthersStay(k)
  BY <1>3, HeldItself DEF CallsTyped, OthersStay, Stays
<1> QED BY <1>1, <1>3, <1>4, StepIsHeld

LEMMA GoneAfterWrite ==
  ASSUME CallsTyped, NEW k \in Calls, call[k] # Idle, NEW step \in Steps, NEW on,
         call' = [Overtaken(on) EXCEPT ![k].step = step]
  PROVE  /\ call' \in [Calls -> Call \cup {Idle}] /\ OthersStay(k) /\ Noticed(on)
         /\ call'[k] # Idle /\ Held(call[k], call'[k]) /\ call'[k].step = step
<1>1. PICK c \in Call : c = Overtaken(on)[k] /\ Held(call[k], c) /\ (call[k].on = on => c.stale)
  BY OvertakenCalls DEF Held
<1>2. PICK d \in Call : /\ d = [c EXCEPT !.step = step] /\ Held(c, d)
                        /\ d.stale = c.stale /\ d.step = step /\ d # Idle
  BY StepIsHeld DEF Held
<1>3. call' = [Overtaken(on) EXCEPT ![k] = d]
  BY <1>1, <1>2
<1>4. /\ call' \in [Calls -> Call \cup {Idle}] /\ call'[k] = d
      /\ \A j \in Calls \ {k} : call'[j] = Overtaken(on)[j]
  BY <1>3, OvertakenCalls
<1>5. Held(call[k], d)
  BY <1>1, <1>2 DEF Held
<1>6. OthersStay(k)
  BY <1>4, OvertakenCalls DEF OthersStay, Stays
<1>7. Noticed(on)
  BY <1>1, <1>2, <1>4, OvertakenCalls DEF Noticed
<1> QED BY <1>2, <1>4, <1>5, <1>6, <1>7

LEMMA AllStay ==
  ASSUME CallsTyped, NEW on, call' = Overtaken(on)
  PROVE  /\ call' \in [Calls -> Call \cup {Idle}]
         /\ \A k \in Calls : Stays(k)
         /\ Noticed(on)
BY OvertakenCalls DEF Stays, Noticed

LEMMA StayUnchanged ==
  ASSUME CallsTyped, UNCHANGED call
  PROVE  /\ call' \in [Calls -> Call \cup {Idle}]
         /\ \A k \in Calls : Stays(k)
BY HeldItself DEF CallsTyped, Stays

\* The types of the requests, after one of them has moved or none.
LEMMA ShapeStays ==
  ASSUME NEW c, NEW d, Held(c, d), d.step = c.step, Shape(c) PROVE Shape(d)
BY DEF Held, Shape

LEMMA CallsStayTyped ==
  ASSUME Typed, ids' \in Nat, ids' >= ids, call' \in [Calls -> Call \cup {Idle}],
         \A k \in Calls : call'[k] # Idle =>
           \/ Stays(k)
           \/ Shape(call'[k]) /\ (call'[k].base \in Torrent => call'[k].base.id <= ids')
  PROVE  CallsTyped'
<1>1. ASSUME NEW k \in Calls, call'[k] # Idle, Stays(k)
      PROVE  Shape(call'[k]) /\ (call'[k].base \in Torrent => call'[k].base.id <= ids')
  <2>1. /\ call[k] # Idle /\ Held(call[k], call'[k]) /\ call'[k].step = call[k].step
    BY <1>1 DEF Stays
  <2>2. Shape(call[k]) /\ (call[k].base \in Torrent => call[k].base.id <= ids)
    BY <2>1 DEF Typed, CallsTyped
  <2>3. call'[k].base = call[k].base
    BY <2>1 DEF Held
  <2>4. call'[k].base \in Torrent => call'[k].base.id \in Nat
    BY DEF Torrent
  <2> QED BY <2>1, <2>2, <2>3, <2>4, ShapeStays DEF Typed, RowsTyped
<1> QED BY <1>1 DEF CallsTyped

-----------------------------------------------------------------------------
(* Types *)

LEMMA TypedIsTypeOK == Typed => TypeOK
<1> SUFFICES ASSUME Typed PROVE TypeOK
  OBVIOUS
<1>1. ASSUME NEW k \in Calls, call[k] # Idle PROVE Calling(call[k])
  <2>1. /\ call[k] \in Call /\ Shape(call[k])
        /\ call[k].base \in Torrent => call[k].base.id <= ids
    BY <1>1 DEF Typed, CallsTyped
  <2>2. /\ call[k].op \in Operations /\ call[k].by \in Users
        /\ call[k].on \in Users \cup {"torrent"} /\ call[k].field \in Fields
        /\ call[k].step \in Steps /\ call[k].stale \in BOOLEAN
    BY <2>1 DEF Call, CallOf
  <2>3. call[k].value \in Values(call[k].field)
    BY <2>1, <2>2 DEF Shape, Values, Status
  <2>4. call[k].base \in IF call[k].op = "save" THEN Account ELSE Torrent \cup {NoRow}
    BY <2>1 DEF Shape
  <2> QED BY <2>1, <2>2, <2>3, <2>4 DEF Calling
<1>2. cached \in {Miss, NoRow} \/ cached \in Torrent
  BY DEF Typed, ListTyped
<1>3. {spoilt, dropping, excused} \subseteq BOOLEAN
  BY DEF Typed, ListTyped, RowsTyped
<1> QED BY <1>1, <1>2, <1>3
        DEF TypeOK, Typed, AccountsTyped, RowsTyped, ListTyped, Counts, CachedRow

LEMMA RequestTyped ==
  ASSUME NEW op \in Operations, NEW by \in Users, NEW on \in Users \cup {"torrent"},
         NEW field \in Fields, NEW base \in Account \cup Torrent \cup {NoRow},
         NEW value \in Words \cup Poster
  PROVE  LET c == Request(op, by, on, field, value, base) IN
           /\ c \in Call
           /\ c.op = op /\ c.by = by /\ c.on = on /\ c.field = field /\ c.value = value
           /\ c.base = base /\ c.step = "read" /\ ~ c.stale
BY DEF Request, Call, CallOf, Steps

\* The parts of the state that a step leaves alone keep their types.
LEMMA AccountsStay ==
  ASSUME AccountsTyped, UNCHANGED accounts PROVE AccountsTyped'
BY DEF AccountsTyped, accounts

LEMMA RowsStay == ASSUME RowsTyped, UNCHANGED rowVars PROVE RowsTyped'
BY DEF RowsTyped, rowVars

LEMMA ListStays == ASSUME ListTyped, UNCHANGED <<list, listVars>> PROVE ListTyped'
BY DEF ListTyped, listVars

LEMMA FaultCounts ==
  ASSUME Counts, Fault, UNCHANGED calls PROVE Counts'
BY AccountsAssumption DEF Counts, Fault

LEMMA CallCounts ==
  ASSUME Counts, Counted, UNCHANGED faults PROVE Counts'
BY AccountsAssumption DEF Counts, Counted

LEMMA CachedRowTyped ==
  ASSUME NEW r \in CachedRow, NEW b \in BOOLEAN
  PROVE  /\ [r EXCEPT !.old = TRUE, !.excused = @ \/ b] \in CachedRow
         /\ [r EXCEPT !.old = TRUE, !.excused = @ \/ b].shows = r.shows
         /\ [r EXCEPT !.old = TRUE, !.excused = @ \/ b].old
         /\ r.excused \/ b => [r EXCEPT !.old = TRUE, !.excused = @ \/ b].excused
<1>1. PICK x \in BOOLEAN : x <=> r.excused \/ b
  BY Zenon
<1>2. PICK s : s = [r EXCEPT !.old = TRUE, !.excused = x]
  OBVIOUS
<1>3. s \in CachedRow /\ s.shows = r.shows /\ s.old /\ s.excused = x
  BY <1>2 DEF CachedRow
<1>4. x = (r.excused \/ b)
  BY <1>1
<1>5. s = [r EXCEPT !.old = TRUE, !.excused = @ \/ b]
  BY <1>2, <1>4
<1> QED BY <1>1, <1>3, <1>5

\* What a change of the row does to the cached list, and to the one that is loaded.
LEMMA ChangesList ==
  ASSUME ListTyped, NEW told, NEW untold, Changes(told, untold), UNCHANGED list
  PROVE  /\ ListTyped'
         /\ UNCHANGED cached
         /\ (dropping \/ list \in told) => dropping'
         /\ (excused \/ list \in untold) => excused'
         /\ loading' # Miss => /\ loading # Miss /\ loading'.shows = loading.shows
                               /\ loading'.old
                               /\ (loading.excused \/ list \in untold) => loading'.excused
<1>1. /\ UNCHANGED <<cached, list>>
      /\ dropping' = (dropping \/ list \in told)
      /\ excused' = (excused \/ list \in untold)
  BY DEF Changes
<1>2. dropping' \in BOOLEAN /\ excused' \in BOOLEAN
  BY <1>1
<1>3. CASE loading = Miss
  BY <1>1, <1>2, <1>3 DEF Changes, ListTyped
<1>4. CASE loading # Miss
  <2>1. PICK b \in BOOLEAN : b <=> list \in untold
    BY Zenon
  <2>2. loading' = [loading EXCEPT !.old = TRUE, !.excused = @ \/ b] /\ loading \in CachedRow
    <3>1. b = (list \in untold)
      BY <2>1
    <3> QED BY <1>4, <3>1 DEF Changes, ListTyped
  <2> QED BY <1>1, <1>2, <1>4, <2>1, <2>2, CachedRowTyped DEF ListTyped
<1> QED BY <1>3, <1>4

LEMMA TellsList ==
  ASSUME ListTyped, NEW u, Tells(u), UNCHANGED list
  PROVE  /\ ListTyped' /\ UNCHANGED <<cached, loading, excused>>
         /\ (dropping \/ list \in Told(u)) => dropping'
BY DEF Tells, ListTyped

\* A request begins.
LEMMA OpensTyped ==
  ASSUME Typed, NEW k \in Calls, NEW c \in Call, Begin(k, c), Shape(c),
         c.base \in Torrent => c.base.id <= ids,
         UNCHANGED <<accounts, faults, list, listVars>>,
         UNCHANGED rowVars
  PROVE  Typed'
<1> USE DEF Typed
<1>1. /\ call' \in [Calls -> Call \cup {Idle}] /\ OthersStay(k) /\ call'[k] = c
  BY Opened
<1>2. ids' = ids /\ ids \in Nat
  BY DEF rowVars, RowsTyped
<1>3. CallsTyped'
  <2>1. ids' \in Nat /\ ids' >= ids
    BY <1>2
  <2> QED BY <1>1, <1>2, <2>1, CallsStayTyped DEF OthersStay
<1>4. Counts'
  BY CallCounts DEF Begin
<1> QED BY <1>3, <1>4, AccountsStay, RowsStay, ListStays

\* The requests about accounts.
StillRows == UNCHANGED <<rowVars, list, listVars>>

LEMMA AccountRequestOpens ==
  ASSUME Typed, StillRows, NEW k \in Calls, NEW u \in Users,
         \/ \E n \in Nicknames : BeginRegister(k, u, n) \/ UpdateProfile(k, u, n)
         \/ \E old, new \in Passwords : ChangePassword(k, u, old, new)
         \/ \E a \in Users, role \in Roles : UpdateUserRole(k, a, u, role)
  PROVE  /\ Typed' /\ UNCHANGED <<accounts, faults>>
         /\ \E c \in Call : /\ Begin(k, c)
                            /\ \/ c.op = "register"
                               \/ c.op = "save" /\ c.on = u /\ c.base = account[u]
<1> USE DEF Typed
<1>1. ASSUME NEW c \in Call, Begin(k, c), Shape(c), c.base \notin Torrent \/ c.base = NoRow,
             UNCHANGED <<accounts, faults>>
      PROVE  Typed'
  BY <1>1, OpensTyped, NoneAssumption DEF StillRows
<1>2. ASSUME NEW n \in Nicknames, BeginRegister(k, u, n)
      PROVE  /\ Typed' /\ UNCHANGED <<accounts, faults>>
             /\ \E c \in Call : Begin(k, c) /\ c.op = "register"
  <2>1. PICK c : c = Request("register", u, u, "nickname", n, NoRow)
    OBVIOUS
  <2>2. /\ c \in Call /\ c.op = "register" /\ c.on = u /\ c.field = "nickname" /\ c.value = n
        /\ c.base = NoRow /\ c.step = "read"
    BY <2>1, RequestTyped DEF Operations, Fields, Words
  <2>3. Begin(k, c) /\ UNCHANGED <<accounts, faults>>
    BY <1>2, <2>1 DEF BeginRegister, accounts
  <2>4. Shape(c)
    BY <2>2 DEF Shape
  <2> QED BY <1>1, <2>2, <2>3, <2>4
<1>3. ASSUME NEW a \in Users, account[u] # NoRow, NEW field \in {"nickname", "password", "role"},
             NEW value,
             \/ field = "nickname" /\ value \in Nicknames
             \/ field = "password" /\ value \in Passwords
             \/ field = "role" /\ value \in Roles,
             Begin(k, Request("save", a, u, field, value, account[u])),
             UNCHANGED <<accounts, faults>>
      PROVE  /\ Typed' /\ UNCHANGED <<accounts, faults>>
             /\ \E c \in Call : Begin(k, c) /\ c.op = "save" /\ c.on = u /\ c.base = account[u]
  <2>1. PICK c : c = Request("save", a, u, field, value, account[u])
    OBVIOUS
  <2>2. account[u] \in Account
    BY <1>3 DEF AccountsTyped
  <2>3. /\ c \in Call /\ c.op = "save" /\ c.on = u /\ c.field = field /\ c.value = value
        /\ c.base = account[u] /\ c.step = "read"
    <3>1. value \in Words \cup Poster
      BY <1>3 DEF Words
    <3>2. field \in Fields /\ "save" \in Operations
      BY DEF Operations, Fields
    <3> QED BY <2>1, <2>2, <3>1, <3>2, RequestTyped
  <2>4. Shape(c)
    BY <1>3, <2>2, <2>3 DEF Shape, AccountsTyped
  <2>5. c.base \notin Torrent
    BY <2>2, <2>3 DEF Account, Torrent
  <2> QED BY <1>1, <1>3, <2>1, <2>3, <2>4, <2>5
<1>4. ASSUME NEW n \in Nicknames, UpdateProfile(k, u, n)
      PROVE  /\ Typed' /\ UNCHANGED <<accounts, faults>>
             /\ \E c \in Call : Begin(k, c) /\ c.op = "save" /\ c.on = u /\ c.base = account[u]
  BY <1>3, <1>4 DEF UpdateProfile, accounts
<1>5. ASSUME NEW old \in Passwords, NEW new \in Passwords, ChangePassword(k, u, old, new)
      PROVE  /\ Typed' /\ UNCHANGED <<accounts, faults>>
             /\ \E c \in Call : Begin(k, c) /\ c.op = "save" /\ c.on = u /\ c.base = account[u]
  BY <1>3, <1>5 DEF ChangePassword, accounts
<1>6. ASSUME NEW a \in Users, NEW role \in Roles, UpdateUserRole(k, a, u, role)
      PROVE  /\ Typed' /\ UNCHANGED <<accounts, faults>>
             /\ \E c \in Call : Begin(k, c) /\ c.op = "save" /\ c.on = u /\ c.base = account[u]
  BY <1>3, <1>6 DEF UpdateUserRole, accounts
<1> QED BY <1>2, <1>4, <1>5, <1>6

LEMMA LoginTyped ==
  ASSUME Typed, StillRows, NEW u \in Users, Login(u) PROVE Typed'
<1> USE DEF Typed
<1>1. AccountsTyped'
  <2>1. account[u].role \in Roles
    BY DEF Login, AccountsTyped, Account
  <2> QED BY <2>1 DEF Login, AccountsTyped
<1>2. CallsTyped'
  BY DEF Login, CallsTyped, StillRows, rowVars
<1> QED BY <1>1, <1>2, RowsStay, ListStays DEF Login, StillRows, Counts

\* A request ends, or all stay.
LEMMA EndsTyped ==
  ASSUME Typed, NEW k \in Calls, call' \in [Calls -> Call \cup {Idle}], OthersStay(k),
         call'[k] = Idle \/ Stays(k), ids' \in Nat, ids' >= ids
  PROVE  CallsTyped'
BY CallsStayTyped DEF OthersStay

LEMMA IdsStay == ASSUME RowsTyped, UNCHANGED ids PROVE ids' \in Nat /\ ids' >= ids
BY DEF RowsTyped

\* An account is changed by the request of k.
AccountWritten(k, u) ==
  /\ call' \in [Calls -> Call \cup {Idle}] /\ OthersStay(k) /\ call'[k] = Idle
  /\ Noticed(u)
  /\ \A v \in Users \ {u} : account'[v] = account[v] /\ intended'[v] = intended[v]

Unwritten(k) ==
  /\ call' \in [Calls -> Call \cup {Idle}] /\ OthersStay(k) /\ call'[k] = Idle
  /\ UNCHANGED <<account, intended, clobbered>>

LEMMA RegisterTyped ==
  ASSUME Typed, StillRows, NEW k \in Calls, Register(k)
  PROVE  /\ Typed'
         /\ \/ Unwritten(k)
            \/ /\ AccountWritten(k, call[k].on) /\ UNCHANGED clobbered
               /\ account'[call[k].on] = intended'[call[k].on]
<1> USE DEF Typed
<1>1. PICK u \in Users : u = call[k].on /\ call[k].value \in Nicknames
  BY DEF Register, CallsTyped, Shape
<1>2. PICK row : row = NewAccount(call[k].value, "user")
  OBVIOUS
<1>3. row \in Account /\ row.role = "user" /\ ~ row.super
  BY <1>1, <1>2 DEF NewAccount, Account, Roles, Passwords
<1>4. UNCHANGED <<calls, faults, clobbered, ids>>
  BY DEF Register, StillRows, rowVars
<1>5. CASE Return(k) /\ UNCHANGED <<account, tokens, intended>>
  <2>1. Unwritten(k)
    BY <1>4, <1>5, Ended DEF Unwritten
  <2>2. CallsTyped'
    BY <1>4, <2>1, IdsStay, EndsTyped DEF Unwritten
  <2>3. AccountsTyped'
    BY <1>4, <1>5, AccountsStay DEF accounts
  <2> QED BY <1>4, <2>1, <2>2, <2>3, RowsStay, ListStays DEF StillRows, Counts
<1>6. CASE /\ account[u] = NoRow
           /\ account' = [account EXCEPT ![u] = row]
           /\ intended' = [intended EXCEPT ![u] = row]
           /\ tokens' = tokens \cup {<<u, row.role>>}
           /\ ReturnAfterWrite(k)
  <2>1. u # Root
    BY <1>6 DEF AccountsTyped
  <2>2. AccountsTyped'
    BY <1>3, <1>4, <1>6, <2>1, AccountsAssumption DEF AccountsTyped, Roles
  <2>3. AccountWritten(k, u)
    <3>1. \A v \in Users \ {u} : account'[v] = account[v] /\ intended'[v] = intended[v]
      BY <1>6 DEF AccountsTyped
    <3> QED BY <1>1, <1>6, <3>1, EndedAfterWrite DEF AccountWritten, ReturnAfterWrite
  <2>4. CallsTyped'
    BY <1>4, <2>3, IdsStay, EndsTyped DEF AccountWritten
  <2>5. account'[u] = intended'[u]
    BY <1>6 DEF AccountsTyped
  <2> QED BY <1>1, <1>4, <2>2, <2>3, <2>4, <2>5, RowsStay, ListStays DEF StillRows, Counts
<1> QED BY <1>1, <1>2, <1>5, <1>6 DEF Register

\* Save writes the row as it was read, but for one column; what was asked for is that
\* column of the row as it is.
LEMMA SaveTyped ==
  ASSUME Typed, StillRows, NEW k \in Calls, Save(k)
  PROVE  /\ Typed'
         /\ \/ Unwritten(k)
            \/ /\ AccountWritten(k, call[k].on)
               /\ call[k].stale => clobbered' = clobbered \cup {call[k].on}
               /\ ~ call[k].stale => UNCHANGED clobbered
               /\ intended[call[k].on] = call[k].base
                    => account'[call[k].on] = intended'[call[k].on]
<1> USE DEF Typed
<1>1. PICK u \in Users : u = call[k].on /\ call[k].base \in Account
                         /\ (u = Root => call[k].base.super)
  BY DEF Save, CallsTyped, Shape
<1>2. /\ call[k].field \in {"nickname", "password", "role"}
      /\ \/ call[k].field = "nickname" /\ call[k].value \in Nicknames
         \/ call[k].field = "password" /\ call[k].value \in Passwords
         \/ call[k].field = "role" /\ call[k].value \in Roles
  BY DEF Save, CallsTyped, Shape
<1>3. ASSUME NEW r \in Account
      PROVE  LET s == [r EXCEPT ![call[k].field] = call[k].value] IN
               s \in Account /\ s.super = r.super
  BY <1>2 DEF Account
<1>4. Saved(k) \in Account /\ Saved(k).super = call[k].base.super
  BY <1>1, <1>3 DEF Saved
<1>5. UNCHANGED <<tokens, calls, faults, ids>>
  BY DEF Save, StillRows, rowVars
<1>6. CASE Return(k) /\ UNCHANGED <<account, intended, clobbered>>
  <2>1. Unwritten(k)
    BY <1>5, <1>6, Ended DEF Unwritten
  <2>2. CallsTyped'
    BY <1>5, <2>1, IdsStay, EndsTyped DEF Unwritten
  <2>3. AccountsTyped'
    BY <1>5, <1>6, AccountsStay DEF accounts
  <2> QED BY <1>5, <2>1, <2>2, <2>3, RowsStay, ListStays DEF StillRows, Counts
<1>7. CASE /\ account' = [account EXCEPT ![u] = Saved(k)]
           /\ intended' = IF intended[u] = NoRow THEN intended
                          ELSE [intended EXCEPT ![u][call[k].field] = call[k].value]
           /\ clobbered' = IF call[k].stale THEN clobbered \cup {u} ELSE clobbered
           /\ ReturnAfterWrite(k)
  <2>1. /\ account' \in [Users -> Account \cup {NoRow}]
        /\ account'[u] = Saved(k)
        /\ \A v \in Users \ {u} : account'[v] = account[v]
    BY <1>4, <1>7 DEF AccountsTyped
  <2>2. /\ intended' \in [Users -> Account \cup {NoRow}]
        /\ \A v \in Users \ {u} : intended'[v] = intended[v]
        /\ intended[u] # NoRow => intended'[u] # NoRow
        /\ intended[u] # NoRow
             => intended'[u] = [intended[u] EXCEPT ![call[k].field] = call[k].value]
    <3>1. CASE intended[u] = NoRow
      BY <1>7, <3>1 DEF AccountsTyped
    <3>2. CASE intended[u] # NoRow
      <4>1. PICK r \in Account : r = [intended[u] EXCEPT ![call[k].field] = call[k].value]
        BY <1>3, <3>2 DEF AccountsTyped
      <4>2. intended' = [intended EXCEPT ![u] = r]
        BY <1>7, <3>2, <4>1
      <4> QED BY <4>1, <4>2, NoneAssumption DEF AccountsTyped
    <3> QED BY <3>1, <3>2
  <2>3. AccountsTyped'
    <3>1. Root \in Users
      BY AccountsAssumption
    <3>2. clobbered' \subseteq Users
      BY <1>7 DEF AccountsTyped
    <3>3. account'[Root] # NoRow /\ account'[Root].super
      BY <1>1, <1>4, <2>1, <3>1, NoneAssumption DEF AccountsTyped
    <3>4. intended'[Root] # NoRow
      BY <2>2, <3>1 DEF AccountsTyped
    <3> QED BY <1>5, <2>1, <2>2, <3>2, <3>3, <3>4 DEF AccountsTyped
  <2>4. AccountWritten(k, u)
    BY <1>1, <1>7, <2>1, <2>2, EndedAfterWrite DEF AccountWritten, ReturnAfterWrite
  <2>5. CallsTyped'
    BY <1>5, <2>4, IdsStay, EndsTyped DEF AccountWritten
  <2>6. intended[u] = call[k].base => account'[u] = intended'[u]
    BY <1>1, <2>1, <2>2, NoneAssumption DEF Saved
  <2> QED BY <1>1, <1>5, <1>7, <2>3, <2>4, <2>5, <2>6, RowsStay, ListStays DEF StillRows, Counts
<1> QED BY <1>1, <1>6, <1>7 DEF Save

\* The requests about the torrent.
LEMMA RowRequestOpens ==
  ASSUME Typed, UNCHANGED list, NEW k \in Calls, NEW u \in Users,
         \/ BeginStart(k, u) \/ BeginDeleteTorrent(k, u)
         \/ \E v \in Visibility : BeginSetVisibility(k, u, v)
         \/ \E a \in Users : BeginDeleteUser(k, a, u)
  PROVE  /\ Typed' /\ UNCHANGED <<accounts, rowVars, listVars>>
         /\ \E c \in Call : /\ Begin(k, c) /\ c.step = "read" /\ c.base \in {torrent, NoRow}
                            /\ c.op \in {"start", "deleteTorrent", "visibility", "deleteUser"}
                            /\ c.op = "visibility" => c.base = torrent
<1> USE DEF Typed
<1>1. UNCHANGED <<accounts, rowVars, listVars, faults>>
  BY DEF BeginStart, BeginDeleteTorrent, BeginSetVisibility, BeginDeleteUser
<1> DEFINE Opens(c) == /\ Begin(k, c) /\ Shape(c) /\ c.step = "read"
                       /\ c.base \in {torrent, NoRow}
                       /\ c.op \in {"start", "deleteTorrent", "visibility", "deleteUser"}
                       /\ c.op = "visibility" => c.base = torrent
<1>2. ASSUME NEW c \in Call, Opens(c) PROVE Typed'
  <2>1. c.base \in Torrent => c.base.id <= ids
    BY <1>2, NoneAssumption DEF RowsTyped
  <2> QED BY <1>1, <1>2, <2>1, OpensTyped
<1>3. torrent \in Torrent \cup {NoRow}
  BY DEF RowsTyped
<1>9. /\ {"start", "deleteTorrent", "visibility", "deleteUser"} \subseteq Operations
      /\ {"status", "visibility"} \subseteq Fields
      /\ torrent \in Account \cup Torrent \cup {NoRow}
      /\ \A v \in {"downloading", NoRow} \cup Visibility :
           v \in Words \cup Poster
  BY <1>3 DEF Operations, Fields, Status, Words
<1>4. ASSUME BeginStart(k, u) PROVE \E c \in Call : Opens(c)
  <2>1. PICK c : c = Request("start", u, "torrent", "status", "downloading", torrent)
    OBVIOUS
  <2>2. /\ c \in Call /\ c.op = "start" /\ c.on = "torrent" /\ c.field = "status"
        /\ c.value = "downloading" /\ c.base = torrent /\ c.step = "read"
    <3>1. PICK v : v = "downloading"
      OBVIOUS
    <3>2. /\ "start" \in Operations /\ "status" \in Fields /\ "torrent" \in Users \cup {"torrent"}
          /\ v \in Words \cup Poster
      BY <1>9, <3>1
    <3>3. torrent \in Account \cup Torrent \cup {NoRow}
      BY <1>9
    <3> QED BY <2>1, <3>1, <3>2, <3>3, RequestTyped
  <2>3. Shape(c)
    BY <1>3, <2>2 DEF Shape
  <2>4. Begin(k, c)
    BY <1>4, <2>1 DEF BeginStart
  <2> QED BY <2>2, <2>3, <2>4
<1>5. ASSUME BeginDeleteTorrent(k, u) PROVE \E c \in Call : Opens(c)
  <2>1. PICK c : c = Request("deleteTorrent", u, "torrent", "status", NoRow, torrent)
    OBVIOUS
  <2>2. /\ c \in Call /\ c.op = "deleteTorrent" /\ c.on = "torrent" /\ c.field = "status"
        /\ c.value = NoRow /\ c.base = torrent /\ c.step = "read"
    <3>1. PICK v : v = NoRow
      OBVIOUS
    <3>2. /\ "deleteTorrent" \in Operations /\ "status" \in Fields
          /\ "torrent" \in Users \cup {"torrent"}
          /\ v \in Words \cup Poster
      BY <1>9, <3>1
    <3>3. torrent \in Account \cup Torrent \cup {NoRow}
      BY <1>9
    <3> QED BY <2>1, <3>1, <3>2, <3>3, RequestTyped
  <2>3. Shape(c)
    BY <1>3, <1>5, <2>2 DEF Shape, BeginDeleteTorrent
  <2>4. Begin(k, c)
    BY <1>5, <2>1 DEF BeginDeleteTorrent
  <2> QED BY <2>2, <2>3, <2>4
<1>6. ASSUME NEW v \in Visibility, BeginSetVisibility(k, u, v) PROVE \E c \in Call : Opens(c)
  <2>1. PICK c : c = Request("visibility", u, "torrent", "visibility", v, torrent)
    OBVIOUS
  <2>2. /\ c \in Call /\ c.op = "visibility" /\ c.on = "torrent" /\ c.field = "visibility"
        /\ c.value = v /\ c.base = torrent /\ c.step = "read"
    <3>1. /\ "visibility" \in Operations /\ "visibility" \in Fields
          /\ "torrent" \in Users \cup {"torrent"}
          /\ v \in Words \cup Poster
      BY <1>9
    <3>2. torrent \in Account \cup Torrent \cup {NoRow}
      BY <1>9
    <3> QED BY <2>1, <3>1, <3>2, RequestTyped
  <2>3. Shape(c)
    BY <1>3, <1>6, <2>2 DEF Shape, BeginSetVisibility, Mine
  <2>4. Begin(k, c)
    BY <1>6, <2>1 DEF BeginSetVisibility
  <2> QED BY <2>2, <2>3, <2>4
<1>7. ASSUME NEW a \in Users, BeginDeleteUser(k, a, u) PROVE \E c \in Call : Opens(c)
  <2>1. PICK base \in {torrent, NoRow} : base = IF Mine(u) THEN torrent ELSE NoRow
    OBVIOUS
  <2>2. u # Root
    BY <1>7 DEF BeginDeleteUser, MayDelete, AccountsTyped
  <2>3. PICK c : c = Request("deleteUser", a, u, "status", NoRow, base)
    OBVIOUS
  <2>4. /\ c \in Call /\ c.op = "deleteUser" /\ c.on = u /\ c.field = "status"
        /\ c.value = NoRow /\ c.base = base /\ c.step = "read"
    <3>1. /\ "deleteUser" \in Operations /\ "status" \in Fields /\ u \in Users \cup {"torrent"}
          /\ NoRow \in Words \cup Poster
          /\ base \in Account \cup Torrent \cup {NoRow}
      BY <1>9
    <3> QED BY <2>3, <3>1, RequestTyped
  <2>5. Shape(c)
    BY <1>3, <2>2, <2>4 DEF Shape, Steps
  <2>6. Begin(k, c)
    BY <1>7, <2>1, <2>3 DEF BeginDeleteUser
  <2> QED BY <2>4, <2>5, <2>6
<1>8. \E c \in Call : Opens(c)
  BY <1>4, <1>5, <1>6, <1>7
<1> QED BY <1>1, <1>2, <1>8

LEMMA BeginPosterTyped ==
  ASSUME Typed, UNCHANGED list, NEW k \in Calls, NEW u \in Users, BeginPoster(k, u)
  PROVE  /\ Typed' /\ UNCHANGED <<accounts, torrent, ids, files, plan, history, listVars>>
         /\ uploaded' = uploaded + 1 /\ posters' = posters \cup {uploaded'}
         /\ \E c \in Call : /\ Begin(k, c) /\ c.step = "read" /\ c.base = torrent
                            /\ c.op = "poster" /\ c.value = uploaded'
<1> USE DEF Typed
<1>1. UNCHANGED <<accounts, torrent, ids, files, plan, history, listVars, faults>>
  BY DEF BeginPoster
<1>2. /\ uploaded' = uploaded + 1 /\ posters' = posters \cup {uploaded'}
      /\ uploaded' \in Poster /\ uploaded' \in 0 .. MaxPosters
      /\ posters' \subseteq 1 .. uploaded'
  BY TorrentRowsAssumption DEF BeginPoster, RowsTyped, Poster
<1>3. torrent \in Torrent
  BY DEF BeginPoster, Shown, Mine, RowsTyped
<1>4. PICK c : c = Request("poster", u, "torrent", "poster", uploaded', torrent)
  OBVIOUS
<1>5. /\ c \in Call /\ c.op = "poster" /\ c.on = "torrent" /\ c.field = "poster"
      /\ c.value = uploaded' /\ c.base = torrent /\ c.step = "read"
  <2>1. /\ "torrent" \in Users \cup {"torrent"} /\ "poster" \in Fields /\ "poster" \in Operations
        /\ torrent \in Account \cup Torrent \cup {NoRow}
        /\ uploaded' \in Words \cup Poster
    BY <1>2, <1>3 DEF Fields, Operations
  <2> QED BY <1>4, <2>1, RequestTyped
<1>6. Shape(c)
  BY <1>2, <1>3, <1>5 DEF Shape
<1>7. Begin(k, c)
  BY <1>4 DEF BeginPoster
<1>8. /\ call' \in [Calls -> Call \cup {Idle}] /\ OthersStay(k) /\ call'[k] = c
  BY <1>5, <1>7, Opened
<1>9. CallsTyped'
  <2>1. ids' \in Nat /\ ids' >= ids /\ c.base.id <= ids'
    BY <1>1, <1>3, <1>5, NoneAssumption DEF RowsTyped
  <2> QED BY <1>6, <1>8, <2>1, CallsStayTyped DEF OthersStay
<1>10. RowsTyped'
  BY <1>1, <1>2 DEF RowsTyped, history
<1>11. Counts'
  BY <1>1, <1>7, CallCounts DEF Begin
<1>12. AccountsTyped' /\ ListTyped'
  BY <1>1, AccountsStay, ListStays
<1> QED BY <1>1, <1>2, <1>5, <1>7, <1>9, <1>10, <1>11, <1>12

\* The row with one of its columns changed.
LEMMA ColumnChanged ==
  ASSUME NEW t \in Torrent, NEW field \in {"status", "deleted", "poster", "imdb", "visibility"},
         NEW value,
         \/ field = "status" /\ value \in Status
         \/ field \in {"deleted", "imdb"} /\ value \in BOOLEAN
         \/ field = "poster" /\ value \in Poster
         \/ field = "visibility" /\ value \in Visibility
  PROVE  LET s == [t EXCEPT ![field] = value] IN
           /\ s \in Torrent /\ s.id = t.id /\ s.creator = t.creator
           /\ s.poster = IF field = "poster" THEN value ELSE t.poster
BY DEF Torrent

ByInstant == {"status", "deleted", "poster", "imdb"}

\* Requests of one statement, and the event of a worker.
InstantStep ==
  \/ \E u \in Users : \/ \E status \in Status : SetStatus(u, status)
                      \/ RemoveTorrent(u) \/ SetPoster(u) \/ BindIMDB(u)
  \/ Completed

LEMMA InstantTyped ==
  ASSUME Typed, UNCHANGED list, InstantStep
  PROVE  /\ Typed' /\ (\A k \in Calls : Stays(k)) /\ Noticed("torrent")
         /\ UNCHANGED <<accounts, ids, files, posters, uploaded, history>>
         /\ torrent # NoRow /\ torrent' # NoRow /\ torrent'.id = torrent.id
         /\ torrent'.creator = torrent.creator /\ torrent'.poster \in {0, torrent.poster}
         /\ torrent = plan => torrent' = plan'
         /\ \E told, untold : /\ Changes(told, untold)
                              /\ {torrent.creator, "public", "internal"} \subseteq told \cup untold
                                 \/ list \in told \cup untold
<1> USE DEF Typed
<1>1. /\ torrent # NoRow /\ Counted /\ call' = Overtaken("torrent")
      /\ UNCHANGED <<accounts, faults, ids, files, posters, uploaded, history>>
  BY DEF InstantStep, SetStatus, RemoveTorrent, SetPoster, BindIMDB, Completed, Shown, Mine
<1>2. PICK field \in ByInstant, value \in Status \cup {TRUE, 0} :
        /\ \/ field = "status" /\ value \in Status
           \/ field \in {"deleted", "imdb"} /\ value = TRUE
           \/ field = "poster" /\ value = 0
        /\ torrent' = [torrent EXCEPT ![field] = value]
        /\ Planned(field, value)
  BY DEF InstantStep, SetStatus, RemoveTorrent, SetPoster, BindIMDB, Completed, ByInstant, Status
<1>3. torrent \in Torrent
  BY <1>1 DEF RowsTyped
<1>4. \/ field = "status" /\ value \in Status
      \/ field \in {"deleted", "imdb"} /\ value \in BOOLEAN
      \/ field = "poster" /\ value \in Poster
  <2>1. 0 \in Poster
    BY TorrentRowsAssumption DEF Poster
  <2> QED BY <1>2, <2>1
<1>5. /\ torrent' \in Torrent /\ torrent'.id = torrent.id /\ torrent'.creator = torrent.creator
      /\ torrent'.poster \in {0, torrent.poster}
  <2>1. field \in {"status", "deleted", "poster", "imdb", "visibility"}
    BY DEF ByInstant
  <2>2. /\ [torrent EXCEPT ![field] = value] \in Torrent
        /\ [torrent EXCEPT ![field] = value].id = torrent.id
        /\ [torrent EXCEPT ![field] = value].creator = torrent.creator
        /\ [torrent EXCEPT ![field] = value].poster
             = IF field = "poster" THEN value ELSE torrent.poster
    BY <1>3, <1>4, <2>1, ColumnChanged
  <2> QED BY <1>2, <2>2
<1>6. plan' = NoRow \/ plan' \in Torrent
  <2>1. plan \in Torrent => [plan EXCEPT ![field] = value] \in Torrent
    BY <1>2, <1>4, ColumnChanged DEF ByInstant
  <2> QED BY <1>2, <2>1 DEF Planned, RowsTyped
<1>7. RowsTyped'
  BY <1>1, <1>3, <1>5, <1>6 DEF RowsTyped, history
<1>8. /\ call' \in [Calls -> Call \cup {Idle}]
      /\ \A k \in Calls : Stays(k)
      /\ Noticed("torrent")
  BY <1>1, AllStay
<1>9. CallsTyped'
  BY <1>1, <1>8, IdsStay, CallsStayTyped
<1>10. PICK told, untold :
          /\ Changes(told, untold)
          /\ {torrent.creator, "public", "internal"} \subseteq told \cup untold
             \/ list \in told \cup untold
  <2>1. ASSUME NEW u, ChangesBy(u)
        PROVE  \E told, untold :
                  /\ Changes(told, untold)
                  /\ {torrent.creator, "public", "internal"} \subseteq told \cup untold
    BY <1>1, <2>1 DEF ChangesBy, Told, NotTold
  <2>2. ASSUME ChangesSilently
        PROVE  \E told, untold : Changes(told, untold) /\ list \in told \cup untold
    BY <2>2 DEF ChangesSilently, ListTyped
  <2>3. ChangesSilently \/ \E u \in Users : ChangesBy(u)
    BY DEF InstantStep, SetStatus, RemoveTorrent, SetPoster, BindIMDB, Completed
  <2> QED BY <2>1, <2>2, <2>3
<1>11. ListTyped'
  BY <1>10, ChangesList
<1>12. AccountsTyped' /\ Counts'
  BY <1>1, AccountsStay, CallCounts
<1>13. torrent' # NoRow /\ (torrent = plan => torrent' = plan')
  BY <1>1, <1>2, <1>5, NoneAssumption DEF Planned
<1> QED BY <1>1, <1>5, <1>7, <1>8, <1>9, <1>10, <1>11, <1>12, <1>13

\* Request k ends; it goes on.
Finishes(k) == call' \in [Calls -> Call \cup {Idle}] /\ OthersStay(k) /\ call'[k] = Idle

Advances(k, step) ==
  /\ call' \in [Calls -> Call \cup {Idle}] /\ OthersStay(k)
  /\ call'[k] # Idle /\ Held(call[k], call'[k]) /\ call'[k].step = step

LEMMA FinishTyped ==
  ASSUME Typed, NEW k \in Calls, Finishes(k), ids' \in Nat, ids' >= ids
  PROVE  CallsTyped'
BY EndsTyped DEF Finishes

LEMMA AdvanceTyped ==
  ASSUME Typed, NEW k \in Calls, call[k] # Idle, NEW step \in Steps, Advances(k, step),
         ids' \in Nat, ids' >= ids,
         \/ call[k].op = "start" /\ step = "files" /\ call[k].base # NoRow
         \/ call[k].op = "deleteTorrent" /\ step \in {"files", "rows"}
         \/ call[k].op = "deleteUser"
  PROVE  CallsTyped'
<1>1. /\ Shape(call[k]) /\ call[k] \in Call
      /\ call[k].base \in Torrent => call[k].base.id <= ids
  BY DEF Typed, CallsTyped
<1>2. PICK d \in Call : d = call'[k] /\ Held(call[k], d) /\ d.step = step
  BY DEF Advances, Held
<1>3. Shape(d)
  <2>1. /\ d.op = call[k].op /\ d.on = call[k].on /\ d.base = call[k].base
        /\ d.field = call[k].field /\ d.value = call[k].value
    BY <1>2 DEF Held
  <2>2. CASE d.op = "start"
    BY <1>1, <1>2, <2>1, <2>2 DEF Shape
  <2>3. CASE d.op = "deleteTorrent"
    BY <1>1, <1>2, <2>1, <2>3 DEF Shape
  <2>4. CASE d.op = "deleteUser"
    BY <1>1, <1>2, <2>1, <2>4 DEF Shape
  <2> QED BY <2>1, <2>2, <2>3, <2>4
<1>4. d.base \in Torrent => d.base.id <= ids'
  <2>1. d.base = call[k].base
    BY <1>2 DEF Held
  <2>2. d.base \in Torrent => d.base.id \in Nat
    BY DEF Torrent
  <2> QED BY <1>1, <2>1, <2>2 DEF Typed, RowsTyped
<1> QED BY <1>2, <1>3, <1>4, CallsStayTyped DEF Advances, OthersStay

\* What a request about the torrent holds.
LEMMA RowRequest ==
  ASSUME Typed, NEW k \in Calls, call[k] # Idle
  PROVE  /\ call[k] \in Call /\ call[k].by \in Users
         /\ call[k].op \notin {"register", "save", "deleteUser"} => call[k].on = "torrent"
         /\ call[k].op # "save" => call[k].base \in Torrent \cup {NoRow}
         /\ call[k].op \in {"visibility", "poster", "deleteTorrent"} => call[k].base \in Torrent
         /\ call[k].op = "start" => call[k].base # NoRow \/ call[k].step = "read"
         /\ call[k].op = "visibility" => /\ call[k].field = "visibility"
                                         /\ call[k].value \in Visibility
         /\ call[k].op = "poster" => call[k].field = "poster" /\ call[k].value \in Poster
         /\ call[k].op = "deleteUser" => call[k].on \in Users \ {Root}
         /\ call[k].base \in Torrent => /\ call[k].base.id \in 1 .. ids
                                        /\ call[k].base.creator \in Users
                                        /\ call[k].base.poster \in Poster
<1>1. call[k] \in Call /\ Shape(call[k]) /\ (call[k].base \in Torrent => call[k].base.id <= ids)
  BY DEF Typed, CallsTyped
<1>2. call[k].by \in Users
  BY <1>1 DEF Call, CallOf
<1>3. call[k].base \in Torrent => /\ call[k].base.id \in 1 .. ids
                                  /\ call[k].base.creator \in Users
                                  /\ call[k].base.poster \in Poster
  BY <1>1 DEF Torrent, Typed, RowsTyped
<1> QED BY <1>1, <1>2, <1>3 DEF Shape

LEMMA StartCreatesTyped ==
  ASSUME Typed, UNCHANGED list, NEW k \in Calls, StartCreates(k)
  PROVE  /\ Typed' /\ Finishes(k)
         /\ UNCHANGED <<torrent, ids>> \/ (Noticed("torrent") /\ torrent' # NoRow)
<1> USE DEF Typed
<1>1. call[k] # Idle /\ call[k].op = "start" /\ call[k].by \in Users /\ call[k].on = "torrent"
  BY RowRequest DEF StartCreates, Ours
<1>2. UNCHANGED <<accounts, calls, faults, posters, uploaded, stripped, leftover>>
  BY DEF StartCreates
<1>3. CASE Return(k) /\ UNCHANGED <<torrent, ids, files, plan, spoilt, listVars>>
  <2>1. Finishes(k)
    BY <1>3, Ended DEF Finishes
  <2>2. CallsTyped'
    BY <1>3, <2>1, IdsStay, FinishTyped
  <2>3. RowsTyped'
    BY <1>2, <1>3 DEF RowsTyped
  <2> QED BY <1>2, <1>3, <2>1, <2>2, <2>3, AccountsStay, ListStays DEF Counts
<1>4. CASE /\ ids < MaxIds /\ ids' = ids + 1
           /\ torrent' = [id |-> ids', creator |-> call[k].by, status |-> "downloading",
                          visibility |-> "private", deleted |-> FALSE, poster |-> 0,
                          imdb |-> FALSE]
           /\ plan' = torrent' /\ spoilt' = FALSE
           /\ files' = files \cup {ids'}
           /\ ChangesBy(call[k].by)
           /\ ReturnAfterWrite(k)
  <2>1. Finishes(k) /\ Noticed("torrent")
    BY <1>1, <1>4, EndedAfterWrite DEF Finishes, ReturnAfterWrite
  <2>2. ids' \in 1 .. MaxIds /\ ids \in Nat
    BY <1>4, TorrentRowsAssumption DEF RowsTyped
  <2>3. CallsTyped'
    BY <1>4, <2>1, <2>2, FinishTyped
  <2>4. torrent' \in Torrent
    BY <1>1, <1>4, <2>2, TorrentRowsAssumption DEF Torrent, Status, Visibility, Poster
  <2>5. RowsTyped'
    <3>1. torrent'.id = ids'
      BY <1>4
    <3>2. 1 .. ids \subseteq 1 .. ids' /\ ids' \in 1 .. ids' /\ ids' \in 0 .. MaxIds
      BY <1>4, <2>2
    <3>3. /\ files' \subseteq 1 .. ids' /\ stripped' \subseteq 1 .. ids'
          /\ leftover' \subseteq 1 .. ids'
      BY <1>2, <1>4, <3>2 DEF RowsTyped
    <3>4. torrent'.id <= ids'
      BY <2>2, <3>1
    <3> QED BY <1>2, <1>4, <2>4, <3>2, <3>3, <3>4 DEF RowsTyped
  <2>6. ListTyped'
    BY <1>4, ChangesList DEF ChangesBy
  <2> QED BY <1>2, <2>1, <2>3, <2>4, <2>5, <2>6, AccountsStay, NoneAssumption DEF Counts
<1> QED BY <1>3, <1>4 DEF StartCreates

LEMMA StartUpdatesTyped ==
  ASSUME Typed, UNCHANGED list, NEW k \in Calls, StartUpdates(k)
  PROVE  /\ Typed' /\ Advances(k, "files") /\ (UNCHANGED torrent \/ Noticed("torrent"))
         /\ torrent = NoRow => torrent' = NoRow
         /\ torrent # NoRow => /\ torrent' # NoRow /\ torrent'.id = torrent.id
                               /\ torrent'.poster = torrent.poster
                               /\ torrent'.creator = torrent.creator
         /\ torrent = plan => torrent' = plan'
<1> USE DEF Typed
<1>1. /\ call[k] # Idle /\ call[k].op = "start" /\ call[k].base # NoRow
      /\ UNCHANGED <<accounts, calls, faults, ids, files, posters, uploaded, history>>
  BY DEF StartUpdates, Ours
<1>2. ASSUME NEW t \in Torrent
      PROVE  LET s == [t EXCEPT !.status = "downloading", !.deleted = FALSE] IN
               s \in Torrent /\ s.id = t.id /\ s.poster = t.poster /\ s.creator = t.creator
  BY DEF Torrent, Status
<1>3. CASE /\ torrent # NoRow
           /\ torrent' = [torrent EXCEPT !.status = "downloading", !.deleted = FALSE]
           /\ plan' = IF plan = NoRow THEN NoRow
                      ELSE [plan EXCEPT !.status = "downloading", !.deleted = FALSE]
           /\ Changes({}, NotTold(call[k].by))
           /\ call' = [Overtaken("torrent") EXCEPT ![k].step = "files"]
  <2>1. Advances(k, "files") /\ Noticed("torrent")
    BY <1>1, <1>3, GoneAfterWrite DEF Advances, Steps
  <2>2. CallsTyped'
    BY <1>1, <2>1, IdsStay, AdvanceTyped DEF Steps
  <2>3. /\ torrent' \in Torrent /\ torrent'.id = torrent.id /\ torrent'.poster = torrent.poster
        /\ torrent'.creator = torrent.creator
    BY <1>2, <1>3 DEF RowsTyped
  <2>4. plan' = NoRow \/ plan' \in Torrent
    BY <1>2, <1>3 DEF RowsTyped
  <2>5. RowsTyped'
    BY <1>1, <1>3, <2>3, <2>4 DEF RowsTyped, history
  <2>6. ListTyped'
    BY <1>3, ChangesList
  <2> QED BY <1>1, <1>3, <2>1, <2>2, <2>3, <2>5, <2>6, AccountsStay, NoneAssumption DEF Counts
<1>4. CASE UNCHANGED <<torrent, plan, listVars>> /\ Goes(k, "files")
  <2>1. Advances(k, "files")
    BY <1>1, <1>4, Gone DEF Advances, Steps
  <2>2. CallsTyped'
    BY <1>1, <2>1, IdsStay, AdvanceTyped DEF Steps
  <2>3. RowsTyped'
    BY <1>1, <1>4 DEF RowsTyped, history
  <2> QED BY <1>1, <1>4, <2>1, <2>2, <2>3, AccountsStay, ListStays DEF Counts
<1> QED BY <1>3, <1>4 DEF StartUpdates

LEMMA StartFilesTyped ==
  ASSUME Typed, UNCHANGED list, NEW k \in Calls, StartFiles(k)
  PROVE  Typed' /\ Finishes(k)
<1> USE DEF Typed
<1>1. call[k] # Idle /\ call[k].op = "start" /\ call[k].step = "files"
  BY DEF StartFiles, Ours
<1>2. call[k].base.id \in 1 .. ids
  BY <1>1, RowRequest
<1>3. UNCHANGED <<accounts, calls, faults, torrent, ids, posters, uploaded, plan, spoilt, stripped>>
  BY DEF StartFiles
<1>4. Finishes(k)
  BY Ended DEF StartFiles, Finishes
<1>5. CallsTyped'
  BY <1>3, <1>4, IdsStay, FinishTyped
<1>6. files' \subseteq 1 .. ids /\ leftover' \subseteq 1 .. ids
  BY <1>2 DEF StartFiles, RowsTyped
<1>7. RowsTyped'
  BY <1>3, <1>6 DEF RowsTyped
<1>8. ListTyped'
  BY TellsList DEF StartFiles
<1> QED BY <1>3, <1>4, <1>5, <1>7, <1>8, AccountsStay DEF Counts

\* The row takes the column that was asked for, and the rest from what was read.
LEMMA SavedRow ==
  ASSUME Typed, NEW k \in Calls, call[k] # Idle, call[k].op = "visibility"
  PROVE  /\ Saved(k) \in Torrent
         /\ Saved(k).id = call[k].base.id /\ Saved(k).poster = call[k].base.poster
         /\ Saved(k).creator = call[k].base.creator
         /\ Saved(k) = [call[k].base EXCEPT !["visibility"] = call[k].value]
<1>1. /\ call[k].base \in Torrent /\ call[k].field = "visibility" /\ call[k].value \in Visibility
  BY RowRequest
<1> QED BY <1>1, ColumnChanged DEF Saved

LEMMA SetVisibilityTyped ==
  ASSUME Typed, UNCHANGED list, NEW k \in Calls, SetVisibility(k)
  PROVE  /\ Typed' /\ Finishes(k) /\ Noticed("torrent")
         /\ torrent' # NoRow /\ torrent'.poster = call[k].base.poster
         /\ torrent'.id = IF torrent = NoRow THEN call[k].base.id ELSE torrent.id
<1> USE DEF Typed
<1>1. call[k] # Idle /\ call[k].op = "visibility"
  BY DEF SetVisibility, Ours
<1>2. /\ call[k].on = "torrent" /\ call[k].value \in Visibility
      /\ call[k].base.id \in 1 .. ids
  BY <1>1, RowRequest
<1>3. UNCHANGED <<accounts, calls, faults, ids, files, posters, uploaded, stripped, leftover>>
  BY DEF SetVisibility
<1>4. Finishes(k) /\ Noticed("torrent")
  BY <1>2, EndedAfterWrite DEF Finishes, SetVisibility, ReturnAfterWrite
<1>5. CallsTyped'
  BY <1>3, <1>4, IdsStay, FinishTyped
<1>6. /\ torrent' \in Torrent /\ torrent'.poster = call[k].base.poster /\ torrent'.id <= ids
      /\ torrent'.id = IF torrent = NoRow THEN call[k].base.id ELSE torrent.id
  <2>1. CASE torrent = NoRow
    BY <1>1, <1>2, <2>1, SavedRow DEF SetVisibility, RowsTyped
  <2>2. CASE torrent # NoRow
    <3>1. torrent \in Torrent /\ torrent.id \in 1 .. MaxIds /\ torrent.id <= ids
      BY <2>2 DEF RowsTyped, Torrent
    <3>2. torrent' = [Saved(k) EXCEPT !.id = torrent.id]
      BY <2>2 DEF SetVisibility
    <3>3. /\ [Saved(k) EXCEPT !.id = torrent.id] \in Torrent
          /\ [Saved(k) EXCEPT !.id = torrent.id].id = torrent.id
          /\ [Saved(k) EXCEPT !.id = torrent.id].poster = Saved(k).poster
      BY <1>1, <3>1, SavedRow DEF Torrent
    <3> QED BY <1>1, <2>2, <3>1, <3>2, <3>3, SavedRow
  <2> QED BY <2>1, <2>2
<1>7. plan' = NoRow \/ plan' \in Torrent
  <2>1. plan \in Torrent => [plan EXCEPT !["visibility"] = call[k].value] \in Torrent
    BY <1>2, ColumnChanged
  <2> QED BY <2>1 DEF SetVisibility, Planned, RowsTyped
<1>8. spoilt' \in BOOLEAN
  BY Zenon DEF SetVisibility
<1>9. RowsTyped'
  BY <1>3, <1>6, <1>7, <1>8 DEF RowsTyped
<1>10. ListTyped'
  BY ChangesList DEF SetVisibility, ChangesSilently
<1> QED BY <1>3, <1>4, <1>5, <1>6, <1>9, <1>10, AccountsStay, NoneAssumption DEF Counts

LEMMA UpdatePosterTyped ==
  ASSUME Typed, UNCHANGED list, NEW k \in Calls, UpdatePoster(k)
  PROVE  /\ Typed' /\ Finishes(k) /\ Noticed("torrent")
         /\ torrent # NoRow /\ torrent' # NoRow /\ torrent'.id = torrent.id
         /\ torrent'.poster = call[k].value /\ torrent'.creator = torrent.creator
         /\ torrent = plan => torrent' = plan'
<1> USE DEF Typed
<1>1. call[k] # Idle /\ call[k].op = "poster"
  BY DEF UpdatePoster, Ours
<1>2. /\ call[k].on = "torrent" /\ call[k].value \in Poster
  BY <1>1, RowRequest
<1>3. UNCHANGED <<accounts, calls, faults, ids, files, posters, uploaded, history>>
  BY DEF UpdatePoster
<1>4. Finishes(k) /\ Noticed("torrent")
  BY <1>2, EndedAfterWrite DEF Finishes, UpdatePoster, ReturnAfterWrite
<1>5. CallsTyped'
  BY <1>3, <1>4, IdsStay, FinishTyped
<1>6. torrent # NoRow /\ torrent \in Torrent
  BY DEF UpdatePoster, Shown, Mine, RowsTyped
<1>7. torrent' = [torrent EXCEPT !["poster"] = call[k].value]
  BY DEF UpdatePoster
<1>8. /\ torrent' \in Torrent /\ torrent'.id = torrent.id
      /\ torrent'.poster = call[k].value /\ torrent'.creator = torrent.creator
  <2>1. /\ [torrent EXCEPT !["poster"] = call[k].value] \in Torrent
        /\ [torrent EXCEPT !["poster"] = call[k].value].id = torrent.id
        /\ [torrent EXCEPT !["poster"] = call[k].value].creator = torrent.creator
        /\ [torrent EXCEPT !["poster"] = call[k].value].poster = call[k].value
    BY <1>2, <1>6, ColumnChanged
  <2> QED BY <1>7, <2>1
<1>9. plan' = NoRow \/ plan' \in Torrent
  <2>1. plan \in Torrent => [plan EXCEPT !["poster"] = call[k].value] \in Torrent
    BY <1>2, ColumnChanged
  <2> QED BY <2>1 DEF UpdatePoster, Planned, RowsTyped
<1>10. RowsTyped'
  BY <1>3, <1>6, <1>8, <1>9 DEF RowsTyped, history
<1>11. ListTyped'
  BY ChangesList DEF UpdatePoster, ChangesBy
<1>12. torrent = plan => torrent' = plan'
  BY <1>6, <1>7 DEF UpdatePoster, Planned
<1> QED BY <1>3, <1>4, <1>5, <1>6, <1>8, <1>10, <1>11, <1>12, AccountsStay, NoneAssumption
        DEF Counts

LEMMA RemovePosterTyped ==
  ASSUME Typed, UNCHANGED list, NEW k \in Calls, RemovePoster(k)
  PROVE  Typed' /\ Finishes(k)
<1> USE DEF Typed
<1>1. UNCHANGED <<accounts, calls, faults, torrent, ids, files, uploaded, plan, history, listVars>>
  BY DEF RemovePoster
<1>2. Finishes(k)
  BY Ended DEF RemovePoster, Finishes
<1>3. CallsTyped'
  BY <1>1, <1>2, IdsStay, FinishTyped
<1>4. RowsTyped'
  BY <1>1 DEF RowsTyped, history, RemovePoster
<1> QED BY <1>1, <1>2, <1>3, <1>4, AccountsStay, ListStays DEF Counts

\* A deletion, one table after the other.
LEMMA DeletingRequest ==
  ASSUME Typed, NEW k \in Calls, NEW step, Deleting(k, step)
  PROVE  /\ call[k] # Idle /\ call[k].op \in {"deleteTorrent", "deleteUser"}
         /\ call[k].base \in Torrent \cup {NoRow}
         /\ call[k].base # NoRow => call[k].base.id \in 1 .. ids
BY RowRequest DEF Deleting, Ours

LEMMA DeleteStepTyped ==
  ASSUME Typed, UNCHANGED list, NEW k \in Calls,
         \/ DeleteObjects(k)
         \/ DeleteFiles(k)
         \/ DeleteFilesFails(k)
  PROVE  /\ Typed' /\ UNCHANGED <<torrent, plan>>
         /\ DeleteObjects(k) => Advances(k, "files")
         /\ ~ DeleteObjects(k) => Advances(k, "rows")
<1> USE DEF Typed
<1>1. PICK step \in {"read", "files"} : Deleting(k, step)
  BY DEF DeleteObjects, DeleteFiles, DeleteFilesFails
<1>2. /\ call[k] # Idle /\ call[k].op \in {"deleteTorrent", "deleteUser"}
      /\ call[k].base # NoRow => call[k].base.id \in 1 .. ids
  BY <1>1, DeletingRequest
<1>3. UNCHANGED <<accounts, calls, torrent, ids, uploaded, plan, spoilt, listVars>>
  BY DEF DeleteObjects, DeleteFiles, DeleteFilesFails, history
<1>4. /\ DeleteObjects(k) => Advances(k, "files")
      /\ ~ DeleteObjects(k) => Advances(k, "rows")
  BY <1>2, Gone DEF DeleteObjects, DeleteFiles, DeleteFilesFails, Advances, Steps
<1>5. CallsTyped'
  BY <1>2, <1>3, <1>4, IdsStay, AdvanceTyped DEF Steps
<1>6. RowsTyped'
  <2>1. /\ posters' \subseteq posters /\ files' \subseteq files
        /\ stripped' \subseteq 1 .. ids /\ leftover' \subseteq 1 .. ids
    BY <1>2 DEF DeleteObjects, DeleteFiles, DeleteFilesFails, RowsTyped, history
  <2> QED BY <1>3, <2>1 DEF RowsTyped
<1>7. Counts'
  <2>1. UNCHANGED faults \/ Fault
    BY DEF DeleteObjects, DeleteFiles, DeleteFilesFails
  <2> QED BY <1>3, <2>1, FaultCounts DEF Counts
<1> QED BY <1>3, <1>4, <1>5, <1>6, <1>7, AccountsStay, ListStays

LEMMA DeleteRowTyped ==
  ASSUME Typed, NEW k \in Calls, call[k] # Idle, call[k].op \in {"deleteTorrent", "deleteUser"},
         DeleteRow(k), UNCHANGED <<ids, files, posters, uploaded, spoilt, stripped>>
  PROVE  RowsTyped'
<1>1. torrent # NoRow => torrent.id \in 1 .. ids
  BY DEF Typed, RowsTyped, Torrent
<1>2. leftover' \subseteq 1 .. ids
  BY <1>1 DEF DeleteRow, Doomed, Typed, RowsTyped
<1>3. /\ torrent' = NoRow \/ torrent' = torrent
      /\ plan' = NoRow \/ plan' = plan
  BY DEF DeleteRow
<1> QED BY <1>2, <1>3 DEF Typed, RowsTyped

LEMMA DeleteTorrentRowTyped ==
  ASSUME Typed, UNCHANGED list, NEW k \in Calls, DeleteTorrentRow(k)
  PROVE  Typed' /\ Finishes(k) /\ Noticed("torrent")
<1> USE DEF Typed
<1>1. call[k] # Idle /\ call[k].op = "deleteTorrent"
  BY DEF DeleteTorrentRow, Ours
<1>2. call[k].on = "torrent"
  BY <1>1, RowRequest
<1>3. UNCHANGED <<accounts, calls, faults, ids, files, posters, uploaded, spoilt, stripped>>
  BY DEF DeleteTorrentRow
<1>4. Finishes(k) /\ Noticed("torrent")
  BY <1>2, EndedAfterWrite DEF Finishes, DeleteTorrentRow, ReturnAfterWrite
<1>5. CallsTyped'
  BY <1>3, <1>4, IdsStay, FinishTyped
<1>6. RowsTyped'
  BY <1>1, <1>3, DeleteRowTyped DEF DeleteTorrentRow
<1>7. ListTyped'
  BY ChangesList DEF DeleteTorrentRow
<1> QED BY <1>3, <1>4, <1>5, <1>6, <1>7, AccountsStay DEF Counts

LEMMA DeleteTorrentRowsTyped ==
  ASSUME Typed, UNCHANGED list, NEW k \in Calls, DeleteTorrentRows(k)
  PROVE  Typed' /\ Advances(k, "user") /\ Noticed("torrent")
<1> USE DEF Typed
<1>1. call[k] # Idle /\ call[k].op = "deleteUser"
  BY DEF DeleteTorrentRows, Ours
<1>2. UNCHANGED <<accounts, calls, faults, ids, files, posters, uploaded, spoilt, stripped>>
  BY DEF DeleteTorrentRows
<1>3. Advances(k, "user") /\ Noticed("torrent")
  BY <1>1, GoneAfterWrite DEF Advances, DeleteTorrentRows, Steps
<1>4. CallsTyped'
  BY <1>1, <1>2, <1>3, IdsStay, AdvanceTyped DEF Steps
<1>5. RowsTyped'
  BY <1>1, <1>2, DeleteRowTyped DEF DeleteTorrentRows
<1>6. ListTyped'
  BY ChangesList DEF DeleteTorrentRows
<1> QED BY <1>2, <1>3, <1>4, <1>5, <1>6, AccountsStay DEF Counts

LEMMA DeleteUserTyped ==
  ASSUME Typed, UNCHANGED list, NEW k \in Calls, DeleteUser(k)
  PROVE  /\ Typed' /\ AccountWritten(k, call[k].on) /\ UNCHANGED clobbered
         /\ account'[call[k].on] = intended'[call[k].on]
<1> USE DEF Typed
<1>1. PICK u \in Users \ {Root} : u = call[k].on
  BY RowRequest DEF DeleteUser, Ours
<1>2. /\ account' = [account EXCEPT ![u] = NoRow]
      /\ intended' = [intended EXCEPT ![u] = NoRow]
      /\ call' = [Overtaken(u) EXCEPT ![k] = Idle]
      /\ UNCHANGED <<tokens, calls, faults, clobbered, rowVars>>
  BY <1>1 DEF DeleteUser, DropAccount
<1>3. AccountsTyped'
  BY <1>2, AccountsAssumption DEF AccountsTyped
<1>4. AccountWritten(k, u)
  BY <1>2, EndedAfterWrite DEF AccountWritten, AccountsTyped
<1>5. account'[u] = intended'[u]
  BY <1>2 DEF AccountsTyped
<1>6. RowsTyped' /\ UNCHANGED ids
  BY <1>2, RowsStay DEF rowVars
<1>7. CallsTyped'
  BY <1>4, <1>6, IdsStay, EndsTyped DEF AccountWritten
<1>8. ListTyped'
  BY TellsList DEF DeleteUser
<1> QED BY <1>1, <1>2, <1>3, <1>4, <1>5, <1>6, <1>7, <1>8 DEF Counts

LEMMA CallFailsTyped ==
  ASSUME Typed, UNCHANGED list, NEW k \in Calls, CallFails(k)
  PROVE  Typed' /\ Finishes(k)
<1> USE DEF Typed
<1>1. UNCHANGED <<accounts, calls, torrent, ids, files, uploaded, plan, history, cached, dropping>>
  BY DEF CallFails
<1>2. Finishes(k)
  BY Ended DEF CallFails, Finishes
<1>3. CallsTyped'
  BY <1>1, <1>2, IdsStay, FinishTyped
<1>4. RowsTyped'
  BY <1>1 DEF RowsTyped, history, CallFails
<1>5. ListTyped'
  <2>1. excused' \in BOOLEAN
    BY Zenon DEF CallFails
  <2>2. loading' = Miss \/ loading' \in CachedRow
    <3>1. loading \in CachedRow => [loading EXCEPT !.excused = TRUE] \in CachedRow
      BY DEF CachedRow
    <3> QED BY <3>1 DEF CallFails, ListTyped
  <2> QED BY <1>1, <2>1, <2>2 DEF ListTyped
<1>6. Counts'
  BY <1>1, FaultCounts DEF CallFails
<1> QED BY <1>1, <1>2, <1>3, <1>4, <1>5, <1>6, AccountsStay

LEMMA RestartTyped ==
  ASSUME Typed, UNCHANGED list, Restart
  PROVE  /\ Typed' /\ UNCHANGED <<rowVars, cached, clobbered>>
         /\ \A k \in Calls : call'[k] = Idle
         /\ \A u \in Users : account[u] = intended[u] => account'[u] = intended'[u]
<1> USE DEF Typed
<1>1. /\ call' = [k \in Calls |-> Idle]
      /\ loading' = Miss /\ dropping' = FALSE
      /\ UNCHANGED <<tokens, calls, clobbered, rowVars, cached>>
  BY DEF Restart
<1>2. CallsTyped' /\ \A k \in Calls : call'[k] = Idle
  BY <1>1 DEF CallsTyped
<1>3. ASSUME NEW r \in Account
      PROVE  LET s == [r EXCEPT !.role = "admin", !.super = TRUE] IN s \in Account /\ s.super
  BY DEF Account, Roles
<1>4. Root \in Users /\ account[Root] \in Account /\ intended[Root] \in Account
  BY AccountsAssumption DEF AccountsTyped
<1>5. PICK a \in Account, i \in Account :
        /\ a = [account[Root] EXCEPT !.role = "admin", !.super = TRUE]
        /\ i = [intended[Root] EXCEPT !.role = "admin", !.super = TRUE]
        /\ a.super
  BY <1>3, <1>4
<1>6. account' = [account EXCEPT ![Root] = a] /\ intended' = [intended EXCEPT ![Root] = i]
  BY <1>5 DEF Restart, RestoreRoot
<1>7. AccountsTyped'
  BY <1>1, <1>4, <1>5, <1>6, NoneAssumption DEF AccountsTyped
<1>8. ListTyped'
  <2>1. excused' \in BOOLEAN
    BY Zenon DEF Restart
  <2> QED BY <1>1, <2>1 DEF ListTyped
<1>9. Counts'
  BY <1>1, FaultCounts DEF Restart
<1>10. \A u \in Users : account[u] = intended[u] => account'[u] = intended'[u]
  BY <1>4, <1>5, <1>6 DEF AccountsTyped
<1> QED BY <1>1, <1>2, <1>7, <1>8, <1>9, <1>10, RowsStay

\* The cached list.
LEMMA QueryTyped == ASSUME Typed PROVE Query \in Torrent \cup {NoRow}
BY DEF Query, Typed, RowsTyped

LEMMA ListStepTyped ==
  ASSUME Typed, UNCHANGED list, ListStep \/ ListFails
  PROVE  Typed' /\ UNCHANGED <<accounts, call, rowVars>>
<1> USE DEF Typed
<1>1. UNCHANGED <<accounts, call, calls, rowVars, list>>
  BY DEF ListStep, ListFails, accountVars, accounts
<1>2. CallsTyped'
  BY <1>1 DEF CallsTyped, rowVars
<1>3. Counts'
  BY <1>1, FaultCounts DEF ListStep, ListFails, accountVars, Counts
<1>4. ASSUME loading \in CachedRow
      PROVE  [loading EXCEPT !.excused = @ \/ loading.old] \in CachedRow
  <2>1. PICK b \in BOOLEAN : b = (loading.excused \/ loading.old)
    BY Zenon
  <2>2. [loading EXCEPT !.excused = b] \in CachedRow
    BY <1>4 DEF CachedRow
  <2> QED BY <2>1, <2>2
<1>5. ListTyped'
  <2>1. CASE Load
    <3>1. [shows |-> Query, old |-> FALSE, excused |-> FALSE] \in CachedRow
      BY QueryTyped DEF CachedRow
    <3> QED BY <1>1, <2>1, <3>1 DEF Load, ListTyped
  <2>2. CASE Store
    <3>1. loading.shows \in Torrent \cup {NoRow} /\ loading.excused \in BOOLEAN
      BY <2>2 DEF Store, ListTyped, CachedRow
    <3> QED BY <1>1, <2>2, <3>1 DEF Store, ListTyped
  <2>3. CASE Drop \/ DropFails
    BY <1>1, <1>4, <2>3 DEF Drop, DropFails, ListTyped
  <2>4. CASE Expire \/ StoreFails
    BY <1>1, <2>4 DEF Expire, StoreFails, ListTyped
  <2> QED BY <2>1, <2>2, <2>3, <2>4 DEF ListStep, ListFails
<1> QED BY <1>1, <1>2, <1>3, <1>5, AccountsStay, RowsStay

LEMMA TypedInit == ASSUME Init PROVE Typed
<1> USE DEF Init, AccountsInit, RowsInit
<1>1. AccountsTyped
  <2>1. PICK n \in Nicknames :
           account = [u \in Users |-> IF u = Root THEN NewAccount(n, "admin") ELSE NoRow]
    OBVIOUS
  <2>2. NewAccount(n, "admin") \in Account /\ NewAccount(n, "admin").super
    BY DEF NewAccount, Account, Roles, Passwords
  <2> QED BY <2>1, <2>2, AccountsAssumption, NoneAssumption DEF AccountsTyped, Roles
<1>2. CallsTyped
  BY DEF CallsTyped
<1>3. RowsTyped
  <2>1. 0 \in 0 .. MaxIds /\ 0 \in 0 .. MaxPosters
    BY TorrentRowsAssumption
  <2> QED BY <2>1 DEF RowsTyped
<1>4. ListTyped
  BY TorrentRowsAssumption DEF ListTyped, Lists
<1>5. Counts
  BY AccountsAssumption DEF Counts
<1> QED BY <1>1, <1>2, <1>3, <1>4, <1>5 DEF Typed

LEMMA TypedStutters == ASSUME Typed, UNCHANGED vars PROVE Typed'
<1> USE DEF Typed, vars, accountVars
<1>1. CallsTyped' /\ Counts'
  BY DEF CallsTyped, Counts, rowVars
<1> QED BY <1>1, AccountsStay, RowsStay, ListStays DEF accounts

LEMMA TypedNext == ASSUME Typed, Next PROVE Typed'
<1>1. UNCHANGED list
  BY DEF Next
<1>2. CASE AccountsNext /\ UNCHANGED <<rowVars, listVars>>
  <2>1. StillRows
    BY <1>1, <1>2 DEF StillRows
  <2> QED BY <1>2, <2>1, LoginTyped, AccountRequestOpens, RegisterTyped, SaveTyped DEF AccountsNext
<1>3. CASE RowsNext
  <2>1. CASE InstantStep
    BY <1>1, <2>1, InstantTyped
  <2>2. ASSUME NEW k \in Calls,
               \/ \E u \in Users :
                    \/ BeginStart(k, u) \/ BeginDeleteTorrent(k, u)
                    \/ \E v \in Visibility : BeginSetVisibility(k, u, v)
                    \/ \E a \in Users : BeginDeleteUser(k, a, u)
               \/ \E u \in Users : BeginPoster(k, u)
        PROVE  Typed'
    BY <1>1, <2>2, RowRequestOpens, BeginPosterTyped
  <2>3. ASSUME NEW k \in Calls, Starts(k) PROVE Typed'
    BY <1>1, <2>3, StartCreatesTyped, StartUpdatesTyped, StartFilesTyped DEF Starts
  <2>4. ASSUME NEW k \in Calls, SetVisibility(k) \/ UpdatePoster(k) \/ RemovePoster(k)
        PROVE  Typed'
    BY <1>1, <2>4, SetVisibilityTyped, UpdatePosterTyped, RemovePosterTyped
  <2>5. ASSUME NEW k \in Calls, Deletes(k) PROVE Typed'
    BY <1>1, <2>5, DeleteStepTyped, DeleteTorrentRowTyped, DeleteTorrentRowsTyped, DeleteUserTyped
    DEF Deletes
  <2>6. ASSUME NEW k \in Calls, CallFails(k) PROVE Typed'
    BY <1>1, <2>6, CallFailsTyped
  <2>7. CASE Restart
    BY <1>1, <2>7, RestartTyped
  <2> QED BY <1>3, <2>1, <2>2, <2>3, <2>4, <2>5, <2>6, <2>7 DEF RowsNext, InstantStep
<1>4. CASE ListStep \/ ListFails
  BY <1>1, <1>4, ListStepTyped
<1> QED BY <1>2, <1>3, <1>4 DEF Next

-----------------------------------------------------------------------------
(* What was answered *)

\* A request that nobody has overtaken holds the row as it is.
Reads ==
  \A k \in Calls : call[k] # Idle /\ ~ call[k].stale =>
    /\ call[k].op = "save" => call[k].base = account[call[k].on]
    /\ call[k].op = "visibility" => call[k].base = torrent

\* The request of k, if there is one afterwards, is the one there was.
Keeps(k) == call'[k] = Idle \/ (call[k] # Idle /\ Held(call[k], call'[k]))

LEMMA StaysKeeps == ASSUME NEW k \in Calls, Stays(k) PROVE Keeps(k)
BY DEF Stays, Keeps

LEMMA FinishKeeps == ASSUME NEW k \in Calls, Finishes(k) PROVE \A j \in Calls : Keeps(j)
BY StaysKeeps DEF Finishes, OthersStay, Keeps

LEMMA WrittenKeeps ==
  ASSUME NEW k \in Calls, Unwritten(k) \/ \E u : AccountWritten(k, u)
  PROVE  \A j \in Calls : Keeps(j)
BY StaysKeeps DEF Unwritten, AccountWritten, OthersStay, Keeps

LEMMA AdvanceKeeps ==
  ASSUME NEW k \in Calls, call[k] # Idle, NEW step, Advances(k, step)
  PROVE  \A j \in Calls : Keeps(j)
BY StaysKeeps DEF Advances, OthersStay, Keeps

RowNoticed == UNCHANGED torrent \/ Noticed("torrent")
AccountsNoticed == \A u \in Users : account'[u] = account[u] \/ Noticed(u)

LEMMA ReadsOfKept ==
  ASSUME Typed, Reads, RowNoticed, AccountsNoticed, NEW k \in Calls, Keeps(k),
         call'[k] # Idle, ~ call'[k].stale
  PROVE  /\ call'[k].op = "save" => call'[k].base = account'[call'[k].on]
         /\ call'[k].op = "visibility" => call'[k].base = torrent'
<1>1. /\ call[k] # Idle /\ ~ call[k].stale
      /\ call'[k].op = call[k].op /\ call'[k].on = call[k].on /\ call'[k].base = call[k].base
  BY DEF Keeps, Held
<1>2. /\ call[k].op = "save" => call[k].on \in Users
      /\ call[k].op = "visibility" => call[k].on = "torrent"
  BY <1>1 DEF Typed, CallsTyped, Shape
<1>3. /\ call[k].op = "save" => account'[call[k].on] = account[call[k].on]
      /\ call[k].op = "visibility" => torrent' = torrent
  BY <1>1, <1>2 DEF RowNoticed, AccountsNoticed, Noticed
<1> QED BY <1>1, <1>3 DEF Reads

LEMMA ReadsKept ==
  ASSUME Typed, Reads, RowNoticed, AccountsNoticed, \A k \in Calls : Keeps(k)
  PROVE  Reads'
BY ReadsOfKept DEF Reads

LEMMA ReadsOpened ==
  ASSUME Typed, Reads, UNCHANGED <<account, torrent>>, NEW k \in Calls, NEW c \in Call, Begin(k, c),
         c.op = "save" => c.base = account[c.on],
         c.op = "visibility" => c.base = torrent
  PROVE  Reads'
<1>1. OthersStay(k) /\ call'[k] = c
  BY Opened DEF Typed
<1>2. \A j \in Calls \ {k} : Keeps(j)
  BY <1>1, StaysKeeps DEF OthersStay
<1>3. RowNoticed /\ AccountsNoticed
  BY DEF RowNoticed, AccountsNoticed
<1> QED BY <1>1, <1>2, <1>3, ReadsOfKept DEF Reads

Answered == Reads /\ AnswersKept

LEMMA AnsweredAccounts ==
  ASSUME Typed, Answered, StillRows, AccountsNext
  PROVE  Answered'
<1>1. UNCHANGED <<torrent, plan, spoilt>>
  BY DEF StillRows, rowVars
<1>2. (torrent # plan => spoilt)'
  BY <1>1 DEF Answered, AnswersKept
<1>3. RowNoticed
  BY <1>1 DEF RowNoticed
<1>4. ASSUME NEW u \in Users, Login(u) PROVE Answered'
  <2>1. UNCHANGED <<account, call, intended, clobbered, torrent, plan, spoilt>>
    BY <1>1, <1>4 DEF Login
  <2> QED BY <2>1 DEF Answered, AnswersKept, Reads
<1>5. ASSUME NEW k \in Calls, NEW u \in Users,
             \/ \E n \in Nicknames : BeginRegister(k, u, n) \/ UpdateProfile(k, u, n)
             \/ \E old, new \in Passwords : ChangePassword(k, u, old, new)
             \/ \E a \in Users, role \in Roles : UpdateUserRole(k, a, u, role)
      PROVE  Answered'
  <2>1. PICK c \in Call : /\ Begin(k, c)
                          /\ c.op = "register" \/ (c.op = "save" /\ c.on = u /\ c.base = account[u])
    BY <1>5, AccountRequestOpens
  <2>2. UNCHANGED accounts
    BY <1>5, AccountRequestOpens
  <2>3. Reads'
    BY <1>1, <2>1, <2>2, ReadsOpened DEF Answered, accounts
  <2> QED BY <1>1, <2>2, <2>3 DEF Answered, AnswersKept, accounts
<1>6. ASSUME NEW k \in Calls, Unwritten(k) PROVE Answered'
  <2>1. Reads'
    BY <1>3, <1>6, WrittenKeeps, ReadsKept DEF Answered, Unwritten, AccountsNoticed
  <2> QED BY <1>1, <1>6, <2>1 DEF Answered, AnswersKept, Unwritten
<1>7. ASSUME NEW k \in Calls, NEW u \in Users, AccountWritten(k, u),
             account'[u] = intended'[u] \/ u \in clobbered',
             clobbered \subseteq clobbered'
      PROVE  Answered'
  <2>1. AccountsNoticed
    BY <1>7 DEF AccountWritten, AccountsNoticed
  <2>2. Reads'
    BY <1>3, <1>7, <2>1, WrittenKeeps, ReadsKept DEF Answered
  <2>3. \A v \in Users : account'[v] # intended'[v] => v \in clobbered'
    BY <1>7 DEF AccountWritten, Answered, AnswersKept
  <2> QED BY <1>2, <2>2, <2>3 DEF Answered, AnswersKept
<1>8. ASSUME NEW k \in Calls, Register(k) PROVE Answered'
  <2>1. call[k].on \in Users
    BY <1>8 DEF Register, Typed, CallsTyped, Shape
  <2> QED BY <1>6, <1>7, <1>8, <2>1, RegisterTyped
<1>9. ASSUME NEW k \in Calls, Save(k) PROVE Answered'
  <2>1. call[k] # Idle /\ call[k].op = "save" /\ call[k].on \in Users
    BY <1>9 DEF Save, Typed, CallsTyped, Shape
  <2>2. CASE Unwritten(k)
    BY <1>6, <2>2
  <2>3. CASE /\ AccountWritten(k, call[k].on)
             /\ call[k].stale => clobbered' = clobbered \cup {call[k].on}
             /\ ~ call[k].stale => UNCHANGED clobbered
             /\ intended[call[k].on] = call[k].base
                  => account'[call[k].on] = intended'[call[k].on]
    <3>1. account'[call[k].on] = intended'[call[k].on] \/ call[k].on \in clobbered'
      BY <2>1, <2>3 DEF Answered, Reads, AnswersKept
    <3>2. clobbered \subseteq clobbered'
      BY <2>3
    <3> QED BY <1>7, <2>1, <2>3, <3>1, <3>2
  <2> QED BY <1>9, <2>2, <2>3, SaveTyped
<1> QED BY <1>4, <1>5, <1>8, <1>9 DEF AccountsNext

LEMMA AnsweredRows ==
  ASSUME Typed, Answered, UNCHANGED list, RowsNext
  PROVE  Answered'
<1>1. ASSUME UNCHANGED <<account, intended, clobbered>>, RowNoticed, \A k \in Calls : Keeps(k),
             torrent' # plan' => spoilt'
      PROVE  Answered'
  BY <1>1, ReadsKept DEF Answered, AnswersKept, AccountsNoticed
<1>2. CASE InstantStep
  <2>1. UNCHANGED <<account, intended, clobbered, spoilt>>
    BY <1>2, InstantTyped DEF accounts, history
  <2>2. (\A k \in Calls : Keeps(k)) /\ RowNoticed
    BY <1>2, InstantTyped, StaysKeeps DEF RowNoticed
  <2>3. torrent' # plan' => spoilt'
    BY <1>2, <2>1, InstantTyped DEF Answered, AnswersKept
  <2> QED BY <1>1, <2>1, <2>2, <2>3
<1>3. ASSUME NEW k \in Calls, NEW c \in Call, Begin(k, c),
             UNCHANGED <<accounts, torrent, plan, spoilt>>,
             c.op # "save", c.op = "visibility" => c.base = torrent
      PROVE  Answered'
  <2>1. UNCHANGED <<account, intended, clobbered>>
    BY <1>3 DEF accounts
  <2>2. Reads'
    BY <1>3, <2>1, ReadsOpened DEF Answered
  <2> QED BY <1>3, <2>1, <2>2 DEF Answered, AnswersKept
<1>4. ASSUME NEW k \in Calls, NEW u \in Users,
             \/ BeginStart(k, u) \/ BeginDeleteTorrent(k, u)
             \/ \E v \in Visibility : BeginSetVisibility(k, u, v)
             \/ \E a \in Users : BeginDeleteUser(k, a, u)
      PROVE  Answered'
  <2>1. UNCHANGED <<accounts, torrent, plan, spoilt>>
    BY <1>4, RowRequestOpens DEF rowVars
  <2>2. PICK c \in Call : /\ Begin(k, c) /\ c.op # "save"
                          /\ c.op = "visibility" => c.base = torrent
    BY <1>4, RowRequestOpens
  <2> QED BY <1>3, <2>1, <2>2
<1>5. ASSUME NEW k \in Calls, NEW u \in Users, BeginPoster(k, u) PROVE Answered'
  <2>1. UNCHANGED <<accounts, torrent, plan, spoilt>>
    BY <1>5, BeginPosterTyped DEF history
  <2>2. PICK c \in Call : Begin(k, c) /\ c.op = "poster"
    BY <1>5, BeginPosterTyped
  <2> QED BY <1>3, <2>1, <2>2
<1>6. ASSUME NEW k \in Calls, StartCreates(k) PROVE Answered'
  <2>1. UNCHANGED <<account, intended, clobbered>>
    BY <1>6 DEF StartCreates, accounts
  <2>2. (\A j \in Calls : Keeps(j)) /\ RowNoticed
    BY <1>6, StartCreatesTyped, FinishKeeps DEF RowNoticed
  <2>3. torrent' # plan' => spoilt'
    BY <1>6 DEF StartCreates, Answered, AnswersKept
  <2> QED BY <1>1, <2>1, <2>2, <2>3
<1>7. ASSUME NEW k \in Calls, StartUpdates(k) PROVE Answered'
  <2>1. UNCHANGED <<account, intended, clobbered, spoilt>> /\ call[k] # Idle
    BY <1>7 DEF StartUpdates, accounts, history, Ours
  <2>2. (\A j \in Calls : Keeps(j)) /\ RowNoticed
    BY <1>7, <2>1, StartUpdatesTyped, AdvanceKeeps DEF RowNoticed
  <2>3. torrent' # plan' => spoilt'
    BY <1>7, <2>1, StartUpdatesTyped DEF Answered, AnswersKept
  <2> QED BY <1>1, <2>1, <2>2, <2>3
<1>8. ASSUME NEW k \in Calls, StartFiles(k) \/ RemovePoster(k) \/ CallFails(k) PROVE Answered'
  <2>1. UNCHANGED <<account, intended, clobbered, torrent, plan, spoilt>>
    BY <1>8 DEF StartFiles, RemovePoster, CallFails, accounts, history
  <2>2. \A j \in Calls : Keeps(j)
    BY <1>8, StartFilesTyped, RemovePosterTyped, CallFailsTyped, FinishKeeps
  <2> QED BY <1>1, <2>1, <2>2 DEF RowNoticed, Answered, AnswersKept
<1>9. ASSUME NEW k \in Calls, SetVisibility(k) PROVE Answered'
  <2>1. /\ UNCHANGED <<account, intended, clobbered>> /\ spoilt' = (spoilt \/ call[k].stale)
        /\ call[k] # Idle /\ call[k].op = "visibility"
    BY <1>9 DEF SetVisibility, accounts, Ours
  <2>2. (\A j \in Calls : Keeps(j)) /\ RowNoticed
    BY <1>9, SetVisibilityTyped, FinishKeeps DEF RowNoticed
  <2>3. ASSUME ~ spoilt, ~ call[k].stale PROVE torrent' = plan'
    <3>1. call[k].base = torrent /\ torrent = plan /\ torrent # NoRow /\ torrent \in Torrent
      BY <2>1, <2>3, RowRequest, NoneAssumption DEF Answered, Reads, AnswersKept
    <3>2. PICK t \in Torrent : /\ t = [torrent EXCEPT !["visibility"] = call[k].value]
                               /\ t.id = torrent.id /\ t = Saved(k)
      BY <2>1, <3>1, SavedRow
    <3>3. torrent' = [t EXCEPT !.id = t.id] /\ plan' = t
      BY <1>9, <3>1, <3>2 DEF SetVisibility, Planned
    <3> QED BY <3>2, <3>3 DEF Torrent
  <2> QED BY <1>1, <2>1, <2>2, <2>3
<1>10. ASSUME NEW k \in Calls, UpdatePoster(k) PROVE Answered'
  <2>1. UNCHANGED <<account, intended, clobbered, spoilt>>
    BY <1>10 DEF UpdatePoster, accounts, history
  <2>2. (\A j \in Calls : Keeps(j)) /\ RowNoticed
    BY <1>10, UpdatePosterTyped, FinishKeeps DEF RowNoticed
  <2> QED BY <1>1, <1>10, <2>1, <2>2, UpdatePosterTyped DEF Answered, AnswersKept
<1>11. ASSUME NEW k \in Calls, DeleteObjects(k) \/ DeleteFiles(k) \/ DeleteFilesFails(k)
       PROVE  Answered'
  <2>1. /\ UNCHANGED <<account, intended, clobbered, torrent, plan, spoilt>> /\ call[k] # Idle
    BY <1>11 DEF DeleteObjects, DeleteFiles, DeleteFilesFails, accounts, history, Deleting, Ours
  <2>2. \A j \in Calls : Keeps(j)
    BY <1>11, <2>1, DeleteStepTyped, AdvanceKeeps
  <2> QED BY <1>1, <2>1, <2>2 DEF RowNoticed, Answered, AnswersKept
<1>12. ASSUME NEW k \in Calls, DeleteTorrentRow(k) \/ DeleteTorrentRows(k) PROVE Answered'
  <2>1. /\ UNCHANGED <<account, intended, clobbered, spoilt>> /\ call[k] # Idle /\ DeleteRow(k)
    BY <1>12 DEF DeleteTorrentRow, DeleteTorrentRows, accounts, Ours
  <2>2. (\A j \in Calls : Keeps(j)) /\ RowNoticed
    BY <1>12, <2>1, DeleteTorrentRowTyped, DeleteTorrentRowsTyped, FinishKeeps, AdvanceKeeps
    DEF RowNoticed
  <2>3. torrent' # plan' => spoilt'
    BY <2>1 DEF DeleteRow, Answered, AnswersKept
  <2> QED BY <1>1, <2>1, <2>2, <2>3
<1>13. ASSUME NEW k \in Calls, DeleteUser(k) PROVE Answered'
  <2>1. UNCHANGED <<torrent, plan, spoilt>>
    BY <1>13 DEF DeleteUser, rowVars
  <2>2. PICK u \in Users : /\ AccountWritten(k, u) /\ UNCHANGED clobbered
                           /\ account'[u] = intended'[u]
    BY <1>13, DeleteUserTyped, RowRequest DEF DeleteUser, Ours
  <2>3. RowNoticed /\ AccountsNoticed
    BY <2>1, <2>2 DEF RowNoticed, AccountsNoticed, AccountWritten
  <2>4. Reads'
    BY <2>2, <2>3, WrittenKeeps, ReadsKept DEF Answered
  <2> QED BY <2>1, <2>2, <2>4 DEF Answered, AnswersKept, AccountWritten
<1>14. CASE Restart
  <2>1. UNCHANGED <<torrent, plan, spoilt, clobbered>> /\ \A k \in Calls : call'[k] = Idle
    BY <1>14, RestartTyped DEF rowVars
  <2> QED BY <1>14, <2>1, RestartTyped DEF Answered, AnswersKept, Reads
<1> QED BY <1>2, <1>4, <1>5, <1>6, <1>7, <1>8, <1>9, <1>10, <1>11, <1>12, <1>13, <1>14
        DEF RowsNext, InstantStep, Starts, Deletes

LEMMA AnsweredNext == ASSUME Typed, Answered, [Next]_vars PROVE Answered'
<1>1. CASE UNCHANGED vars
  BY <1>1 DEF vars, accountVars, rowVars, Answered, AnswersKept, Reads
<1>2. CASE Next
  <2>1. UNCHANGED list
    BY <1>2 DEF Next
  <2>2. CASE AccountsNext /\ UNCHANGED <<rowVars, listVars>>
    BY <2>1, <2>2, AnsweredAccounts DEF StillRows
  <2>3. CASE RowsNext
    BY <2>1, <2>3, AnsweredRows
  <2>4. CASE ListStep \/ ListFails
    <3>1. UNCHANGED <<account, call, intended, clobbered, torrent, plan, spoilt>>
      BY <2>1, <2>4, ListStepTyped DEF accounts, rowVars
    <3> QED BY <3>1 DEF Answered, AnswersKept, Reads
  <2> QED BY <1>2, <2>2, <2>3, <2>4 DEF Next
<1> QED BY <1>1, <1>2

\* What the steps about accounts, and those of the list, do to the requests.
LEMMA AccountCalls ==
  ASSUME Typed, StillRows, AccountsNext
  PROVE  \A j \in Calls : \/ Stays(j) \/ call'[j] = Idle
                          \/ call'[j].op \in {"register", "save"}
<1>1. ASSUME NEW u \in Users, Login(u) PROVE \A j \in Calls : Stays(j)
  BY <1>1, StayUnchanged DEF Login, Typed
<1>2. ASSUME NEW k \in Calls, NEW u \in Users,
             \/ \E n \in Nicknames : BeginRegister(k, u, n) \/ UpdateProfile(k, u, n)
             \/ \E old, new \in Passwords : ChangePassword(k, u, old, new)
             \/ \E a \in Users, role \in Roles : UpdateUserRole(k, a, u, role)
      PROVE  OthersStay(k) /\ call'[k].op \in {"register", "save"}
  <2>1. PICK c \in Call : Begin(k, c) /\ c.op \in {"register", "save"}
    BY <1>2, AccountRequestOpens
  <2> QED BY <2>1, Opened DEF Typed
<1>3. ASSUME NEW k \in Calls, Register(k) \/ Save(k) PROVE OthersStay(k) /\ call'[k] = Idle
  BY <1>3, RegisterTyped, SaveTyped DEF Unwritten, AccountWritten
<1> QED BY <1>1, <1>2, <1>3 DEF AccountsNext, OthersStay

\* Only the requests about accounts move.
LEMMA AccountKeepsOthers ==
  ASSUME Typed, StillRows, AccountsNext, NEW j \in Calls, call[j] # Idle,
         call[j].op \notin {"register", "save"}
  PROVE  Stays(j)
<1>1. ASSUME NEW u \in Users, Login(u) PROVE Stays(j)
  BY <1>1, StayUnchanged DEF Login, Typed
<1>2. ASSUME NEW k \in Calls, NEW u \in Users,
             \/ \E n \in Nicknames : BeginRegister(k, u, n) \/ UpdateProfile(k, u, n)
             \/ \E old, new \in Passwords : ChangePassword(k, u, old, new)
             \/ \E a \in Users, role \in Roles : UpdateUserRole(k, a, u, role)
      PROVE  Stays(j)
  <2>1. PICK c \in Call : Begin(k, c)
    BY <1>2, AccountRequestOpens
  <2>2. OthersStay(k) /\ call[k] = Idle
    BY <2>1, Opened DEF Typed
  <2> QED BY <2>2 DEF OthersStay
<1>3. ASSUME NEW k \in Calls, Register(k) \/ Save(k) PROVE Stays(j)
  <2>1. OthersStay(k) /\ call[k].op \in {"register", "save"}
    BY <1>3, RegisterTyped, SaveTyped DEF Register, Save, Unwritten, AccountWritten
  <2> QED BY <2>1 DEF OthersStay
<1> QED BY <1>1, <1>2, <1>3 DEF AccountsNext

-----------------------------------------------------------------------------
(* Files *)

\* Files are of the torrent, or left over; a deletion about to delete the row has left none.
FilesLeft ==
  /\ \A id \in files : (torrent = NoRow \/ torrent.id # id) => id \in leftover
  /\ \A k \in Calls : /\ Deleting(k, "rows") /\ call[k].base # NoRow
                      /\ call[k].base.id \in files
                      => call[k].base.id \in leftover

\* No request gets as far as the row.
NoneDeletes == \A k \in Calls : Stays(k) \/ ~ Deleting(k, "rows")'

LEMMA StaysDeleting ==
  ASSUME NEW k \in Calls, Stays(k), Deleting(k, "rows")'
  PROVE  Deleting(k, "rows") /\ call'[k].base = call[k].base
BY DEF Stays, Held, Deleting, Ours

LEMMA OneEnds ==
  ASSUME NEW k \in Calls, OthersStay(k), call'[k] = Idle \/ call'[k].step # "rows"
  PROVE  NoneDeletes
BY DEF NoneDeletes, OthersStay, Deleting, Ours

LEMMA FilesKept ==
  ASSUME FilesLeft, NoneDeletes, files' \subseteq files, leftover \subseteq leftover',
         torrent # NoRow => torrent' # NoRow /\ torrent'.id = torrent.id
  PROVE  FilesLeft'
<1>1. ASSUME NEW id \in files', torrent' = NoRow \/ torrent'.id # id PROVE id \in leftover'
  BY <1>1 DEF FilesLeft
<1>2. ASSUME NEW k \in Calls, Deleting(k, "rows")',
             call'[k].base # NoRow, call'[k].base.id \in files'
      PROVE  call'[k].base.id \in leftover'
  BY <1>2, StaysDeleting DEF FilesLeft, NoneDeletes
<1> QED BY <1>1, <1>2 DEF FilesLeft

LEMMA FilesDeleted ==
  ASSUME Typed, FilesLeft, UNCHANGED list, NEW k \in Calls, DeleteFiles(k) \/ DeleteFilesFails(k)
  PROVE  FilesLeft'
<1>1. UNCHANGED torrent /\ Deleting(k, "files")
  BY DEF DeleteFiles, DeleteFilesFails
<1>2. PICK base : base = call[k].base /\ (base # NoRow => base.id \in 1 .. ids)
  BY <1>1, DeletingRequest
<1>3. OthersStay(k) /\ call'[k].base = base
  <2>1. ~ DeleteObjects(k)
    BY <1>1 DEF DeleteObjects, Deleting, Ours
  <2> QED BY <1>2, <2>1, DeleteStepTyped DEF Advances, Held
<1>4. /\ files' \subseteq files /\ leftover \subseteq leftover'
      /\ base # NoRow /\ base.id \in files' => base.id \in leftover'
  BY <1>2 DEF DeleteFiles, DeleteFilesFails, history
<1>5. ASSUME NEW j \in Calls, Deleting(j, "rows")',
             call'[j].base # NoRow, call'[j].base.id \in files'
      PROVE  call'[j].base.id \in leftover'
  <2>1. CASE j = k
    BY <1>3, <1>4, <1>5, <2>1
  <2>2. CASE j # k
    BY <1>3, <1>4, <1>5, <2>2, StaysDeleting DEF OthersStay, FilesLeft
  <2> QED BY <2>1, <2>2
<1> QED BY <1>1, <1>4, <1>5 DEF FilesLeft

LEMMA RowDeleted ==
  ASSUME Typed, FilesLeft, NoneDeletes, NEW k \in Calls, Deleting(k, "rows"), DeleteRow(k),
         UNCHANGED files
  PROVE  FilesLeft'
<1>1. CASE ~ Doomed(k)
  BY <1>1, FilesKept DEF DeleteRow
<1>2. CASE Doomed(k)
  <2>1. torrent' = NoRow /\ leftover \subseteq leftover'
    BY <1>2 DEF DeleteRow
  <2>2. torrent.id \in files => torrent.id \in leftover'
    <3>1. CASE Unseen(k)
      BY <1>2, <3>1 DEF DeleteRow
    <3>2. CASE ~ Unseen(k)
      <4>1. call[k].base # NoRow /\ call[k].base.id = torrent.id
        BY <3>2 DEF Unseen
      <4> QED BY <2>1, <4>1 DEF FilesLeft
    <3> QED BY <3>1, <3>2
  <2>3. \A id \in files' : id \in leftover'
    BY <2>1, <2>2 DEF FilesLeft
  <2>4. torrent # NoRow
    BY <1>2 DEF Doomed
  <2>5. ASSUME NEW j \in Calls, Deleting(j, "rows")',
               call'[j].base # NoRow, call'[j].base.id \in files'
        PROVE  call'[j].base.id \in leftover'
    BY <2>3, <2>5
  <2> QED BY <2>3, <2>5 DEF FilesLeft
<1> QED BY <1>1, <1>2

LEMMA FilesStarted ==
  ASSUME Typed, FilesLeft, UNCHANGED list, NEW k \in Calls, StartFiles(k)
  PROVE  FilesLeft'
<1>1. PICK id : /\ id = call[k].base.id
                /\ files' = files \cup {id}
                /\ leftover' = IF Crosses(id) THEN leftover \cup {id} ELSE leftover
  BY DEF StartFiles
<1>2. UNCHANGED torrent
  BY DEF StartFiles
<1>3. NoneDeletes
  BY StartFilesTyped, OneEnds DEF Finishes
<1>4. ASSUME NEW i \in files', torrent' = NoRow \/ torrent'.id # i PROVE i \in leftover'
  <2>1. CASE i = id
    BY <1>1, <1>2, <1>4, <2>1 DEF Crosses
  <2>2. CASE i # id
    BY <1>1, <1>2, <1>4, <2>2 DEF FilesLeft
  <2> QED BY <2>1, <2>2
<1>5. ASSUME NEW j \in Calls, Deleting(j, "rows")',
             call'[j].base # NoRow, call'[j].base.id \in files'
      PROVE  call'[j].base.id \in leftover'
  <2>1. Deleting(j, "rows") /\ call'[j].base = call[j].base
    BY <1>3, <1>5, StaysDeleting DEF NoneDeletes
  <2>2. Crosses(id)
    BY <2>1 DEF Crosses, Deleting, Ours
  <2> QED BY <1>1, <1>5, <2>1, <2>2 DEF FilesLeft
<1> QED BY <1>4, <1>5 DEF FilesLeft

LEMMA FilesCreated ==
  ASSUME Typed, FilesLeft, UNCHANGED list, NEW k \in Calls, StartCreates(k)
  PROVE  FilesLeft'
<1>1. NoneDeletes
  BY StartCreatesTyped, OneEnds DEF Finishes
<1>2. CASE UNCHANGED <<torrent, files>>
  BY <1>1, <1>2, FilesKept DEF StartCreates
<1>3. CASE /\ torrent = NoRow /\ ids' = ids + 1 /\ torrent'.id = ids'
           /\ files' = files \cup {ids'} /\ UNCHANGED leftover
  <2>1. ASSUME NEW i \in files', torrent' = NoRow \/ torrent'.id # i PROVE i \in leftover'
    <3>1. torrent' # NoRow
      BY <1>3, StartCreatesTyped DEF Typed, RowsTyped
    <3> QED BY <1>3, <2>1, <3>1 DEF FilesLeft
  <2>2. ASSUME NEW j \in Calls, Deleting(j, "rows")',
               call'[j].base # NoRow, call'[j].base.id \in files'
        PROVE  call'[j].base.id \in leftover'
    <3>1. Deleting(j, "rows") /\ call'[j].base = call[j].base
      BY <1>1, <2>2, StaysDeleting DEF NoneDeletes
    <3>2. call[j].base.id \in 1 .. ids /\ ids \in Nat
      BY <2>2, <3>1, DeletingRequest DEF Typed, RowsTyped
    <3> QED BY <1>3, <2>2, <3>1, <3>2 DEF FilesLeft
  <2> QED BY <2>1, <2>2 DEF FilesLeft
<1> QED BY <1>2, <1>3 DEF StartCreates

\* A step that neither creates a row nor deletes one or its files.
LEMMA FilesRows ==
  ASSUME Typed, FilesLeft, UNCHANGED list, RowsNext
  PROVE  FilesLeft'
<1>1. CASE InstantStep
  BY <1>1, InstantTyped, FilesKept DEF NoneDeletes, history
<1>2. ASSUME NEW k \in Calls, NEW c \in Call, Begin(k, c), c.step = "read",
             UNCHANGED <<torrent, files, leftover>>
      PROVE  FilesLeft'
  <2>1. NoneDeletes
    BY <1>2, Opened, OneEnds DEF Typed
  <2> QED BY <1>2, <2>1, FilesKept
<1>3. ASSUME NEW k \in Calls, NEW u \in Users,
             \/ BeginStart(k, u) \/ BeginDeleteTorrent(k, u)
             \/ \E v \in Visibility : BeginSetVisibility(k, u, v)
             \/ \E a \in Users : BeginDeleteUser(k, a, u)
      PROVE  FilesLeft'
  BY <1>2, <1>3, RowRequestOpens DEF rowVars
<1>4. ASSUME NEW k \in Calls, NEW u \in Users, BeginPoster(k, u) PROVE FilesLeft'
  BY <1>2, <1>4, BeginPosterTyped DEF history
<1>5. ASSUME NEW k \in Calls, StartUpdates(k) PROVE FilesLeft'
  <2>1. NoneDeletes
    BY <1>5, StartUpdatesTyped, OneEnds DEF Advances
  <2>2. UNCHANGED <<files, leftover>>
    BY <1>5 DEF StartUpdates, history
  <2> QED BY <1>5, <2>1, <2>2, StartUpdatesTyped, FilesKept
<1>6. ASSUME NEW k \in Calls, SetVisibility(k) \/ UpdatePoster(k) PROVE FilesLeft'
  <2>1. NoneDeletes
    BY <1>6, SetVisibilityTyped, UpdatePosterTyped, OneEnds DEF Finishes
  <2>2. UNCHANGED <<files, leftover>>
    BY <1>6 DEF SetVisibility, UpdatePoster, history
  <2> QED BY <1>6, <2>1, <2>2, SetVisibilityTyped, UpdatePosterTyped, FilesKept
<1>7. ASSUME NEW k \in Calls, RemovePoster(k) \/ CallFails(k) PROVE FilesLeft'
  <2>1. NoneDeletes
    BY <1>7, RemovePosterTyped, CallFailsTyped, OneEnds DEF Finishes
  <2>2. UNCHANGED <<torrent, files, leftover>>
    BY <1>7 DEF RemovePoster, CallFails, history
  <2> QED BY <2>1, <2>2, FilesKept
<1>8. ASSUME NEW k \in Calls, DeleteObjects(k) PROVE FilesLeft'
  <2>1. NoneDeletes
    BY <1>8, DeleteStepTyped, OneEnds DEF Advances
  <2>2. UNCHANGED <<torrent, files, leftover>>
    BY <1>8 DEF DeleteObjects
  <2> QED BY <2>1, <2>2, FilesKept
<1>9. ASSUME NEW k \in Calls, DeleteTorrentRow(k) \/ DeleteTorrentRows(k) PROVE FilesLeft'
  <2>1. NoneDeletes
    BY <1>9, DeleteTorrentRowTyped, DeleteTorrentRowsTyped, OneEnds DEF Finishes, Advances
  <2>2. Deleting(k, "rows") /\ DeleteRow(k) /\ UNCHANGED files
    BY <1>9 DEF DeleteTorrentRow, DeleteTorrentRows, Deleting
  <2> QED BY <2>1, <2>2, RowDeleted
<1>10. ASSUME NEW k \in Calls, DeleteUser(k) PROVE FilesLeft'
  <2>1. NoneDeletes
    BY <1>10, DeleteUserTyped, OneEnds DEF AccountWritten
  <2>2. UNCHANGED <<torrent, files, leftover>>
    BY <1>10 DEF DeleteUser, rowVars
  <2> QED BY <2>1, <2>2, FilesKept
<1>11. CASE Restart
  <2>1. NoneDeletes
    BY <1>11, RestartTyped DEF NoneDeletes, Deleting, Ours
  <2> QED BY <1>11, <2>1, RestartTyped, FilesKept DEF rowVars
<1> QED BY <1>1, <1>3, <1>4, <1>5, <1>6, <1>7, <1>8, <1>9, <1>10, <1>11,
           FilesStarted, FilesCreated, FilesDeleted
        DEF RowsNext, InstantStep, Starts, Deletes

LEMMA FilesNext == ASSUME Typed, FilesLeft, [Next]_vars PROVE FilesLeft'
<1>1. CASE UNCHANGED vars
  BY <1>1 DEF vars, accountVars, rowVars, FilesLeft, Deleting, Ours
<1>2. CASE Next
  <2>1. UNCHANGED list
    BY <1>2 DEF Next
  <2>2. CASE AccountsNext /\ UNCHANGED <<rowVars, listVars>>
    <3>1. NoneDeletes
      BY <2>1, <2>2, AccountCalls DEF NoneDeletes, Deleting, Ours, StillRows
    <3> QED BY <2>2, <3>1, FilesKept DEF rowVars
  <2>3. CASE RowsNext
    BY <2>1, <2>3, FilesRows
  <2>4. CASE ListStep \/ ListFails
    <3>1. UNCHANGED <<call, torrent, files, leftover>>
      BY <2>1, <2>4, ListStepTyped DEF rowVars
    <3> QED BY <3>1 DEF FilesLeft, Deleting, Ours
  <2> QED BY <1>2, <2>2, <2>3, <2>4 DEF Next
<1> QED BY <1>1, <1>2

-----------------------------------------------------------------------------
(* Posters *)

Named(k) == call[k] # Idle /\ call[k].op # "save" /\ call[k].base # NoRow
Uploads(k) == call[k] # Idle /\ call[k].op = "poster"

\* A poster belongs to one id, unless a Save has brought one to another; and one that is
\* not in the row yet is stored, and nobody else's.
OwnPosters ==
  /\ torrent # NoRow => torrent.poster <= uploaded
  /\ \A k \in Calls : Named(k) =>
       /\ call[k].base.poster <= uploaded
       /\ torrent # NoRow /\ torrent.poster # 0 /\ torrent.poster = call[k].base.poster
            => spoilt \/ torrent.id = call[k].base.id
  /\ \A k \in Calls : Uploads(k) =>
       /\ call[k].value \in posters
       /\ torrent # NoRow => torrent.poster # call[k].value
       /\ \A j \in Calls : Named(j) => call[j].base.poster # call[k].value
       /\ \A j \in Calls \ {k} : Uploads(j) => call[j].value # call[k].value

StoredPoster ==
  (torrent # NoRow /\ torrent.poster \notin {0} \cup posters)
    => spoilt \/ torrent.id \in stripped

Posters == OwnPosters /\ StoredPoster

\* The row has no poster of its own, or the one it had.
SamePoster ==
  torrent' # NoRow =>
    \/ torrent'.poster = 0
    \/ /\ torrent # NoRow /\ torrent'.poster = torrent.poster /\ torrent'.id = torrent.id
       /\ spoilt => spoilt'

\* A request that has just read the row.
ReadsRow(k) ==
  /\ ~ Uploads(k)'
  /\ Named(k)' => call'[k].base = torrent /\ UNCHANGED <<torrent, spoilt>>

LEMMA KeepsNamed ==
  ASSUME NEW k \in Calls, Keeps(k)
  PROVE  /\ Named(k)' => Named(k) /\ call'[k].base = call[k].base /\ call'[k] # Idle
         /\ Uploads(k)' => Uploads(k) /\ call'[k].value = call[k].value /\ call'[k] # Idle
BY DEF Keeps, Held, Named, Uploads

\* Posters are 0 when there is none, and numbered as they come.
LEMMA PosterNumbers ==
  ASSUME Typed
  PROVE  /\ uploaded \in Nat
         /\ \A p \in posters : p \in 1 .. uploaded
         /\ torrent # NoRow => torrent.poster \in Nat
         /\ \A k \in Calls : Named(k) => call[k].base.poster \in Nat
<1>1. uploaded \in Nat /\ (\A p \in posters : p \in 1 .. uploaded)
  BY DEF Typed, RowsTyped
<1>2. torrent # NoRow => torrent.poster \in Nat
  BY DEF Typed, RowsTyped, Torrent, Poster
<1>3. ASSUME NEW k \in Calls, Named(k) PROVE call[k].base.poster \in Nat
  BY <1>3, RowRequest DEF Named, Poster
<1> QED BY <1>1, <1>2, <1>3

\* A poster that is uploaded stays stored; the row gets none of them, and shares one
\* only with a request that has read this row.
UploadsStay == \A k \in Calls : Uploads(k) /\ call'[k] # Idle => call[k].value \in posters'

PosterMayBe ==
  torrent' # NoRow =>
    /\ torrent'.poster <= uploaded
    /\ \A k \in Calls : call'[k] # Idle =>
         /\ Uploads(k) => torrent'.poster # call[k].value
         /\ Named(k) /\ torrent'.poster # 0 /\ torrent'.poster = call[k].base.poster
              => spoilt' \/ torrent'.id = call[k].base.id

LEMMA PostersKept ==
  ASSUME OwnPosters, \A k \in Calls : Keeps(k), UNCHANGED uploaded, UploadsStay, PosterMayBe
  PROVE  OwnPosters'
<1> USE DEF UploadsStay, PosterMayBe
<1>1. ASSUME NEW k \in Calls, Named(k)'
      PROVE  /\ call'[k].base.poster <= uploaded'
             /\ torrent' # NoRow /\ torrent'.poster # 0 /\ torrent'.poster = call'[k].base.poster
                  => spoilt' \/ torrent'.id = call'[k].base.id
  BY <1>1, KeepsNamed DEF OwnPosters
<1>2. ASSUME NEW k \in Calls, Uploads(k)'
      PROVE  /\ call'[k].value \in posters'
             /\ torrent' # NoRow => torrent'.poster # call'[k].value
  BY <1>2, KeepsNamed
<1>3. ASSUME NEW k \in Calls, Uploads(k)', NEW j \in Calls
      PROVE  /\ Named(j)' => call'[j].base.poster # call'[k].value
             /\ j # k /\ Uploads(j)' => call'[j].value # call'[k].value
  BY <1>3, KeepsNamed DEF OwnPosters
<1> QED BY <1>1, <1>2, <1>3 DEF OwnPosters

LEMMA SamePosters ==
  ASSUME Typed, Posters, \A k \in Calls : Keeps(k) \/ ReadsRow(k), SamePoster,
         UNCHANGED <<posters, uploaded>>, stripped \subseteq stripped'
  PROVE  Posters'
<1> USE PosterNumbers
<1>1. torrent' # NoRow => torrent'.poster <= uploaded
  BY DEF SamePoster, Posters, OwnPosters
<1>2. ASSUME NEW k \in Calls, Uploads(k)'
      PROVE  /\ Uploads(k) /\ call'[k].value = call[k].value
             /\ call'[k].value \in posters' /\ call'[k].value # 0
             /\ torrent' # NoRow => torrent'.poster # call'[k].value
  <2>1. Uploads(k) /\ call'[k].value = call[k].value
    BY <1>2, KeepsNamed DEF ReadsRow
  <2>2. call[k].value \in posters /\ call[k].value # 0
    BY <2>1 DEF Posters, OwnPosters
  <2>3. torrent' # NoRow => torrent'.poster # call[k].value
    BY <2>1, <2>2 DEF Posters, OwnPosters, SamePoster
  <2> QED BY <2>1, <2>2, <2>3
<1>3. ASSUME NEW k \in Calls, Named(k)'
      PROVE  /\ call'[k].base.poster <= uploaded'
             /\ torrent' # NoRow /\ torrent'.poster # 0 /\ torrent'.poster = call'[k].base.poster
                  => spoilt' \/ torrent'.id = call'[k].base.id
             /\ \A j \in Calls : Uploads(j)' => call'[k].base.poster # call'[j].value
  <2>1. CASE ReadsRow(k)
    <3>1. call'[k].base = torrent /\ torrent # NoRow /\ torrent' = torrent
      BY <1>3, <2>1 DEF ReadsRow, Named
    <3> QED BY <1>1, <1>2, <3>1
  <2>2. CASE Keeps(k)
    <3>1. Named(k) /\ call'[k].base = call[k].base
      BY <1>3, <2>2, KeepsNamed
    <3>2. torrent' # NoRow /\ torrent'.poster # 0 /\ torrent'.poster = call[k].base.poster
            => spoilt' \/ torrent'.id = call[k].base.id
      BY <3>1 DEF Posters, OwnPosters, SamePoster
    <3>3. call[k].base.poster <= uploaded
      BY <3>1 DEF Posters, OwnPosters
    <3>4. \A j \in Calls : Uploads(j)' => call[k].base.poster # call'[j].value
      BY <1>2, <3>1 DEF Posters, OwnPosters
    <3> QED BY <3>1, <3>2, <3>3, <3>4
  <2> QED BY <2>1, <2>2
<1>4. ASSUME NEW k \in Calls, Uploads(k)', NEW j \in Calls \ {k}, Uploads(j)'
      PROVE  call'[j].value # call'[k].value
  BY <1>2, <1>4 DEF Posters, OwnPosters
<1>5. OwnPosters'
  BY <1>1, <1>2, <1>3, <1>4 DEF OwnPosters
<1>6. StoredPoster'
  BY DEF Posters, StoredPoster, SamePoster
<1> QED BY <1>5, <1>6 DEF Posters

LEMMA PosterStored ==
  ASSUME Typed, Posters, UNCHANGED list, NEW k \in Calls, NEW u \in Users, BeginPoster(k, u)
  PROVE  Posters'
<1> USE PosterNumbers
<1>1. /\ UNCHANGED <<torrent, spoilt, stripped>>
      /\ uploaded' = uploaded + 1 /\ posters' = posters \cup {uploaded'}
  BY BeginPosterTyped DEF history
<1>2. PICK c \in Call : Begin(k, c) /\ c.base = torrent /\ c.op = "poster" /\ c.value = uploaded'
  BY BeginPosterTyped
<1>3. OthersStay(k) /\ call'[k] = c
  BY <1>2, Opened DEF Typed
<1>4. \A j \in Calls \ {k} : Keeps(j)
  BY <1>3, StaysKeeps DEF OthersStay
<1>5. ASSUME NEW j \in Calls, Named(j)'
      PROVE  /\ call'[j].base.poster <= uploaded
             /\ torrent' # NoRow /\ torrent'.poster # 0 /\ torrent'.poster = call'[j].base.poster
                  => spoilt' \/ torrent'.id = call'[j].base.id
             /\ \A i \in Calls \ {k} : Uploads(i) => call'[j].base.poster # call[i].value
             /\ call'[j].base.poster \in Nat
  <2>1. CASE j = k
    <3>1. call'[j].base = torrent /\ torrent # NoRow
      BY <1>2, <1>3, <1>5, <2>1 DEF Named
    <3> QED BY <1>1, <3>1 DEF Posters, OwnPosters
  <2>2. CASE j # k
    <3>1. Named(j) /\ call'[j].base = call[j].base
      BY <1>4, <1>5, <2>2, KeepsNamed
    <3> QED BY <1>1, <3>1 DEF Posters, OwnPosters
  <2> QED BY <2>1, <2>2
<1>6. ASSUME NEW j \in Calls \ {k}, Uploads(j)'
      PROVE  /\ Uploads(j) /\ call'[j].value = call[j].value /\ call'[j].value \in 1 .. uploaded
             /\ call'[j].value \in posters
             /\ torrent' # NoRow => torrent'.poster # call'[j].value
  <2>1. Uploads(j) /\ call'[j].value = call[j].value
    BY <1>4, <1>6, KeepsNamed
  <2> QED BY <1>1, <2>1 DEF Posters, OwnPosters
<1>7. call'[k].value = uploaded + 1 /\ call'[k].value \in posters'
  BY <1>1, <1>2, <1>3
<1>8. torrent' # NoRow => torrent'.poster <= uploaded /\ torrent'.poster \in Nat
  BY <1>1 DEF Posters, OwnPosters
<1>9. OwnPosters'
  <2>1. ASSUME NEW j \in Calls, Named(j)'
        PROVE  /\ call'[j].base.poster <= uploaded'
               /\ \A i \in Calls : Uploads(i)' => call'[j].base.poster # call'[i].value
    <3>1. call'[j].base.poster <= uploaded' /\ call'[j].base.poster # call'[k].value
      BY <1>1, <1>5, <1>7, <2>1
    <3>2. \A i \in Calls \ {k} : Uploads(i)' => call'[j].base.poster # call'[i].value
      BY <1>5, <1>6, <2>1
    <3> QED BY <3>1, <3>2
  <2>2. ASSUME NEW j \in Calls, Uploads(j)'
        PROVE  /\ call'[j].value \in posters'
               /\ torrent' # NoRow => torrent'.poster # call'[j].value
    BY <1>1, <1>6, <1>7, <1>8, <2>2
  <2>3. ASSUME NEW j \in Calls, Uploads(j)', NEW i \in Calls \ {j}, Uploads(i)'
        PROVE  call'[i].value # call'[j].value
    <3>1. CASE i = k \/ j = k
      BY <1>6, <1>7, <2>3, <3>1
    <3>2. CASE i # k /\ j # k
      BY <1>6, <2>3, <3>2 DEF Posters, OwnPosters
    <3> QED BY <3>1, <3>2
  <2>4. torrent' # NoRow => torrent'.poster <= uploaded'
    BY <1>1, <1>8
  <2> QED BY <1>5, <2>1, <2>2, <2>3, <2>4 DEF OwnPosters
<1>10. StoredPoster'
  BY <1>1 DEF Posters, StoredPoster
<1> QED BY <1>9, <1>10 DEF Posters

LEMMA PosterTaken ==
  ASSUME Typed, Posters, UNCHANGED list, NEW k \in Calls, UpdatePoster(k)
  PROVE  Posters'
<1>1. /\ Finishes(k) /\ torrent'.poster = call[k].value /\ torrent'.id = torrent.id
      /\ UNCHANGED <<posters, uploaded, history>>
  BY UpdatePosterTyped DEF UpdatePoster
<1>2. Uploads(k) /\ \A j \in Calls : Keeps(j)
  BY <1>1, FinishKeeps DEF UpdatePoster, Ours, Uploads
<1>3. call[k].value \in posters /\ call[k].value <= uploaded
  BY <1>2, PosterNumbers DEF Posters, OwnPosters
<1>4. ASSUME NEW j \in Calls, Uploads(j), call'[j] # Idle PROVE torrent'.poster # call[j].value
  BY <1>1, <1>2, <1>4 DEF Posters, OwnPosters, Finishes
<1>5. ASSUME NEW j \in Calls, Named(j) PROVE torrent'.poster # call[j].base.poster
  BY <1>1, <1>2, <1>5 DEF Posters, OwnPosters
<1>6. OwnPosters'
  <2>1. \A j \in Calls : Uploads(j) /\ call'[j] # Idle => call[j].value \in posters'
    BY <1>1 DEF Posters, OwnPosters
  <2>2. OwnPosters /\ UNCHANGED uploaded
    BY <1>1 DEF Posters
  <2>3. PosterMayBe
    BY <1>1, <1>3, <1>4, <1>5 DEF PosterMayBe
  <2> QED BY <1>2, <2>1, <2>2, <2>3, PostersKept DEF UploadsStay
<1>7. StoredPoster'
  BY <1>1, <1>3 DEF StoredPoster
<1> QED BY <1>6, <1>7 DEF Posters

\* A Save of the whole row brings the poster that was read, and has the row spoilt if it
\* has another one by now.
LEMMA PosterSaved ==
  ASSUME Typed, Answered, Posters, UNCHANGED list, NEW k \in Calls, SetVisibility(k)
  PROVE  Posters'
<1>1. /\ Finishes(k) /\ torrent' # NoRow /\ torrent'.poster = call[k].base.poster
      /\ torrent'.id = IF torrent = NoRow THEN call[k].base.id ELSE torrent.id
      /\ UNCHANGED <<posters, uploaded, stripped>> /\ spoilt' = (spoilt \/ call[k].stale)
  BY SetVisibilityTyped DEF SetVisibility
<1>2. call[k] # Idle /\ call[k].op = "visibility" /\ call[k].base \in Torrent
  BY RowRequest DEF SetVisibility, Ours
<1>3. \A j \in Calls : Keeps(j)
  BY <1>1, FinishKeeps
<1>4. CASE ~ call[k].stale
  <2>1. call[k].base = torrent /\ torrent # NoRow
    BY <1>2, <1>4, NoneAssumption DEF Answered, Reads
  <2>2. SamePoster
    BY <1>1, <2>1 DEF SamePoster
  <2> QED BY <1>1, <1>3, <2>2, SamePosters
<1>5. CASE call[k].stale
  <2>1. Named(k)
    BY <1>2, NoneAssumption DEF Named
  <2>2. /\ torrent'.poster <= uploaded
        /\ \A j \in Calls : Uploads(j) => torrent'.poster # call[j].value
    BY <1>1, <2>1 DEF Posters, OwnPosters
  <2>3. \A j \in Calls : Uploads(j) /\ call'[j] # Idle => call[j].value \in posters'
    BY <1>1 DEF Posters, OwnPosters
  <2>4. OwnPosters'
    <3>1. OwnPosters /\ UNCHANGED uploaded
      BY <1>1 DEF Posters
    <3>2. PosterMayBe
      BY <1>1, <1>5, <2>2 DEF PosterMayBe
    <3> QED BY <1>3, <2>3, <3>1, <3>2, PostersKept DEF UploadsStay
  <2> QED BY <1>1, <1>5, <2>4 DEF Posters, StoredPoster
<1> QED BY <1>4, <1>5

LEMMA PosterRemoved ==
  ASSUME Typed, Posters, NEW k \in Calls, Uploads(k), Finishes(k),
         posters' = posters \ {call[k].value},
         UNCHANGED <<torrent, uploaded, spoilt, stripped>>
  PROVE  Posters'
<1>1. \A j \in Calls : Keeps(j)
  BY FinishKeeps
<1>2. ASSUME NEW j \in Calls, Uploads(j), call'[j] # Idle PROVE call[j].value \in posters'
  BY <1>2 DEF Posters, OwnPosters, Finishes
<1>3. OwnPosters'
  <2>1. OwnPosters /\ UNCHANGED uploaded
    BY DEF Posters
  <2>2. PosterMayBe
    BY DEF Posters, OwnPosters, PosterMayBe
  <2> QED BY <1>1, <1>2, <2>1, <2>2, PostersKept DEF UploadsStay
<1>4. torrent # NoRow => torrent.poster # call[k].value
  BY DEF Posters, OwnPosters
<1> QED BY <1>3, <1>4 DEF Posters, StoredPoster

LEMMA PosterDeleted ==
  ASSUME Typed, Posters, UNCHANGED list, NEW k \in Calls, DeleteObjects(k)
  PROVE  Posters'
<1>1. /\ Deleting(k, "read") /\ Advances(k, "files")
      /\ UNCHANGED <<torrent, uploaded, spoilt>>
  BY DeleteStepTyped DEF DeleteObjects
<1>2. call[k] # Idle /\ call[k].op # "save"
  BY <1>1, DeletingRequest
<1>3. \A j \in Calls : Keeps(j)
  BY <1>1, <1>2, AdvanceKeeps
<1>4. CASE call[k].base = NoRow
  <2>1. UNCHANGED <<posters, stripped>>
    BY <1>4 DEF DeleteObjects
  <2> QED BY <1>1, <1>3, <2>1, SamePosters DEF SamePoster
<1>5. CASE call[k].base # NoRow
  <2>1. /\ posters' = posters \ {call[k].base.poster}
        /\ stripped' = stripped \cup {call[k].base.id}
    BY <1>5 DEF DeleteObjects
  <2>2. Named(k)
    BY <1>2, <1>5 DEF Named
  <2>3. ASSUME NEW j \in Calls, Uploads(j) PROVE call[j].value \in posters'
    BY <2>1, <2>2, <2>3 DEF Posters, OwnPosters
  <2>4. OwnPosters'
    <3>1. OwnPosters /\ UNCHANGED uploaded
      BY <1>1 DEF Posters
    <3>2. PosterMayBe
      BY <1>1 DEF Posters, OwnPosters, PosterMayBe
    <3> QED BY <1>3, <2>3, <3>1, <3>2, PostersKept DEF UploadsStay
  <2>5. StoredPoster'
    BY <1>1, <2>1, <2>2 DEF Posters, OwnPosters, StoredPoster
  <2> QED BY <2>4, <2>5 DEF Posters
<1> QED BY <1>4, <1>5

LEMMA PostersRows ==
  ASSUME Typed, Answered, Posters, UNCHANGED list, RowsNext
  PROVE  Posters'
<1>1. ASSUME UNCHANGED <<torrent, spoilt, posters, uploaded, stripped>>, \A k \in Calls : Keeps(k)
      PROVE  Posters'
  BY <1>1, SamePosters DEF SamePoster
<1>2. CASE InstantStep
  <2>1. UNCHANGED <<posters, uploaded, spoilt, stripped>>
    BY <1>2, InstantTyped DEF history
  <2>2. SamePoster
    BY <1>2, <2>1, InstantTyped DEF SamePoster
  <2>3. \A k \in Calls : Keeps(k)
    BY <1>2, InstantTyped, StaysKeeps
  <2> QED BY <2>1, <2>2, <2>3, SamePosters
<1>3. ASSUME NEW k \in Calls, NEW u \in Users,
             \/ BeginStart(k, u) \/ BeginDeleteTorrent(k, u)
             \/ \E v \in Visibility : BeginSetVisibility(k, u, v)
             \/ \E a \in Users : BeginDeleteUser(k, a, u)
      PROVE  Posters'
  <2>1. UNCHANGED <<torrent, spoilt, posters, uploaded, stripped>>
    BY <1>3, RowRequestOpens DEF rowVars
  <2>2. PICK c \in Call : /\ Begin(k, c) /\ c.base \in {torrent, NoRow}
                          /\ c.op \in {"start", "deleteTorrent", "visibility", "deleteUser"}
    BY <1>3, RowRequestOpens
  <2>3. OthersStay(k) /\ call'[k] = c
    BY <2>2, Opened DEF Typed
  <2>4. ReadsRow(k)
    BY <2>1, <2>2, <2>3 DEF ReadsRow, Uploads, Named
  <2>5. \A j \in Calls : Keeps(j) \/ ReadsRow(j)
    BY <2>3, <2>4, StaysKeeps DEF OthersStay
  <2>6. SamePoster
    BY <2>1 DEF SamePoster
  <2> QED BY <2>1, <2>5, <2>6, SamePosters
<1>4. ASSUME NEW k \in Calls, StartCreates(k) PROVE Posters'
  <2>1. /\ \A j \in Calls : Keeps(j)
        /\ UNCHANGED <<posters, uploaded, stripped>>
    BY <1>4, StartCreatesTyped, FinishKeeps DEF StartCreates
  <2>2. SamePoster
    BY <1>4 DEF StartCreates, SamePoster
  <2> QED BY <2>1, <2>2, SamePosters
<1>5. ASSUME NEW k \in Calls, StartUpdates(k) PROVE Posters'
  <2>1. UNCHANGED <<posters, uploaded, spoilt, stripped>> /\ call[k] # Idle
    BY <1>5 DEF StartUpdates, history, Ours
  <2>2. \A j \in Calls : Keeps(j)
    BY <1>5, <2>1, StartUpdatesTyped, AdvanceKeeps
  <2>3. SamePoster
    BY <1>5, <2>1, StartUpdatesTyped DEF SamePoster
  <2> QED BY <2>1, <2>2, <2>3, SamePosters
<1>6. ASSUME NEW k \in Calls, StartFiles(k) PROVE Posters'
  BY <1>1, <1>6, StartFilesTyped, FinishKeeps DEF StartFiles
<1>7. ASSUME NEW k \in Calls, RemovePoster(k) PROVE Posters'
  BY <1>7, RemovePosterTyped, PosterRemoved DEF RemovePoster, Ours, Uploads, history
<1>8. ASSUME NEW k \in Calls, CallFails(k) PROVE Posters'
  <2>1. Finishes(k) /\ UNCHANGED <<torrent, uploaded, spoilt, stripped>>
    BY <1>8, CallFailsTyped DEF CallFails, history
  <2>2. CASE Uploads(k)
    BY <1>8, <2>1, <2>2, PosterRemoved DEF CallFails, Uploads
  <2>3. CASE ~ Uploads(k)
    BY <1>1, <1>8, <2>1, <2>3, FinishKeeps DEF CallFails, Uploads
  <2> QED BY <2>2, <2>3
<1>9. ASSUME NEW k \in Calls, DeleteFiles(k) \/ DeleteFilesFails(k) PROVE Posters'
  <2>1. /\ UNCHANGED <<torrent, spoilt, posters, uploaded, stripped>>
        /\ call[k] # Idle /\ ~ DeleteObjects(k)
    BY <1>9 DEF DeleteFiles, DeleteFilesFails, DeleteObjects, history, Deleting, Ours
  <2>2. \A j \in Calls : Keeps(j)
    BY <1>9, <2>1, DeleteStepTyped, AdvanceKeeps
  <2> QED BY <1>1, <2>1, <2>2
<1>10. ASSUME NEW k \in Calls, DeleteTorrentRow(k) \/ DeleteTorrentRows(k) PROVE Posters'
  <2>1. /\ UNCHANGED <<posters, uploaded, spoilt, stripped>> /\ call[k] # Idle /\ DeleteRow(k)
    BY <1>10 DEF DeleteTorrentRow, DeleteTorrentRows, Ours
  <2>2. \A j \in Calls : Keeps(j)
    BY <1>10, <2>1, DeleteTorrentRowTyped, DeleteTorrentRowsTyped, FinishKeeps, AdvanceKeeps
  <2>3. SamePoster
    BY <2>1 DEF DeleteRow, SamePoster
  <2> QED BY <2>1, <2>2, <2>3, SamePosters
<1>11. ASSUME NEW k \in Calls, DeleteUser(k) PROVE Posters'
  <2>1. UNCHANGED <<torrent, spoilt, posters, uploaded, stripped>>
    BY <1>11 DEF DeleteUser, rowVars
  <2> QED BY <1>1, <1>11, <2>1, DeleteUserTyped, WrittenKeeps
<1>12. CASE Restart
  <2>1. UNCHANGED <<torrent, spoilt, posters, uploaded, stripped>>
    BY <1>12 DEF Restart, rowVars
  <2> QED BY <1>1, <1>12, <2>1, RestartTyped DEF Keeps
<1> QED BY <1>2, <1>3, <1>4, <1>5, <1>6, <1>7, <1>8, <1>9, <1>10, <1>11, <1>12,
           PosterStored, PosterTaken, PosterSaved, PosterDeleted
        DEF RowsNext, InstantStep, Starts, Deletes

LEMMA PostersNext == ASSUME Typed, Answered, Posters, [Next]_vars PROVE Posters'
<1>1. CASE UNCHANGED vars
  BY <1>1 DEF vars, accountVars, rowVars, Posters, OwnPosters, StoredPoster, Named, Uploads
<1>2. CASE Next
  <2>1. UNCHANGED list
    BY <1>2 DEF Next
  <2>2. CASE AccountsNext /\ UNCHANGED <<rowVars, listVars>>
    <3>1. UNCHANGED <<torrent, spoilt, posters, uploaded, stripped>>
      BY <2>2 DEF rowVars
    <3>2. ASSUME NEW k \in Calls PROVE Keeps(k) \/ ReadsRow(k)
      <4>1. CASE call'[k] # Idle /\ call'[k].op \in {"register", "save"}
        <5>1. Typed'
          BY <1>2, TypedNext
        <5>2. call'[k].op = "register" => call'[k].base = NoRow
          BY <4>1, <5>1 DEF Typed, CallsTyped, Shape
        <5> QED BY <4>1, <5>2 DEF ReadsRow, Uploads, Named
      <4>2. CASE Stays(k) \/ call'[k] = Idle
        BY <4>2, StaysKeeps DEF Keeps
      <4> QED BY <2>1, <2>2, <4>1, <4>2, AccountCalls DEF StillRows
    <3> QED BY <3>1, <3>2, SamePosters DEF SamePoster
  <2>3. CASE RowsNext
    BY <2>1, <2>3, PostersRows
  <2>4. CASE ListStep \/ ListFails
    <3>1. UNCHANGED <<call, torrent, spoilt, posters, uploaded, stripped>>
      BY <2>1, <2>4, ListStepTyped DEF rowVars
    <3> QED BY <3>1 DEF Posters, OwnPosters, StoredPoster, Named, Uploads
  <2> QED BY <1>2, <2>2, <2>3, <2>4 DEF Next
<1> QED BY <1>1, <1>2

-----------------------------------------------------------------------------
(* The cached list *)

\* Request k will have the list deleted.
Due(k) ==
  \/ Ours(k, "start", "files") /\ list \in Told(call[k].by)
  \/ Ours(k, "deleteUser", "user") /\ list \in Told(call[k].on)

ListDue == dropping \/ \E k \in Calls : Due(k)

\* StaleListsExplained, with the requests that will tell this list, and with the same
\* of what a goroutine has read and is about to store.
Explained ==
  /\ cached \notin {Miss, Query} => excused \/ ListDue
  /\ loading # Miss /\ loading.shows # Query => loading.old /\ (loading.excused \/ ListDue)

LEMMA DueIsUntold == ASSUME NEW k \in Calls, Due(k) PROVE Untold(k)
BY DEF Due, Untold

LEMMA DueKept ==
  ASSUME UNCHANGED list, NEW k \in Calls, OthersStay(k), dropping => dropping',
         Due(k) => dropping' \/ Due(k)'
  PROVE  ListDue => ListDue'
<1>1. ASSUME NEW j \in Calls \ {k}, Due(j) PROVE Due(j)'
  BY <1>1 DEF OthersStay, Stays, Held, Due, Ours, Told
<1> QED BY <1>1 DEF ListDue

LEMMA AllDueKept ==
  ASSUME UNCHANGED list, \A k \in Calls : Stays(k), dropping => dropping'
  PROVE  ListDue => ListDue'
<1>1. ASSUME NEW j \in Calls, Due(j) PROVE Due(j)'
  BY <1>1 DEF Stays, Held, Due, Ours, Told
<1> QED BY <1>1 DEF ListDue

LEMMA NotListed ==
  ASSUME torrent # NoRow => list \notin {torrent.creator, "public", "internal"}
  PROVE  Query = NoRow
BY DEF Query

\* The row changes, and those who are told are told, or will be.
LEMMA ChangesExplained ==
  ASSUME Typed, Explained, UNCHANGED list, NEW told, NEW untold, Changes(told, untold),
         \/ Query' = Query /\ (ListDue => ListDue')
         \/ list \in told \cup untold
         \/ ListDue'
  PROVE  Explained'
<1>1. /\ UNCHANGED cached
      /\ (dropping \/ list \in told) => dropping'
      /\ (excused \/ list \in untold) => excused'
      /\ loading' # Miss => /\ loading # Miss /\ loading'.shows = loading.shows
                            /\ loading'.old
                            /\ (loading.excused \/ list \in untold) => loading'.excused
  BY ChangesList DEF Typed
<1>2. CASE list \in told \/ ListDue'
  <2>1. ListDue'
    BY <1>1, <1>2 DEF ListDue
  <2> QED BY <1>1, <2>1 DEF Explained
<1>3. CASE list \in untold
  BY <1>1, <1>3 DEF Explained
<1>4. CASE Query' = Query /\ (ListDue => ListDue')
  BY <1>1, <1>4 DEF Explained
<1> QED BY <1>2, <1>3, <1>4

\* The row does not change.
LEMMA SameExplained ==
  ASSUME Explained, UNCHANGED <<torrent, list, cached, loading, excused>>, ListDue => ListDue'
  PROVE  Explained'
<1>1. Query' = Query
  BY DEF Query
<1> QED BY <1>1 DEF Explained

\* A request begins.
LEMMA OpensExplained ==
  ASSUME Typed, Explained, UNCHANGED <<torrent, list, listVars>>, NEW k \in Calls, NEW c \in Call,
         Begin(k, c)
  PROVE  Explained'
<1>1. OthersStay(k) /\ call[k] = Idle
  BY Opened DEF Typed
<1>2. ~ Due(k)
  BY <1>1 DEF Due, Ours
<1>3. ListDue => ListDue'
  BY <1>1, <1>2, DueKept DEF listVars
<1> QED BY <1>3, SameExplained DEF listVars

LEMMA ExplainedInstant ==
  ASSUME Typed, Explained, UNCHANGED list, InstantStep
  PROVE  Explained'
<1>1. PICK told, untold : /\ Changes(told, untold)
                          /\ {torrent.creator, "public", "internal"} \subseteq told \cup untold
                             \/ list \in told \cup untold
  BY InstantTyped
<1>2. torrent'.creator = torrent.creator
  BY InstantTyped
<1>3. CASE list \in told \cup untold
  BY <1>1, <1>3, ChangesExplained
<1>4. CASE list \notin {torrent.creator, "public", "internal"}
  <2>1. Query = NoRow
    BY <1>4, NotListed
  <2>2. Query' = NoRow
    BY <1>2, <1>4 DEF Query
  <2>3. ListDue => ListDue'
    BY <1>1, InstantTyped, AllDueKept DEF Changes
  <2> QED BY <1>1, <2>1, <2>2, <2>3, ChangesExplained
<1> QED BY <1>1, <1>3, <1>4

LEMMA ExplainedCreates ==
  ASSUME Typed, Explained, UNCHANGED list, NEW k \in Calls, StartCreates(k)
  PROVE  Explained'
<1>1. ~ Due(k)
  BY DEF StartCreates, Due, Ours
<1>2. OthersStay(k)
  BY StartCreatesTyped DEF Finishes
<1>3. CASE UNCHANGED <<torrent, listVars>>
  <2>1. ListDue => ListDue'
    BY <1>1, <1>2, <1>3, DueKept DEF listVars
  <2> QED BY <1>3, <2>1, SameExplained DEF listVars
<1>4. CASE /\ torrent = NoRow
           /\ torrent' = [id |-> ids', creator |-> call[k].by, status |-> "downloading",
                          visibility |-> "private", deleted |-> FALSE, poster |-> 0,
                          imdb |-> FALSE]
           /\ Changes(Told(call[k].by), NotTold(call[k].by))
  <2>1. CASE list = call[k].by
    BY <1>4, <2>1, ChangesExplained DEF Told
  <2>2. CASE list # call[k].by
    <3>1. torrent'.creator = call[k].by /\ torrent'.visibility = "private"
      BY <1>4
    <3>2. Query' = NoRow /\ Query = NoRow
      BY <1>4, <2>2, <3>1 DEF Query
    <3>3. ListDue => ListDue'
      BY <1>1, <1>2, <1>4, DueKept DEF Changes
    <3> QED BY <1>4, <3>2, <3>3, ChangesExplained
  <2> QED BY <2>1, <2>2
<1> QED BY <1>3, <1>4 DEF StartCreates, ChangesBy

\* The caller's list is told when the files are written, the creator's is not.
LEMMA ExplainedUpdates ==
  ASSUME Typed, Explained, UNCHANGED list, NEW k \in Calls, StartUpdates(k)
  PROVE  Explained'
<1>1. ~ Due(k) /\ call[k] # Idle /\ call[k].op = "start"
  BY DEF StartUpdates, Due, Ours
<1>2. Advances(k, "files") /\ Typed'
  BY StartUpdatesTyped
<1>3. /\ OthersStay(k) /\ call'[k] # Idle /\ call'[k].op = "start" /\ call'[k].step = "files"
      /\ call'[k].by = call[k].by
  BY <1>1, <1>2 DEF Advances, Held
<1>4. CASE UNCHANGED <<torrent, listVars>>
  <2>1. ListDue => ListDue'
    BY <1>1, <1>3, <1>4, DueKept DEF listVars
  <2> QED BY <1>4, <2>1, SameExplained DEF listVars
<1>5. CASE Changes({}, NotTold(call[k].by)) /\ torrent # NoRow
  <2>1. CASE list \in Told(call[k].by)
    <3>1. Due(k)'
      BY <1>3, <2>1 DEF Due, Ours, Told
    <3> QED BY <1>5, <3>1, ChangesExplained DEF ListDue
  <2>2. CASE list \notin Told(call[k].by) /\ list = torrent.creator
    <3>1. list \in NotTold(call[k].by)
      BY <1>5, <2>2 DEF Told, NotTold
    <3> QED BY <1>5, <3>1, ChangesExplained
  <2>3. CASE list \notin Told(call[k].by) /\ list # torrent.creator
    <3>1. list \notin {torrent.creator, "public", "internal"} /\ torrent'.creator = torrent.creator
      BY <1>5, <2>3, StartUpdatesTyped DEF Told
    <3>2. Query' = NoRow /\ Query = NoRow
      BY <3>1 DEF Query
    <3>3. ListDue => ListDue'
      BY <1>1, <1>3, <1>5, DueKept DEF Changes
    <3> QED BY <1>5, <3>2, <3>3, ChangesExplained
  <2> QED BY <2>1, <2>2, <2>3
<1> QED BY <1>4, <1>5 DEF StartUpdates

\* A request tells the list that it owed this, and ends.
LEMMA TellsExplained ==
  ASSUME Typed, Explained, UNCHANGED <<torrent, list>>, NEW k \in Calls, OthersStay(k),
         \/ Ours(k, "start", "files") /\ Tells(call[k].by)
         \/ Ours(k, "deleteUser", "user") /\ Tells(call[k].on)
  PROVE  Explained'
<1>1. UNCHANGED <<cached, loading, excused>> /\ (dropping => dropping')
  BY DEF Tells
<1>2. Due(k) => dropping'
  BY DEF Tells, Due, Ours
<1>3. ListDue => ListDue'
  BY <1>1, <1>2, DueKept
<1> QED BY <1>1, <1>3, SameExplained

LEMMA ExplainedDeletes ==
  ASSUME Typed, Explained, UNCHANGED list, NEW k \in Calls,
         DeleteTorrentRow(k) \/ DeleteTorrentRows(k)
  PROVE  Explained'
<1>1. CASE ~ Doomed(k)
  <2>1. UNCHANGED torrent /\ ~ Due(k)
    BY <1>1 DEF DeleteTorrentRow, DeleteTorrentRows, DeleteRow, Due, Ours
  <2>2. OthersStay(k)
    BY DeleteTorrentRowTyped, DeleteTorrentRowsTyped DEF Finishes, Advances
  <2>3. PICK told, untold : Changes(told, untold)
    BY DEF DeleteTorrentRow, DeleteTorrentRows
  <2>4. ListDue => ListDue'
    BY <2>1, <2>2, <2>3, DueKept DEF Changes
  <2>5. Query' = Query
    BY <2>1 DEF Query
  <2> QED BY <2>3, <2>4, <2>5, ChangesExplained
<1>2. CASE Doomed(k)
  <2>1. torrent # NoRow /\ torrent' = NoRow
    BY <1>2 DEF DeleteTorrentRow, DeleteTorrentRows, DeleteRow, Doomed
  <2>2. CASE list \notin {torrent.creator, "public", "internal"}
    <3>1. Query = NoRow /\ Query' = NoRow
      BY <2>1, <2>2 DEF Query
    <3>2. ~ Due(k)
      BY DEF DeleteTorrentRow, DeleteTorrentRows, Due, Ours
    <3>3. OthersStay(k)
      BY DeleteTorrentRowTyped, DeleteTorrentRowsTyped DEF Finishes, Advances
    <3>4. PICK told, untold : Changes(told, untold)
      BY DEF DeleteTorrentRow, DeleteTorrentRows
    <3>5. ListDue => ListDue'
      BY <3>2, <3>3, <3>4, DueKept DEF Changes
    <3> QED BY <3>1, <3>4, <3>5, ChangesExplained
  <2>3. CASE list \in {torrent.creator, "public", "internal"} /\ DeleteTorrentRow(k)
    <3>1. PICK u : Changes(Told(u), NotTold(u))
      BY <1>2, <2>3 DEF DeleteTorrentRow
    <3>2. list \in Told(u) \cup NotTold(u)
      BY <2>1, <2>3 DEF Told, NotTold
    <3> QED BY <3>1, <3>2, ChangesExplained
  <2>4. CASE list \in {torrent.creator, "public", "internal"} /\ DeleteTorrentRows(k)
    <3>1. call[k] # Idle /\ call[k].op = "deleteUser" /\ Changes({}, {})
      BY <2>4 DEF DeleteTorrentRows, Ours
    <3>2. torrent.creator = call[k].on
      BY <1>2, <3>1 DEF Doomed
    <3>3. /\ call'[k] # Idle /\ call'[k].op = "deleteUser" /\ call'[k].step = "user"
          /\ call'[k].on = call[k].on
      BY <2>4, <3>1, DeleteTorrentRowsTyped DEF Advances, Held
    <3>4. Due(k)'
      BY <2>4, <3>2, <3>3 DEF Due, Ours, Told
    <3> QED BY <3>1, <3>4, ChangesExplained DEF ListDue
  <2> QED BY <2>2, <2>3, <2>4
<1> QED BY <1>1, <1>2

LEMMA ExplainedFails ==
  ASSUME Typed, Explained, UNCHANGED list, NEW k \in Calls, CallFails(k)
  PROVE  Explained'
<1>1. /\ UNCHANGED <<torrent, cached, dropping>> /\ OthersStay(k)
      /\ excused' = (excused \/ Untold(k))
      /\ loading' = IF loading # Miss /\ Untold(k) THEN [loading EXCEPT !.excused = TRUE]
                    ELSE loading
  BY CallFailsTyped DEF CallFails, Finishes
<1>2. Query' = Query
  BY <1>1 DEF Query
<1>3. CASE ~ Untold(k)
  <2>1. ListDue => ListDue'
    BY <1>1, <1>3, DueIsUntold, DueKept
  <2>2. UNCHANGED loading
    BY <1>1, <1>3
  <2>3. UNCHANGED excused
    BY <1>1, <1>3 DEF Typed, ListTyped
  <2> QED BY <1>1, <2>1, <2>2, <2>3, SameExplained
<1>4. CASE Untold(k)
  <2>1. loading # Miss => /\ loading'.shows = loading.shows
                          /\ loading'.old = loading.old /\ loading'.excused
    BY <1>1, <1>4 DEF Typed, ListTyped, CachedRow
  <2>2. loading' # Miss => loading # Miss
    BY <1>1
  <2> QED BY <1>1, <1>2, <1>4, <2>1, <2>2 DEF Explained
<1> QED BY <1>3, <1>4

LEMMA ExplainedRows ==
  ASSUME Typed, Explained, UNCHANGED list, RowsNext
  PROVE  Explained'
<1>1. ASSUME NEW k \in Calls, NEW u \in Users,
             \/ BeginStart(k, u) \/ BeginDeleteTorrent(k, u)
             \/ \E v \in Visibility : BeginSetVisibility(k, u, v)
             \/ \E a \in Users : BeginDeleteUser(k, a, u)
      PROVE  Explained'
  BY <1>1, RowRequestOpens, OpensExplained DEF rowVars
<1>2. ASSUME NEW k \in Calls, NEW u \in Users, BeginPoster(k, u) PROVE Explained'
  BY <1>2, BeginPosterTyped, OpensExplained
<1>3. ASSUME NEW k \in Calls, StartFiles(k) PROVE Explained'
  BY <1>3, StartFilesTyped, TellsExplained DEF StartFiles, Finishes
<1>4. ASSUME NEW k \in Calls, SetVisibility(k) PROVE Explained'
  BY <1>4, ChangesExplained DEF SetVisibility, ChangesSilently, Typed, ListTyped
<1>5. ASSUME NEW k \in Calls, UpdatePoster(k) PROVE Explained'
  <2>1. /\ Changes(Told(call[k].by), NotTold(call[k].by))
        /\ torrent # NoRow /\ torrent.creator = call[k].by /\ ~ Due(k)
    BY <1>5 DEF UpdatePoster, ChangesBy, Shown, Mine, Due, Ours
  <2>2. torrent'.creator = torrent.creator /\ OthersStay(k)
    BY <1>5, UpdatePosterTyped DEF Finishes
  <2>3. CASE list \in Told(call[k].by)
    BY <2>1, <2>3, ChangesExplained
  <2>4. CASE list \notin Told(call[k].by)
    <3>1. Query' = NoRow /\ Query = NoRow
      BY <2>1, <2>2, <2>4 DEF Query, Told
    <3>2. ListDue => ListDue'
      BY <2>1, <2>2, DueKept DEF Changes
    <3> QED BY <2>1, <3>1, <3>2, ChangesExplained
  <2> QED BY <2>3, <2>4
<1>6. ASSUME NEW k \in Calls,
             RemovePoster(k) \/ DeleteObjects(k) \/ DeleteFiles(k) \/ DeleteFilesFails(k)
      PROVE  Explained'
  <2>1. UNCHANGED <<torrent, listVars>> /\ ~ Due(k)
    BY <1>6 DEF RemovePoster, DeleteObjects, DeleteFiles, DeleteFilesFails, Deleting, Due, Ours
  <2>2. OthersStay(k)
    BY <1>6, RemovePosterTyped, DeleteStepTyped DEF Finishes, Advances
  <2>3. ListDue => ListDue'
    BY <2>1, <2>2, DueKept DEF listVars
  <2> QED BY <2>1, <2>3, SameExplained DEF listVars
<1>7. ASSUME NEW k \in Calls, DeleteUser(k) PROVE Explained'
  <2>1. UNCHANGED torrent /\ Ours(k, "deleteUser", "user") /\ Tells(call[k].on)
    BY <1>7 DEF DeleteUser, rowVars
  <2>2. OthersStay(k)
    BY <1>7, DeleteUserTyped DEF AccountWritten
  <2> QED BY <2>1, <2>2, TellsExplained
<1>8. CASE Restart
  <2>1. /\ UNCHANGED <<torrent, cached>> /\ loading' = Miss
        /\ excused' = (excused \/ dropping \/ \E k \in Calls : Untold(k))
    BY <1>8 DEF Restart, rowVars
  <2>2. Query' = Query
    BY <2>1 DEF Query
  <2> QED BY <2>1, <2>2, DueIsUntold DEF Explained, ListDue
<1> QED BY <1>1, <1>2, <1>3, <1>4, <1>5, <1>6, <1>7, <1>8,
           ExplainedInstant, ExplainedCreates, ExplainedUpdates, ExplainedDeletes, ExplainedFails
        DEF RowsNext, InstantStep, Starts, Deletes

LEMMA ExplainedList ==
  ASSUME Typed, Explained, UNCHANGED list, ListStep \/ ListFails
  PROVE  Explained'
<1>1. UNCHANGED <<torrent, call>>
  BY ListStepTyped DEF rowVars
<1>2. Query' = Query
  BY <1>1 DEF Query
<1>3. (dropping => dropping') => (ListDue => ListDue')
  BY <1>1 DEF ListDue, Due, Ours
<1>4. CASE Load
  <2>1. loading'.shows = Query /\ UNCHANGED <<cached, dropping, excused>>
    BY <1>4 DEF Load
  <2> QED BY <1>2, <1>3, <2>1 DEF Explained
<1>5. CASE Store
  BY <1>2, <1>3, <1>5 DEF Explained, Store
<1>6. CASE Drop \/ DropFails
  <2>1. /\ loading' = IF loading = Miss THEN Miss ELSE [loading EXCEPT !.excused = @ \/ loading.old]
        /\ cached' = Miss \/ (UNCHANGED cached /\ excused' = TRUE)
    BY <1>6 DEF Drop, DropFails
  <2>2. loading # Miss => /\ loading'.shows = loading.shows /\ loading'.old = loading.old
                          /\ loading.old => loading'.excused
    <3>1. loading # Miss => loading \in CachedRow
      BY DEF Typed, ListTyped
    <3>2. PICK b \in BOOLEAN : b = (loading.excused \/ loading.old)
      BY Zenon
    <3>3. loading # Miss => /\ [loading EXCEPT !.excused = b].shows = loading.shows
                            /\ [loading EXCEPT !.excused = b].old = loading.old
                            /\ [loading EXCEPT !.excused = b].excused = b
      BY <3>1 DEF CachedRow
    <3>4. loading # Miss => loading' = [loading EXCEPT !.excused = b]
      BY <2>1, <3>2
    <3> QED BY <3>2, <3>3, <3>4
  <2>3. loading' # Miss => loading # Miss
    BY <2>1
  <2> QED BY <1>2, <2>1, <2>2, <2>3 DEF Explained
<1>7. CASE Expire \/ StoreFails
  BY <1>2, <1>3, <1>7 DEF Explained, Expire, StoreFails
<1> QED BY <1>4, <1>5, <1>6, <1>7 DEF ListStep, ListFails

LEMMA ExplainedNext == ASSUME Typed, Explained, [Next]_vars PROVE Explained'
<1>1. CASE UNCHANGED vars
  <2>1. UNCHANGED <<torrent, list, cached, loading, excused, dropping, call>>
    BY <1>1 DEF vars, accountVars, rowVars, listVars
  <2>2. ListDue => ListDue'
    BY <2>1 DEF ListDue, Due, Ours
  <2> QED BY <2>1, <2>2, SameExplained
<1>2. CASE Next
  <2>1. UNCHANGED list
    BY <1>2 DEF Next
  <2>2. CASE AccountsNext /\ UNCHANGED <<rowVars, listVars>>
    <3>1. ASSUME NEW k \in Calls, Due(k) PROVE Due(k)'
      <4>1. Stays(k)
        <5>1. call[k].op \notin {"register", "save"} /\ call[k] # Idle
          BY <3>1 DEF Due, Ours
        <5> QED BY <2>1, <2>2, <5>1, AccountKeepsOthers DEF StillRows
      <4> QED BY <2>1, <3>1, <4>1 DEF Stays, Held, Due, Ours, Told
    <3>2. ListDue => ListDue'
      BY <2>2, <3>1 DEF ListDue, listVars
    <3> QED BY <2>1, <2>2, <3>2, SameExplained DEF rowVars, listVars
  <2>3. CASE RowsNext
    BY <2>1, <2>3, ExplainedRows
  <2>4. CASE ListStep \/ ListFails
    BY <2>1, <2>4, ExplainedList
  <2> QED BY <1>2, <2>2, <2>3, <2>4 DEF Next
<1> QED BY <1>1, <1>2

-----------------------------------------------------------------------------
(* Theorems *)

\* What every reachable state satisfies.
Inv == Typed /\ Answered /\ Posters /\ FilesLeft /\ Explained

LEMMA InvInit == ASSUME Init PROVE Inv
<1>1. Typed
  BY TypedInit
<1> USE DEF Init, AccountsInit, RowsInit
<1>2. \A k \in Calls : call[k] = Idle
  OBVIOUS
<1>3. Answered
  BY <1>2 DEF Answered, Reads, AnswersKept
<1>4. Posters
  BY <1>2 DEF Posters, OwnPosters, StoredPoster, Named, Uploads
<1>5. FilesLeft
  BY <1>2 DEF FilesLeft, Deleting, Ours
<1>6. Explained
  BY DEF Explained
<1> QED BY <1>1, <1>3, <1>4, <1>5, <1>6 DEF Inv

LEMMA InvNext == ASSUME Inv, [Next]_vars PROVE Inv'
BY TypedNext, TypedStutters, AnsweredNext, PostersNext, FilesNext, ExplainedNext DEF Inv

\* The inductive invariant of accounts, torrents and cached lists.
THEOREM InductiveInvariant == Spec => []Inv
BY InvInit, InvNext, PTL DEF Spec

\* Rows, requests and the cached list are of their types, and a request never holds a
\* row whose id was not given out: accounts, TorrentServiceImpl, AdminServiceImpl.
THEOREM TypeCorrect == Spec => []TypeOK
<1>1. Inv => TypeOK
  BY TypedIsTypeOK DEF Inv
<1> QED BY <1>1, InductiveInvariant, PTL

\* What a request was answered with stays, and a deleted row stays deleted, except where
\* a Save of the whole row (gorm's Save) wrote back one that had changed since it was read.
THEOREM AnswersStay == Spec => []AnswersKept
<1>1. Inv => AnswersKept
  BY DEF Inv, Answered
<1> QED BY <1>1, InductiveInvariant, PTL

\* torrent_files rows are of the torrent, unless a deletion failed or crossed a
\* StartDownload, and the poster it names is stored, unless an admin's deletion has taken
\* the objects of the row and left the row, or a Save brought the row back.
THEOREM NoneDangles == Spec => []NothingDangles
<1>1. Inv => NothingDangles
  BY DEF Inv, FilesLeft, Posters, StoredPoster, NothingDangles
<1> QED BY <1>1, InductiveInvariant, PTL

\* A cached list that is not what the tables say is about to be deleted, by a goroutine or
\* by a StartDownload or a deletion that has yet to invalidate it, or has a reason to wait
\* for its TTL: invalidateTorrentListCache and its callers.
THEOREM ListsExplained == Spec => []StaleListsExplained
<1>1. Inv => StaleListsExplained
  BY DueIsUntold DEF Inv, Explained, ListDue, StaleListsExplained
<1> QED BY <1>1, InductiveInvariant, PTL

=============================================================================

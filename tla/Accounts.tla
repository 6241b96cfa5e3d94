------------------------------- MODULE Accounts ------------------------------
(***************************************************************************)
(* The users table: UserServiceImpl and what AdminServiceImpl does to it.  *)
(* A request that changes a row reads it, checks, hashes a password, and   *)
(* saves the whole row: gorm's Save writes every column, and inserts the   *)
(* row again when it is gone. A token says for seven days what the row     *)
(* said when it was issued, and is all that the middleware looks at.       *)
(***************************************************************************)
EXTENDS Naturals, FiniteSets

CONSTANTS Users,      \* ids; each has an email of its own
          Root,       \* the super admin of the configuration
          Nicknames,
          Calls,      \* requests that can be under way at once
          NoRow,      \* a row that does not exist
          Idle,       \* no request
          MaxCalls,   \* bound: requests that change something
          MaxFaults   \* bound: requests and invalidations that fail, restarts

ASSUME AccountsAssumption ==
  /\ Root \in Users /\ Nicknames # {}
  /\ {MaxCalls, MaxFaults} \subseteq Nat

VARIABLES
  account,    \* the rows
  tokens,     \* <<user, role>> of the tokens that were issued
  call,       \* the requests under way, between their first read and their last write
  calls,      \* how many requests there were
  faults,
  intended,   \* history: the rows, if each request changed only what it is about
  clobbered   \* history: rows saved by a request after another one had changed them

accountVars == <<account, tokens, call, calls, faults, intended, clobbered>>

Roles == {"user", "admin"}
Passwords == {"first", "second"}
Account == [nickname : Nicknames, password : Passwords, role : Roles, super : BOOLEAN]

NewAccount(nickname, role) ==
  [nickname |-> nickname, password |-> "first", role |-> role, super |-> role = "admin"]

\* createSuperAdmin has run, and the super admin is logged in.
AccountsInit ==
  /\ \E n \in Nicknames :
       account = [u \in Users |-> IF u = Root THEN NewAccount(n, "admin") ELSE NoRow]
  /\ tokens = {<<Root, "admin">>}
  /\ call = [k \in Calls |-> Idle]
  /\ calls = 0 /\ faults = 0
  /\ intended = account
  /\ clobbered = {}

Fault == faults < MaxFaults /\ faults' = faults + 1
Counted == calls < MaxCalls /\ calls' = calls + 1

-----------------------------------------------------------------------------
(* Requests *)

Begin(k, c) ==
  /\ call[k] = Idle
  /\ Counted
  /\ call' = [call EXCEPT ![k] = c]

\* A request: what it is, by whom, about which row, the new value of one of its columns,
\* the row as it was read, and whether that row was changed since.
Request(op, by, on, field, value, base) ==
  [op |-> op, by |-> by, on |-> on, field |-> field, value |-> value, base |-> base,
   step |-> "read", stale |-> FALSE]

\* Those who have read a row that now changes.
Overtaken(on) ==
  [k \in Calls |-> IF call[k] # Idle /\ call[k].on = on
                   THEN [call[k] EXCEPT !.stale = TRUE] ELSE call[k]]

Return(k) == call' = [call EXCEPT ![k] = Idle]
ReturnAfterWrite(k) == call' = [Overtaken(call[k].on) EXCEPT ![k] = Idle]

Saved(k) == [call[k].base EXCEPT ![call[k].field] = call[k].value]

Carries(u) == \E r \in Roles : <<u, r>> \in tokens
IsAdmin(a) == <<a, "admin">> \in tokens

Taken(nickname, u) == \E v \in Users \ {u} : account[v] # NoRow /\ account[v].nickname = nickname

-----------------------------------------------------------------------------

\* Ids are new.
BeginRegister(k, u, n) ==
  /\ account[u] = NoRow /\ ~ Carries(u)
  /\ ~ Taken(n, u)
  /\ Begin(k, Request("register", u, u, "nickname", n, NoRow))
  /\ UNCHANGED <<account, tokens, faults, intended, clobbered>>

\* The unique columns decide between two that registered at once.
Register(k) ==
  /\ call[k] # Idle /\ call[k].op = "register"
  /\ LET u == call[k].on
         row == NewAccount(call[k].value, "user") IN
       IF Taken(row.nickname, u) \/ account[u] # NoRow
       THEN Return(k) /\ UNCHANGED <<account, tokens, intended>>
       ELSE /\ account' = [account EXCEPT ![u] = row]
            /\ intended' = [intended EXCEPT ![u] = row]
            /\ tokens' = tokens \cup {<<u, row.role>>}
            /\ ReturnAfterWrite(k)
  /\ UNCHANGED <<calls, faults, clobbered>>

Login(u) ==
  /\ account[u] # NoRow
  /\ tokens' = tokens \cup {<<u, account[u].role>>}
  /\ UNCHANGED <<account, call, calls, faults, intended, clobbered>>

UpdateProfile(k, u, n) ==
  /\ Carries(u) /\ account[u] # NoRow
  /\ ~ Taken(n, u)
  /\ Begin(k, Request("save", u, u, "nickname", n, account[u]))
  /\ UNCHANGED <<account, tokens, faults, intended, clobbered>>

\* Mutant of ChangePassword: the new password goes to the wrong column.
ChangeWrongColumn(k, u, old, new) ==
  /\ Carries(u) /\ account[u] # NoRow
  /\ old = account[u].password
  /\ Begin(k, Request("save", u, u, "nickname", new, account[u]))
  /\ UNCHANGED <<account, tokens, faults, intended, clobbered>>

ChangePassword(k, u, old, new) ==
  /\ Carries(u) /\ account[u] # NoRow
  /\ old = account[u].password
  /\ Begin(k, Request("save", u, u, "password", new, account[u]))
  /\ UNCHANGED <<account, tokens, faults, intended, clobbered>>

UpdateUserRole(k, a, u, role) ==
  /\ IsAdmin(a) /\ a # u
  /\ account[u] # NoRow
  /\ Begin(k, Request("save", a, u, "role", role, account[u]))
  /\ UNCHANGED <<account, tokens, faults, intended, clobbered>>

\* Mutant of Save: the columns that the request does not name get their defaults.
SaveRequest(k) ==
  /\ call[k] # Idle /\ call[k].op = "save"
  /\ LET u == call[k].on
         row == [NewAccount(call[k].base.nickname, "user") EXCEPT ![call[k].field] = call[k].value] IN
       /\ account' = [account EXCEPT ![u] = row]
       /\ intended' = IF intended[u] = NoRow THEN intended
                      ELSE [intended EXCEPT ![u][call[k].field] = call[k].value]
       /\ clobbered' = IF call[k].stale THEN clobbered \cup {u} ELSE clobbered
  /\ ReturnAfterWrite(k)
  /\ UNCHANGED <<tokens, calls, faults>>

Save(k) ==
  /\ call[k] # Idle /\ call[k].op = "save"
  /\ LET u == call[k].on
         row == Saved(k) IN
       IF Taken(row.nickname, u)
       THEN Return(k) /\ UNCHANGED <<account, intended, clobbered>>
       ELSE /\ account' = [account EXCEPT ![u] = row]
            /\ intended' = IF intended[u] = NoRow THEN intended
                           ELSE [intended EXCEPT ![u][call[k].field] = call[k].value]
            /\ clobbered' = IF call[k].stale THEN clobbered \cup {u} ELSE clobbered
            /\ ReturnAfterWrite(k)
  /\ UNCHANGED <<tokens, calls, faults>>

\* The checks of DeleteUser, and its last write.
MayDelete(a, u) ==
  /\ IsAdmin(a) /\ a # u
  /\ account[u] # NoRow /\ ~ account[u].super

DropAccount(k, u) ==
  /\ account' = [account EXCEPT ![u] = NoRow]
  /\ intended' = [intended EXCEPT ![u] = NoRow]
  /\ call' = [Overtaken(u) EXCEPT ![k] = Idle]

\* createSuperAdmin, at the start of a server.
RestoreRoot ==
  /\ account' = [account EXCEPT ![Root].role = "admin", ![Root].super = TRUE]
  /\ intended' = [intended EXCEPT ![Root].role = "admin", ![Root].super = TRUE]

AccountsNext ==
  \/ \E u \in Users : Login(u)
  \/ \E k \in Calls :
       \/ \E u \in Users, n \in Nicknames : BeginRegister(k, u, n) \/ UpdateProfile(k, u, n)
       \/ \E u \in Users, old, new \in Passwords : ChangePassword(k, u, old, new)
       \/ \E a, u \in Users, role \in Roles : UpdateUserRole(k, a, u, role)
       \/ Register(k) \/ Save(k)

=============================================================================

------------------------ MODULE ServerRequestsProofs ------------------------
(***************************************************************************)
(* Theorems about what the server does for people and for its databases:   *)
(* LocalUsers, Sessions, AccessScopes, TrivyDatabase and CveImport, for     *)
(* every number of users, clients, hosts, rows and transactions and every   *)
(* budget of faults.  Each proof is of an inductive invariant of its own.   *)
(***************************************************************************)
EXTENDS LocalUsers, Sessions, AccessScopes, TrivyDatabase, CveImport,
        FiniteSetTheorems, TLAPS

-----------------------------------------------------------------------------
(* Local users.                                                            *)

\* Ids that have a role were given out; a guarded transaction has one target, and the
\* administrators it holds locks of are administrators still.
LocksAreTrue ==
    /\ \A u \in UserIds : role[u] # "none" => u \in used
    /\ IsFiniteSet(AdminIds)
    /\ \A q \in UserRequests :
          /\ tx[q].pc # "idle" => \E u \in UserIds : tx[q].target = {u}
          /\ tx[q].pc # "locked" => tx[q].holds = {}
          /\ tx[q].holds \subseteq AdminIds

\* The inductive invariant.
LocalUsersInv == LocalUsersTypeOK /\ LocksAreTrue

\* The user that a guarded transaction is about.
TargetOf(q) == CHOOSE v \in UserIds : v \in tx[q].target

\* A fresh table satisfies it.
LEMMA LocalUsersInit == InitLocalUsers => LocalUsersInv
  <1> SUFFICES ASSUME InitLocalUsers PROVE LocalUsersInv
    OBVIOUS
  <1>1. AdminIds = {}
    BY DEF InitLocalUsers, AdminIds
  <1>2. LocksAreTrue
    BY <1>1, FS_EmptySet DEF InitLocalUsers, LocksAreTrue, NoTx
  <1>3. LocalUsersTypeOK
    BY LocalUsersAssumption DEF InitLocalUsers, LocalUsersTypeOK, NoTx, Tx
  <1> QED BY <1>2, <1>3 DEF LocalUsersInv

\* What DecideGuarded does to the roles.
LEMMA Decided ==
  ASSUME LocalUsersInv, NEW q \in UserRequests, DecideGuarded(q)
  PROVE  /\ TargetOf(q) \in UserIds
         /\ tx' = [tx EXCEPT ![q] = NoTx]
         /\ tx[q].to \in Roles \cup {"none"}
         /\ UNCHANGED <<used, ufaults>>
         /\ TargetOf(q) \notin HeldByOthers(q)
         /\ \/ role' = role
            \/ /\ role[TargetOf(q)] # "none"
               /\ role' = [role EXCEPT ![TargetOf(q)] = tx[q].to]
               /\ \/ role[TargetOf(q)] # "admin" \/ tx[q].to = "admin"
                  \/ ~(Cardinality(tx[q].holds) <= 1)
  <1>1. tx[q].pc = "locked" /\ tx[q].to \in Roles \cup {"none"}
    BY DEF DecideGuarded, LocalUsersInv, LocalUsersTypeOK, Tx
  <1>2. PICK u \in UserIds : tx[q].target = {u}
    BY <1>1 DEF LocalUsersInv, LocksAreTrue
  <1>3. TargetOf(q) = u
    BY <1>2 DEF TargetOf
  <1> QED BY <1>1, <1>3 DEF DecideGuarded, TargetOf

\* Every request, failure and restart keeps it: nobody deletes or demotes an
\* administrator that another transaction holds the lock of.
LEMMA LocalUsersStep ==
  LocalUsersInv /\ [NextLocalUsers]_userVars => LocalUsersInv'
  <1> SUFFICES ASSUME LocalUsersInv, [NextLocalUsers]_userVars PROVE LocalUsersInv'
    OBVIOUS
  <1> USE LocalUsersAssumption DEF LocalUsersInv
  <1>0. NoTx \in Tx
    BY DEF NoTx, Tx
  <1>1. ASSUME NEW u \in UserIds, NEW r \in Roles \cup {"none"}, u \notin used,
               used' = used \cup {u}, role' = [role EXCEPT ![u] = r],
               \A q \in UserRequests : tx'[q] \in {tx[q], NoTx}
        PROVE  LocksAreTrue'
    <2>1. role[u] = "none" /\ u \notin AdminIds
      BY <1>1 DEF LocksAreTrue, AdminIds
    <2>2. \A v \in UserIds : role'[v] = IF v = u THEN r ELSE role[v]
      BY <1>1 DEF LocalUsersTypeOK
    <2>3. AdminIds' \in {AdminIds, AdminIds \cup {u}}
      BY <2>1, <2>2 DEF AdminIds
    <2>4. IsFiniteSet(AdminIds') /\ AdminIds \subseteq AdminIds'
      BY <2>3, FS_AddElement DEF LocksAreTrue
    <2> QED BY <1>1, <2>2, <2>4 DEF LocksAreTrue, NoTx
  <1>2. ASSUME NEW u \in UserIds, NEW r \in Roles, CreateLocalUser(u, r) PROVE LocalUsersInv'
    <2>1. LocksAreTrue'
      BY <1>1, <1>2 DEF CreateLocalUser
    <2> QED BY <1>2, <2>1 DEF CreateLocalUser, LocalUsersTypeOK
  <1>3. ASSUME NEW u \in UserIds, BootstrapAdmin(u) PROVE LocalUsersInv'
    <2>1. LocksAreTrue'
      <3>1. \A q \in UserRequests : tx'[q] \in {tx[q], NoTx}
        BY <1>3 DEF BootstrapAdmin
      <3>2. CASE UNCHANGED <<role, used>>
        BY <3>1, <3>2 DEF LocksAreTrue, AdminIds, NoTx
      <3>3. CASE u \notin used /\ used' = used \cup {u} /\ role' = [role EXCEPT ![u] = "admin"]
        BY <1>1, <3>1, <3>3 DEF Roles
      <3> QED BY <1>3, <3>2, <3>3 DEF BootstrapAdmin
    <2>2. role' \in [UserIds -> Roles \cup {"none"}] /\ used' \in SUBSET UserIds
      BY <1>3 DEF BootstrapAdmin, LocalUsersTypeOK, Roles
    <2>3. tx' \in [UserRequests -> Tx] /\ ufaults' \in 0..UserFaults
      BY <1>0, <1>3 DEF BootstrapAdmin, LocalUsersTypeOK
    <2> QED BY <2>1, <2>2, <2>3 DEF LocalUsersTypeOK
  <1>4. ASSUME NEW q \in UserRequests, NEW u \in UserIds, NEW r \in Roles \cup {"none"},
               BeginGuarded(q, u, r)
        PROVE  LocalUsersInv'
    <2> DEFINE new == [pc |-> "locking", target |-> {u}, to |-> r,
                       sees |-> AdminIds, holds |-> {}]
    <2>1. new \in Tx
      BY DEF Tx, AdminIds
    <2>2. tx' = [tx EXCEPT ![q] = new] /\ UNCHANGED <<role, used, ufaults>>
      BY <1>4 DEF BeginGuarded
    <2>3. \A p \in UserRequests : tx'[p] = IF p = q THEN new ELSE tx[p]
      BY <2>2 DEF LocalUsersTypeOK
    <2>4. LocalUsersTypeOK'
      BY <2>1, <2>2 DEF LocalUsersTypeOK
    <2> QED BY <2>2, <2>3, <2>4 DEF LocksAreTrue, AdminIds
  <1>5. ASSUME NEW q \in UserRequests, LockAdmins(q) PROVE LocalUsersInv'
    <2> DEFINE new == [tx[q] EXCEPT !.pc = "locked", !.holds = tx[q].sees \cap AdminIds]
    <2>0. tx[q] \in Tx /\ tx[q].pc = "locking"
      BY <1>5 DEF LockAdmins, LocalUsersTypeOK
    <2>1. new \in Tx /\ new.pc = "locked" /\ new.target = tx[q].target
          /\ new.holds \subseteq AdminIds
      BY <2>0 DEF Tx
    <2>2. tx' = [tx EXCEPT ![q] = new] /\ UNCHANGED <<role, used, ufaults>>
      BY <1>5 DEF LockAdmins
    <2> HIDE DEF new
    <2>3. \A p \in UserRequests : tx'[p] = IF p = q THEN new ELSE tx[p]
      BY <2>2 DEF LocalUsersTypeOK
    <2>4. LocalUsersTypeOK'
      BY <2>1, <2>2 DEF LocalUsersTypeOK
    <2>5. \E u \in UserIds : new.target = {u}
      BY <2>0, <2>1 DEF LocksAreTrue
    <2> QED BY <2>1, <2>2, <2>3, <2>4, <2>5 DEF LocksAreTrue, AdminIds
  <1>6. ASSUME NEW q \in UserRequests, DecideGuarded(q) PROVE LocalUsersInv'
    <2> DEFINE u == TargetOf(q)
    <2>1. /\ u \in UserIds /\ tx' = [tx EXCEPT ![q] = NoTx]
          /\ tx[q].to \in Roles \cup {"none"} /\ UNCHANGED <<used, ufaults>>
          /\ u \notin HeldByOthers(q)
          /\ role' = role \/ (role[u] # "none" /\ role' = [role EXCEPT ![u] = tx[q].to])
      <3>1. LocalUsersInv
        OBVIOUS
      <3> HIDE DEF LocalUsersInv
      <3> QED BY <1>6, <3>1, Decided
    <2> HIDE DEF u
    <2>2. LocalUsersTypeOK'
      BY <1>0, <2>1 DEF LocalUsersTypeOK
    <2>3. \A p \in UserRequests : tx'[p] = IF p = q THEN NoTx ELSE tx[p]
      BY <2>1 DEF LocalUsersTypeOK
    <2>4. CASE role' = role
      <3>1. AdminIds' = AdminIds
        BY <2>4 DEF AdminIds
      <3> QED BY <2>1, <2>2, <2>3, <2>4, <3>1 DEF LocksAreTrue, NoTx
    <2>5. CASE role[u] # "none" /\ role' = [role EXCEPT ![u] = tx[q].to]
      <3>1. \A v \in UserIds : role'[v] = IF v = u THEN tx[q].to ELSE role[v]
        BY <2>5 DEF LocalUsersTypeOK
      <3>2. u \in used
        BY <2>1, <2>5 DEF LocksAreTrue
      <3>3. AdminIds' \subseteq AdminIds \cup {u} /\ AdminIds \ {u} \subseteq AdminIds'
        BY <2>1, <3>1 DEF AdminIds
      <3>4. IsFiniteSet(AdminIds')
        BY <3>3, FS_AddElement, FS_Subset DEF LocksAreTrue
      <3>5. \A p \in UserRequests : p # q => u \notin tx[p].holds
        BY <2>1 DEF HeldByOthers
      <3>6. \A p \in UserRequests : tx'[p].holds \subseteq AdminIds'
        BY <2>3, <3>3, <3>5 DEF LocksAreTrue, NoTx
      <3> QED BY <2>1, <2>2, <2>3, <3>1, <3>2, <3>4, <3>6 DEF LocksAreTrue, NoTx
    <2> QED BY <2>1, <2>4, <2>5
  <1>7. ASSUME NEW q \in UserRequests, GuardedFails(q) PROVE LocalUsersInv'
    <2>1. tx' = [tx EXCEPT ![q] = NoTx] /\ UNCHANGED <<role, used>>
          /\ ufaults' \in 0..UserFaults
      BY <1>7 DEF GuardedFails, LocalUsersTypeOK
    <2>2. \A p \in UserRequests : tx'[p] = IF p = q THEN NoTx ELSE tx[p]
      BY <2>1 DEF LocalUsersTypeOK
    <2>3. LocalUsersTypeOK'
      BY <1>0, <2>1 DEF LocalUsersTypeOK
    <2> QED BY <2>1, <2>2, <2>3 DEF LocksAreTrue, AdminIds, NoTx
  <1>8. CASE UNCHANGED userVars
    BY <1>8 DEF userVars, LocalUsersTypeOK, LocksAreTrue, AdminIds
  <1> QED
    BY <1>2, <1>3, <1>4, <1>5, <1>6, <1>7, <1>8 DEF NextLocalUsers

\* A step that takes the role of an administrator leaves another one, whose row the
\* transaction holds locked.
LEMMA AdminStep ==
  LocalUsersInv /\ [NextLocalUsers]_userVars => [AdminIds # {} => AdminIds' # {}]_userVars
  <1> SUFFICES ASSUME LocalUsersInv, NextLocalUsers, NEW a \in AdminIds
               PROVE  AdminIds' # {}
    OBVIOUS
  <1>0. a \in UserIds /\ role[a] = "admin" /\ role \in [UserIds -> Roles \cup {"none"}]
    BY DEF AdminIds, LocalUsersInv, LocalUsersTypeOK
  <1>a. ASSUME NEW v \in UserIds, role'[v] = "admin" PROVE AdminIds' # {}
    BY <1>a DEF AdminIds
  <1>1. ASSUME NEW u \in UserIds, NEW r, u \notin used, role' = [role EXCEPT ![u] = r]
        PROVE  AdminIds' # {}
    <2>1. a # u
      BY <1>0, <1>1 DEF LocalUsersInv, LocksAreTrue
    <2> QED BY <1>0, <1>1, <1>a, <2>1
  <1>2. ASSUME UNCHANGED role PROVE AdminIds' # {}
    BY <1>0, <1>2, <1>a
  <1>3. ASSUME NEW q \in UserRequests, DecideGuarded(q) PROVE AdminIds' # {}
    <2> DEFINE u == TargetOf(q)
    <2>1. /\ u \in UserIds
          /\ \/ role' = role
             \/ /\ role' = [role EXCEPT ![u] = tx[q].to]
                /\ \/ role[u] # "admin" \/ tx[q].to = "admin"
                   \/ ~(Cardinality(tx[q].holds) <= 1)
      BY <1>3, Decided
    <2> HIDE DEF u
    <2>2. CASE role' = role
      BY <1>2, <2>2
    <2>3. CASE role' = [role EXCEPT ![u] = tx[q].to] /\ role[u] # "admin"
      BY <1>0, <1>a, <2>3
    <2>4. CASE role' = [role EXCEPT ![u] = tx[q].to] /\ tx[q].to = "admin"
      BY <1>0, <1>a, <2>1, <2>4
    <2>5. CASE role' = [role EXCEPT ![u] = tx[q].to] /\ ~(Cardinality(tx[q].holds) <= 1)
      <3>1. tx[q].holds \subseteq AdminIds
        BY DEF LocalUsersInv, LocksAreTrue
      <3>2. PICK v \in tx[q].holds : v # u
        <4>1. CASE tx[q].holds \subseteq {u}
          <5>1. IsFiniteSet({u}) /\ Cardinality({u}) = 1
            BY FS_Singleton
          <5>2. Cardinality(tx[q].holds) <= Cardinality({u})
            BY <4>1, <5>1, FS_Subset
          <5> QED BY <2>5, <5>1, <5>2
        <4> QED BY <4>1
      <3>3. v \in UserIds /\ role[v] = "admin"
        BY <3>1 DEF AdminIds
      <3> QED BY <1>0, <1>a, <2>5, <3>2, <3>3
    <2> QED BY <2>1, <2>2, <2>3, <2>4, <2>5
  <1> QED
    BY <1>1, <1>2, <1>3 DEF NextLocalUsers, CreateLocalUser, BootstrapAdmin, BeginGuarded,
       LockAdmins, GuardedFails

\* Once there is an administrator there is always one, whatever requests delete and
\* demote administrators at the same time.
THEOREM AdminsRemain == LocalUsersSpec => AnAdminRemains
  <1>1. LocalUsersSpec => []LocalUsersInv
    BY LocalUsersInit, LocalUsersStep, PTL DEF LocalUsersSpec
  <1>2. QED
    BY <1>1, AdminStep, PTL DEF LocalUsersSpec, AnAdminRemains

-----------------------------------------------------------------------------
(* Logins and sessions.                                                    *)

\* A name as the model holds it: a set of one user.
OneUser(s) == \E u \in Users : s = {u}

\* A login, a session and a reset under way are of one user.
SessionsShape ==
    /\ \A c \in Clients : login[c].pc # "idle" => OneUser(login[c].user)
    /\ \A c \in Clients : session[c].user = {} \/ OneUser(session[c].user)
    /\ reset.pc = "stored" => OneUser(reset.user)

\* The user of a login.
LEMMA LoginUserIs ==
  ASSUME NEW c \in Clients, NEW u \in Users, login[c].user = {u}
  PROVE  LoginUser(c) = u
  BY DEF LoginUser

\* What each call of the limiter makes of its map.
LEMMA EntriesType ==
  ASSUME SessionsTypeOK, NEW c \in Clients, NEW u \in Users
  PROVE  /\ AfterBlocked(c, u) \in [Keys -> [count: Nat, old: BOOLEAN]]
         /\ Trimmed \in [Keys -> [count: Nat, old: BOOLEAN]]
         /\ Failed(c, u) \in [Keys -> [count: Nat, old: BOOLEAN]]
         /\ Succeeded(c, u) \in [Keys -> [count: Nat, old: BOOLEAN]]
  <1> DEFINE Entries == [Keys -> [count: Nat, old: BOOLEAN]]
  <1>0. NoEntry \in [count: Nat, old: BOOLEAN]
    BY DEF NoEntry
  <1>1. entry \in Entries
    BY DEF SessionsTypeOK
  <1>2. AfterBlocked(c, u) \in Entries
    BY <1>0, <1>1 DEF AfterBlocked
  <1>3. Succeeded(c, u) \in Entries
    BY <1>0, <1>1 DEF Succeeded
  <1>4. Trimmed \in Entries
    <2> DEFINE young == [k \in Keys |-> IF entry[k].old THEN NoEntry ELSE entry[k]]
               none == [k \in Keys |-> NoEntry]
    <2>1. young \in Entries /\ none \in Entries
      BY <1>0, <1>1
    <2>2. Trimmed \in {entry, young, none}
      BY DEF Trimmed
    <2> HIDE DEF young, none
    <2> QED BY <1>1, <2>1, <2>2
  <1>5. Failed(c, u) \in Entries
    <2>1. ASSUME NEW k \in Keys
          PROVE  /\ [Trimmed[k] EXCEPT !.count = @ + 1] \in [count: Nat, old: BOOLEAN]
                 /\ [count |-> 1, old |-> FALSE] \in [count: Nat, old: BOOLEAN]
      BY <1>4
    <2> QED BY <1>4, <2>1 DEF Failed
  <1> QED BY <1>2, <1>3, <1>4, <1>5

\* trim raises no count.
LEMMA TrimmedCount ==
  ASSUME SessionsTypeOK, NEW k \in Keys
  PROVE  /\ Trimmed[k].count \in Nat
         /\ Trimmed[k].count <= entry[k].count
         /\ entry[k].count \in Nat
  <1> DEFINE young == [j \in Keys |-> IF entry[j].old THEN NoEntry ELSE entry[j]]
             none == [j \in Keys |-> NoEntry]
  <1>1. entry[k].count \in Nat
    BY DEF SessionsTypeOK
  <1>2. /\ young[k].count \in {0, entry[k].count}
        /\ none[k].count = 0
    BY DEF NoEntry
  <1>3. Trimmed \in {entry, young, none}
    BY DEF Trimmed
  <1> HIDE DEF young, none
  <1> QED BY <1>1, <1>2, <1>3

\* Ending the sessions of a user leaves those of the others.
LEMMA WithoutType ==
  ASSUME NEW u \in Users, SessionsTypeOK
  PROVE  /\ Without(u) \in [Clients -> [user: SUBSET Users, with: Passwords, late: BOOLEAN]]
         /\ \A c \in Clients : \/ Without(u)[c] = session[c] /\ session[c].user # {u}
                               \/ Without(u)[c].user = {}
  <1>1. 0 \in Passwords
    BY SessionsAssumption DEF Passwords
  <1> QED BY <1>1 DEF Without, NoSession, SessionsTypeOK

\* The types and the shapes are kept by every step of the server.
LEMMA SessionsTypeStep ==
  SessionsTypeOK /\ SessionsShape /\ [NextSessions]_sessionVars => SessionsTypeOK' /\ SessionsShape'
  <1> SUFFICES ASSUME SessionsTypeOK, SessionsShape, [NextSessions]_sessionVars
               PROVE  SessionsTypeOK' /\ SessionsShape'
    OBVIOUS
  <1> USE SessionsAssumption
  <1>0. 0 \in Passwords /\ Passwords \subseteq Nat
    BY DEF Passwords
  <1>b. ASSUME NEW c \in Clients, NEW to, login' = [login EXCEPT ![c] = to],
               to \in [pc: {"idle", "allowed", "read", "verified"},
                       user: SUBSET Users, read: Passwords],
               to.pc # "idle" => OneUser(to.user),
               entry' \in [Keys -> [count: Nat, old: BOOLEAN]],
               UNCHANGED <<password, session, reset, ended, sfaults>>
        PROVE  SessionsTypeOK' /\ SessionsShape'
    <2>1. \A d \in Clients : login'[d] = IF d = c THEN to ELSE login[d]
      BY <1>b DEF SessionsTypeOK
    <2>2. SessionsTypeOK'
      BY <1>b DEF SessionsTypeOK
    <2> QED
      BY <1>b, <2>1, <2>2 DEF SessionsShape, OneUser
  <1>1. ASSUME NEW k \in Keys, WindowPasses(k) PROVE SessionsTypeOK' /\ SessionsShape'
    BY <1>1 DEF WindowPasses, SessionsTypeOK, SessionsShape, OneUser
  <1>2. ASSUME NEW c \in Clients, NEW u \in Users, LoginAllowed(c, u)
        PROVE SessionsTypeOK' /\ SessionsShape'
    <2>1. /\ entry' \in [Keys -> [count: Nat, old: BOOLEAN]]
          /\ UNCHANGED <<password, session, reset, ended, sfaults>>
      BY <1>2, EntriesType DEF LoginAllowed
    <2>2. CASE UNCHANGED login
      BY <2>1, <2>2 DEF SessionsTypeOK, SessionsShape, OneUser
    <2>3. CASE ~Blocked(c, u)
      <3> DEFINE to == [pc |-> "allowed", user |-> {u}, read |-> 0]
      <3>1. login' = [login EXCEPT ![c] = to]
        BY <1>2, <2>3 DEF LoginAllowed, Proceeds
      <3>2. /\ to \in [pc: {"idle", "allowed", "read", "verified"},
                       user: SUBSET Users, read: Passwords]
            /\ OneUser(to.user)
        BY <1>0 DEF OneUser
      <3> QED BY <1>b, <2>1, <3>1, <3>2
    <2> QED
      BY <1>2, <2>2, <2>3 DEF LoginAllowed
  <1>3. ASSUME NEW c \in Clients, NEW u \in Users, ChangePassword(c, u)
        PROVE SessionsTypeOK' /\ SessionsShape'
    <2>1. password[u] + 1 \in Passwords
      BY <1>3 DEF ChangePassword, NewPassword, SessionsTypeOK, Passwords, Gone
    <2> QED
      BY <1>3, <2>1 DEF ChangePassword, NewPassword, SessionsTypeOK, SessionsShape, OneUser
  <1>a. ASSUME NEW c \in Clients, login[c].pc # "idle" PROVE LoginUser(c) \in Users
    BY <1>a, LoginUserIs DEF SessionsShape, OneUser
  <1>4. ASSUME NEW c \in Clients, LoginReads(c) PROVE SessionsTypeOK' /\ SessionsShape'
    <2>1. LoginUser(c) \in Users /\ login[c].pc = "allowed"
      BY <1>4, <1>a DEF LoginReads
    <2>2. password[LoginUser(c)] \in Passwords
      BY <1>4, <2>1 DEF LoginReads, SessionsTypeOK
    <2> QED
      <3> DEFINE to == [login[c] EXCEPT !.pc = "read", !.read = password[LoginUser(c)]]
      <3>1. login' = [login EXCEPT ![c] = to]
        BY <1>4 DEF LoginReads, Proceeds
      <3>2. to \in [pc: {"idle", "allowed", "read", "verified"},
                    user: SUBSET Users, read: Passwords]
        <4>1. login[c] \in [pc: {"idle", "allowed", "read", "verified"},
                            user: SUBSET Users, read: Passwords]
          BY DEF SessionsTypeOK
        <4> QED BY <2>2, <4>1
      <3>3. OneUser(to.user)
        BY <2>1 DEF SessionsTypeOK, SessionsShape
      <3>4. /\ entry' \in [Keys -> [count: Nat, old: BOOLEAN]]
            /\ UNCHANGED <<password, session, reset, ended, sfaults>>
        BY <1>4 DEF LoginReads, SessionsTypeOK
      <3> QED BY <1>b, <3>1, <3>2, <3>3, <3>4
  <1>5. ASSUME NEW c \in Clients, LoginFails(c) PROVE SessionsTypeOK' /\ SessionsShape'
    <2>1. LoginUser(c) \in Users
      BY <1>5, <1>a DEF LoginFails
    <2>2. entry' \in [Keys -> [count: Nat, old: BOOLEAN]]
      BY <1>5, <2>1, EntriesType DEF LoginFails
    <2>3. sfaults' \in 0..SessionFaults
      BY <1>5 DEF LoginFails, SessionsTypeOK
    <2>4. login' = [login EXCEPT ![c] = NoLogin]
          /\ UNCHANGED <<password, session, reset, ended>>
      BY <1>5 DEF LoginFails
    <2> QED
      BY <1>0, <2>2, <2>3, <2>4 DEF NoLogin, SessionsTypeOK, SessionsShape, OneUser
  <1>6. ASSUME NEW c \in Clients, LoginVerifies(c) PROVE SessionsTypeOK' /\ SessionsShape'
    <2>1. LoginUser(c) \in Users
      BY <1>6, <1>a DEF LoginVerifies, Proceeds
    <2>2. entry' \in [Keys -> [count: Nat, old: BOOLEAN]]
      BY <1>6, <2>1, EntriesType DEF LoginVerifies
    <2> QED
      <3> DEFINE to == [login[c] EXCEPT !.pc = "verified"]
      <3>1. login[c].pc = "read" /\ login' = [login EXCEPT ![c] = to]
        BY <1>6 DEF LoginVerifies, Proceeds
      <3>2. to \in [pc: {"idle", "allowed", "read", "verified"},
                    user: SUBSET Users, read: Passwords]
        BY DEF SessionsTypeOK
      <3>3. OneUser(to.user)
        BY <3>1 DEF SessionsTypeOK, SessionsShape
      <3>4. UNCHANGED <<password, session, reset, ended, sfaults>>
        BY <1>6 DEF LoginVerifies
      <3> QED BY <1>b, <2>2, <3>1, <3>2, <3>3, <3>4
  <1>7. ASSUME NEW c \in Clients, CreateSession(c) PROVE SessionsTypeOK' /\ SessionsShape'
    <2>1. LoginUser(c) \in Users /\ login[c].pc = "verified"
      BY <1>7, <1>a DEF CreateSession, Proceeds
    <2>2. OneUser(login[c].user) /\ login[c].user \in SUBSET Users /\ login[c].read \in Passwords
      BY <2>1 DEF SessionsShape, SessionsTypeOK
    <2>3. (login[c].read < ended[LoginUser(c)]) \in BOOLEAN
      OBVIOUS
    <2>4. [user |-> login[c].user, with |-> login[c].read,
           late |-> login[c].read < ended[LoginUser(c)]]
             \in [user: SUBSET Users, with: Passwords, late: BOOLEAN]
      BY <2>2, <2>3
    <2>5. session' = session \/ session' = [session EXCEPT ![c] =
             [user |-> login[c].user, with |-> login[c].read,
              late |-> login[c].read < ended[LoginUser(c)]]]
      BY <1>7 DEF CreateSession
    <2>6. login' = [login EXCEPT ![c] = NoLogin]
          /\ UNCHANGED <<password, entry, reset, ended, sfaults>>
      BY <1>7 DEF CreateSession, Proceeds
    <2>7. session' \in [Clients -> [user: SUBSET Users, with: Passwords, late: BOOLEAN]]
      BY <2>4, <2>5 DEF SessionsTypeOK
    <2>8. \A d \in Clients : session'[d].user \in {session[d].user, login[c].user}
      BY <2>5 DEF SessionsTypeOK
    <2>9. \A d \in Clients : login'[d] = login[d] \/ login'[d] = NoLogin
      BY <2>6 DEF SessionsTypeOK
    <2>10. SessionsTypeOK'
      BY <1>0, <2>6, <2>7 DEF NoLogin, SessionsTypeOK
    <2> QED
      BY <2>2, <2>6, <2>8, <2>9, <2>10 DEF NoLogin, SessionsShape, OneUser
  <1>8. ASSUME NEW c \in Clients, CreateSessionFails(c) PROVE SessionsTypeOK' /\ SessionsShape'
    BY <1>0, <1>8 DEF CreateSessionFails, Proceeds, NoLogin, SessionsTypeOK, SessionsShape, OneUser
  <1>9. ASSUME NEW c \in Clients, EndSession(c) PROVE SessionsTypeOK' /\ SessionsShape'
    BY <1>0, <1>9 DEF EndSession, NoSession, SessionsTypeOK, SessionsShape, OneUser
  <1>10. ASSUME NEW u \in Users, ResetStores(u) PROVE SessionsTypeOK' /\ SessionsShape'
    <2>1. password[u] + 1 \in Passwords
      BY <1>10 DEF ResetStores, NewPassword, SessionsTypeOK, Passwords, Gone
    <2> QED
      BY <1>10, <2>1 DEF ResetStores, NewPassword, SessionsTypeOK, SessionsShape, OneUser
  <1>11. ASSUME NEW u \in Users, DeleteUser(u) PROVE SessionsTypeOK' /\ SessionsShape'
    <2>1. Gone \in Passwords \cup {Gone}
      OBVIOUS
    <2> QED
      <3>1. /\ session' = Without(u) /\ password' = [password EXCEPT ![u] = Gone]
            /\ UNCHANGED <<login, entry, reset, ended, sfaults>>
        BY <1>11 DEF DeleteUser
      <3>2. SessionsTypeOK'
        BY <2>1, <3>1, WithoutType DEF SessionsTypeOK
      <3>3. \A c \in Clients : session'[c].user \in {session[c].user, {}}
        BY <3>1, WithoutType
      <3> QED BY <3>1, <3>2, <3>3 DEF SessionsShape
  <1>12. ASSUME ResetDeletes PROVE SessionsTypeOK' /\ SessionsShape'
    <2>1. PICK u \in reset.user : session' = Without(u) /\ ended' = [ended EXCEPT ![u] = reset.to]
      BY <1>12 DEF ResetDeletes
    <2>2. u \in Users /\ reset.to \in Passwords
      BY <2>1 DEF SessionsTypeOK
    <2>3. reset' = NoReset /\ UNCHANGED <<password, login, entry, sfaults>>
      BY <1>12 DEF ResetDeletes
    <2>4. SessionsTypeOK'
      BY <1>0, <2>1, <2>2, <2>3, WithoutType DEF NoReset, SessionsTypeOK
    <2> QED
      <3>1. \A c \in Clients : session'[c].user \in {session[c].user, {}}
        BY <2>1, <2>2, WithoutType
      <3> QED BY <2>3, <2>4, <3>1 DEF NoReset, SessionsShape
  <1>13. ASSUME ResetDeleteFails PROVE SessionsTypeOK' /\ SessionsShape'
    BY <1>0, <1>13 DEF ResetDeleteFails, NoReset, SessionsTypeOK, SessionsShape, OneUser
  <1>14. CASE UNCHANGED sessionVars
    BY <1>14 DEF sessionVars, SessionsTypeOK, SessionsShape, OneUser
  <1> QED
    BY <1>1, <1>2, <1>3, <1>4, <1>5, <1>6, <1>7, <1>8, <1>9, <1>10, <1>11, <1>12, <1>13, <1>14
       DEF NextSessions

\* Every step keeps a reset effective: a session of a password that was replaced before
\* the reset deleted the sessions has been created after that.
LEMMA ResetStep ==
  /\ SessionsTypeOK /\ SessionsShape /\ ResetEndsSessions
  /\ [NextSessions]_sessionVars
  => ResetEndsSessions'
  <1> SUFFICES ASSUME SessionsTypeOK, SessionsShape, ResetEndsSessions,
                      [NextSessions]_sessionVars
               PROVE  ResetEndsSessions'
    OBVIOUS
  <1>1. CASE UNCHANGED <<session, ended>>
    BY <1>1 DEF ResetEndsSessions
  <1>2. ASSUME NEW c \in Clients, CreateSession(c) PROVE ResetEndsSessions'
    <2> DEFINE new == [user |-> login[c].user, with |-> login[c].read,
                       late |-> login[c].read < ended[LoginUser(c)]]
    <2>1. CASE UNCHANGED session
      BY <1>1, <1>2, <2>1 DEF CreateSession
    <2>2. CASE session' = [session EXCEPT ![c] = new]
      <3> SUFFICES ASSUME NEW d \in Clients, NEW u \in session'[d].user,
                          session'[d].with < ended'[u]
                   PROVE  session'[d].late
        BY DEF ResetEndsSessions
      <3>1. UNCHANGED ended
        BY <1>2 DEF CreateSession
      <3>2. CASE d # c
        BY <2>2, <3>1, <3>2 DEF ResetEndsSessions, SessionsTypeOK
      <3>3. CASE d = c
        <4>1. session'[d] = new
          BY <2>2, <3>3 DEF SessionsTypeOK
        <4>2. login[c].pc # "idle"
          BY <1>2 DEF CreateSession, Proceeds
        <4>3. PICK v \in Users : login[c].user = {v}
          BY <4>2 DEF SessionsShape, OneUser
        <4>4. u = v /\ LoginUser(c) = v
          BY <4>1, <4>3, LoginUserIs
        <4>5. login[c].read < ended[v]
          BY <3>1, <4>1, <4>4
        <4>6. session'[d].late = (login[c].read < ended[v])
          BY <4>1, <4>4
        <4> QED BY <4>5, <4>6, Zenon
      <3> QED BY <3>2, <3>3
    <2> QED BY <1>2, <2>1, <2>2 DEF CreateSession
  <1>3. ASSUME NEW c \in Clients, EndSession(c) PROVE ResetEndsSessions'
    BY <1>3 DEF EndSession, NoSession, ResetEndsSessions, SessionsTypeOK
  <1>4. ASSUME NEW u \in Users, DeleteUser(u) PROVE ResetEndsSessions'
    <2>1. session' = Without(u) /\ UNCHANGED ended
      BY <1>4 DEF DeleteUser
    <2>2. ASSUME NEW c \in Clients, NEW v \in session'[c].user
          PROVE  session'[c] = session[c]
      BY <2>1, <2>2, WithoutType
    <2> QED BY <2>1, <2>2 DEF ResetEndsSessions
  <1>5. ASSUME ResetDeletes PROVE ResetEndsSessions'
    <2>1. PICK u \in reset.user :
             session' = Without(u) /\ ended' = [ended EXCEPT ![u] = reset.to]
      BY <1>5 DEF ResetDeletes
    <2>2. u \in Users
      BY <2>1 DEF SessionsTypeOK
    <2>3. ASSUME NEW c \in Clients, NEW v \in session'[c].user
          PROVE  session'[c] = session[c] /\ v # u /\ v \in Users
      <3>1. session'[c] = session[c] /\ session[c].user # {u}
        BY <2>1, <2>2, <2>3, WithoutType
      <3>2. OneUser(session[c].user) /\ v \in session[c].user
        BY <2>3, <3>1 DEF SessionsShape
      <3> QED BY <3>1, <3>2 DEF OneUser
    <2>4. \A v \in Users : v # u => ended'[v] = ended[v]
      BY <2>1 DEF SessionsTypeOK
    <2> QED BY <2>3, <2>4 DEF ResetEndsSessions
  <1>6. CASE NextSessions
    BY <1>1, <1>2, <1>3, <1>4, <1>5, <1>6
       DEF NextSessions, WindowPasses, LoginAllowed, ChangePassword, LoginReads, LoginFails,
           LoginVerifies, CreateSessionFails, ResetStores, ResetDeleteFails
  <1>7. CASE UNCHANGED sessionVars
    BY <1>1, <1>7 DEF sessionVars
  <1> QED BY <1>6, <1>7

\* The logins under way that the limiter has let pass and that may yet count against k.
UnderWay(k) == {c \in Clients : /\ login[c].pc \in {"allowed", "read"}
                                /\ k = c \/ k \in login[c].user}

\* The inductive form of the lockout: what has been counted, and every login that may
\* yet be counted.
AttemptsAreBounded ==
    \A k \in Keys :
        entry[k].count + Cardinality(UnderWay(k)) <= MaxFailures + Cardinality(Clients) - 1

\* There are no more logins under way than clients.
LEMMA UnderWayFinite ==
  ASSUME NEW k
  PROVE  /\ Cardinality(Clients) \in Nat
         /\ Cardinality(UnderWay(k)) \in Nat
         /\ IsFiniteSet(UnderWay(k))
         /\ Cardinality(UnderWay(k)) <= Cardinality(Clients)
  <1>1. UnderWay(k) \subseteq Clients
    BY DEF UnderWay
  <1> QED BY <1>1, SessionsAssumption, FS_CardinalityType, FS_Subset

\* A step that starts no login and raises no count.
LEMMA CountsFall ==
  ASSUME SessionsTypeOK, AttemptsAreBounded,
         NEW k \in Keys, UnderWay(k)' \subseteq UnderWay(k),
         entry'[k].count \in Nat, entry'[k].count <= entry[k].count
  PROVE  entry'[k].count + Cardinality(UnderWay(k)') <= MaxFailures + Cardinality(Clients) - 1
  <1>1. entry[k].count \in Nat
    BY DEF SessionsTypeOK
  <1>2. /\ Cardinality(UnderWay(k)') \in Nat
        /\ Cardinality(UnderWay(k)') <= Cardinality(UnderWay(k))
    BY UnderWayFinite, FS_Subset, FS_CardinalityType
  <1> QED BY <1>1, <1>2, UnderWayFinite, SessionsAssumption DEF AttemptsAreBounded

\* Every step keeps the bound: a login begins only while its keys are below the
\* limit, and is counted when it ends.
LEMMA AttemptsStep ==
  /\ SessionsTypeOK /\ SessionsShape /\ AttemptsAreBounded
  /\ [NextSessions]_sessionVars
  => AttemptsAreBounded'
  <1> SUFFICES ASSUME SessionsTypeOK, SessionsShape, AttemptsAreBounded,
                      [NextSessions]_sessionVars, NEW k \in Keys
               PROVE  entry'[k].count + Cardinality(UnderWay(k)')
                        <= MaxFailures + Cardinality(Clients) - 1
    BY DEF AttemptsAreBounded
  <1> DEFINE Goal == entry'[k].count + Cardinality(UnderWay(k)')
                        <= MaxFailures + Cardinality(Clients) - 1
  <1> USE SessionsAssumption
  <1>0. /\ entry[k].count \in Nat /\ Cardinality(Clients) \in Nat
        /\ MaxFailures \in Nat \ {0} /\ Cardinality(UnderWay(k)) \in Nat
    BY UnderWayFinite DEF SessionsTypeOK
  <1>1. CASE UNCHANGED <<login, entry>>
    <2>1. UnderWay(k)' = UnderWay(k) /\ entry'[k] = entry[k]
      BY <1>1 DEF UnderWay
    <2> QED BY <1>0, <2>1, CountsFall
  <1>2. ASSUME NEW j \in Keys, WindowPasses(j) PROVE Goal
    <2>1. UnderWay(k)' = UnderWay(k)
      BY <1>2 DEF WindowPasses, UnderWay
    <2>2. entry'[k].count = entry[k].count
      BY <1>2 DEF WindowPasses, SessionsTypeOK
    <2> QED BY <1>0, <2>1, <2>2, CountsFall
  <1>3. ASSUME NEW c \in Clients, NEW u \in Users, LoginAllowed(c, u) PROVE Goal
    <2>1. entry'[k].count \in {0, entry[k].count}
      BY <1>3 DEF LoginAllowed, AfterBlocked, NoEntry
    <2>2. CASE Blocked(c, u)
      <3>1. UnderWay(k)' = UnderWay(k)
        BY <1>3, <2>2 DEF LoginAllowed, UnderWay
      <3> QED BY <1>0, <2>1, <3>1, CountsFall
    <2>3. CASE ~Blocked(c, u)
      <3>1. /\ login[c].pc = "idle"
            /\ login' = [login EXCEPT ![c] = [pc |-> "allowed", user |-> {u}, read |-> 0]]
            /\ entry' = AfterBlocked(c, u)
        BY <1>3, <2>3 DEF LoginAllowed, Proceeds
      <3>2. CASE k \in {c, u}
        <4>1. entry'[k].count \in Nat /\ entry'[k].count <= MaxFailures - 1
          <5>1. ~Locked(c) /\ ~Locked(k)
            BY <2>3, <3>2 DEF Blocked
          <5>2. CASE entry[k].old
            BY <1>0, <3>1, <3>2, <5>1, <5>2 DEF AfterBlocked, NoEntry
          <5>3. CASE ~entry[k].old
            <6>1. entry'[k] = entry[k]
              BY <3>1, <5>3 DEF AfterBlocked
            <6>2. entry[k].count < MaxFailures
              BY <1>0, <5>1, <5>3 DEF Locked
            <6> QED BY <1>0, <6>1, <6>2
          <5> QED BY <5>2, <5>3
        <4>2. /\ Cardinality(UnderWay(k)') \in Nat
              /\ Cardinality(UnderWay(k)') <= Cardinality(Clients)
          <5>1. UnderWay(k)' \subseteq Clients
            BY DEF UnderWay
          <5> QED BY <5>1, SessionsAssumption, FS_Subset, FS_CardinalityType
        <4> QED BY <1>0, <4>1, <4>2
      <3>3. CASE k \notin {c, u}
        <4>1. UnderWay(k)' \subseteq UnderWay(k)
          <5> SUFFICES ASSUME NEW d \in UnderWay(k)' PROVE d \in UnderWay(k)
            OBVIOUS
          <5>1. CASE d = c
            BY <3>1, <3>3, <5>1 DEF UnderWay, SessionsTypeOK
          <5>2. CASE d # c
            BY <3>1, <5>2 DEF UnderWay, SessionsTypeOK
          <5> QED BY <5>1, <5>2
        <4> QED BY <1>0, <2>1, <4>1, CountsFall
      <3> QED BY <3>2, <3>3
    <2> QED BY <2>2, <2>3
  <1>4. ASSUME NEW c \in Clients, LoginReads(c) PROVE Goal
    <2>1. UnderWay(k)' \subseteq UnderWay(k)
      BY <1>4 DEF LoginReads, Proceeds, UnderWay, SessionsTypeOK
    <2>2. entry' = entry
      BY <1>4 DEF LoginReads
    <2> QED BY <1>0, <2>1, <2>2, CountsFall
  <1>5. ASSUME NEW c \in Clients, LoginFails(c) PROVE Goal
    <2>0. /\ login[c].pc \in {"allowed", "read"}
          /\ login' = [login EXCEPT ![c] = NoLogin]
          /\ entry' = Failed(c, LoginUser(c))
      BY <1>5 DEF LoginFails
    <2>1. PICK u \in Users : login[c].user = {u}
      BY <2>0 DEF SessionsShape, OneUser
    <2>2. entry' = Failed(c, u)
      BY <2>0, <2>1, LoginUserIs
    <2>3. UnderWay(k)' = UnderWay(k) \ {c}
      BY <2>0 DEF UnderWay, NoLogin, SessionsTypeOK
    <2>4. CASE k \in {c, u}
      <3>1. c \in UnderWay(k)
        BY <2>0, <2>1, <2>4 DEF UnderWay
      <3>2. Cardinality(UnderWay(k)') = Cardinality(UnderWay(k)) - 1
        BY <2>3, <3>1, UnderWayFinite, FS_RemoveElement
      <3>3. entry'[k].count \in Nat /\ (entry'[k].count = 1 \/ entry'[k].count <= entry[k].count + 1)
        <4>1. Trimmed[k].count \in Nat /\ Trimmed[k].count <= entry[k].count
          BY TrimmedCount
        <4>2. Trimmed[k] \in [count: Nat, old: BOOLEAN]
          BY EntriesType
        <4>3. entry'[k] = IF Trimmed[k].old THEN [count |-> 1, old |-> FALSE]
                          ELSE [Trimmed[k] EXCEPT !.count = @ + 1]
          BY <2>2, <2>4 DEF Failed, KeysOf
        <4> QED BY <1>0, <4>1, <4>2, <4>3
      <3>4. entry[k].count + Cardinality(UnderWay(k)) <= MaxFailures + Cardinality(Clients) - 1
        BY DEF AttemptsAreBounded
      <3>5. Cardinality(UnderWay(k)) <= Cardinality(Clients)
        BY UnderWayFinite
      <3>6. CASE entry'[k].count = 1
        BY <1>0, <3>2, <3>5, <3>6
      <3>7. CASE entry'[k].count <= entry[k].count + 1
        BY <1>0, <3>2, <3>3, <3>4, <3>7
      <3> QED BY <3>3, <3>6, <3>7
    <2>5. CASE k \notin {c, u}
      <3>1. entry'[k] = Trimmed[k]
        BY <2>2, <2>5 DEF Failed, KeysOf
      <3> QED BY <2>3, <3>1, TrimmedCount, CountsFall
    <2> QED BY <2>4, <2>5
  <1>6. ASSUME NEW c \in Clients, LoginVerifies(c) PROVE Goal
    <2>1. UnderWay(k)' \subseteq UnderWay(k)
      BY <1>6 DEF LoginVerifies, Proceeds, UnderWay, SessionsTypeOK
    <2>2. entry'[k].count \in {0, entry[k].count}
      BY <1>6 DEF LoginVerifies, Succeeded, NoEntry
    <2> QED BY <1>0, <2>1, <2>2, CountsFall
  <1>7. ASSUME NEW c \in Clients, CreateSession(c) \/ CreateSessionFails(c) PROVE Goal
    <2>1. UnderWay(k)' \subseteq UnderWay(k)
      BY <1>7 DEF CreateSession, CreateSessionFails, Proceeds, NoLogin, UnderWay, SessionsTypeOK
    <2>2. entry' = entry
      BY <1>7 DEF CreateSession, CreateSessionFails
    <2> QED BY <1>0, <2>1, <2>2, CountsFall
  <1>8. CASE NextSessions
    BY <1>1, <1>2, <1>3, <1>4, <1>5, <1>6, <1>7, <1>8
       DEF NextSessions, ChangePassword, EndSession, ResetStores, DeleteUser, ResetDeletes, ResetDeleteFails
  <1>9. CASE UNCHANGED sessionVars
    BY <1>1, <1>9 DEF sessionVars
  <1> QED BY <1>8, <1>9

\* The bound on what has been counted follows.
LEMMA LockoutFollows == SessionsTypeOK /\ AttemptsAreBounded => LockoutHolds
  <1> SUFFICES ASSUME SessionsTypeOK, AttemptsAreBounded, NEW k \in Keys
               PROVE  entry[k].count <= MaxFailures + Cardinality(Clients) - 1
    BY DEF LockoutHolds
  <1>1. /\ entry[k].count \in Nat /\ Cardinality(Clients) \in Nat
        /\ MaxFailures \in Nat /\ Cardinality(UnderWay(k)) \in Nat
    BY UnderWayFinite, SessionsAssumption DEF SessionsTypeOK
  <1>2. entry[k].count + Cardinality(UnderWay(k)) <= MaxFailures + Cardinality(Clients) - 1
    BY DEF AttemptsAreBounded
  <1> QED BY <1>1, <1>2

\* A server that starts satisfies all of it.
LEMMA SessionsInit ==
  InitSessions => SessionsTypeOK /\ SessionsShape /\ AttemptsAreBounded /\ ResetEndsSessions
  <1> SUFFICES ASSUME InitSessions
               PROVE  SessionsTypeOK /\ SessionsShape /\ AttemptsAreBounded /\ ResetEndsSessions
    OBVIOUS
  <1> USE SessionsAssumption DEF InitSessions, NoLogin, NoSession, NoReset, NoEntry
  <1>1. SessionsTypeOK
    BY DEF SessionsTypeOK, Passwords
  <1>2. SessionsShape /\ ResetEndsSessions
    BY DEF SessionsShape, ResetEndsSessions
  <1>3. AttemptsAreBounded
    <2> SUFFICES ASSUME NEW k \in Keys
                 PROVE  entry[k].count + Cardinality(UnderWay(k))
                          <= MaxFailures + Cardinality(Clients) - 1
      BY DEF AttemptsAreBounded
    <2>1. entry[k].count = 0 /\ UnderWay(k) = {}
      BY DEF UnderWay
    <2>2. Cardinality({}) = 0 /\ Cardinality(Clients) \in Nat
      BY SessionsAssumption, FS_EmptySet, FS_CardinalityType
    <2> QED BY <2>1, <2>2
  <1> QED BY <1>1, <1>2, <1>3

\* The login limiter: no name and no address is counted more often than its limit and
\* the logins that were already under way when it was reached.
THEOREM LockoutsHold == SessionsSpec => []LockoutHolds
  <1>1. SessionsSpec => [](SessionsTypeOK /\ SessionsShape)
    BY SessionsInit, SessionsTypeStep, PTL DEF SessionsSpec
  <1>2. SessionsSpec => []AttemptsAreBounded
    BY <1>1, SessionsInit, AttemptsStep, PTL DEF SessionsSpec
  <1>3. QED
    BY <1>1, <1>2, LockoutFollows, PTL

\* A password reset: no session that was created from an earlier password before the
\* reset deleted the sessions outlives it.
THEOREM ResetsEndSessions == SessionsSpec => []ResetEndsSessions
  <1>1. SessionsSpec => [](SessionsTypeOK /\ SessionsShape)
    BY SessionsInit, SessionsTypeStep, PTL DEF SessionsSpec
  <1>2. QED
    BY <1>1, SessionsInit, ResetStep, PTL DEF SessionsSpec

-----------------------------------------------------------------------------
(* Access scopes.                                                          *)

\* One moment's tables have no row that another's lack.
Within(D, E) ==
    D.policies \subseteq E.policies /\ D.runs \subseteq E.runs /\ D.owned \subseteq E.owned

\* Grants, with the tables of a given moment, and the hosts that resources cover.
GrantsIn(D, ref, perms) ==
    {p.res : p \in {q \in D.policies : Means(ref, q.subject) /\ q.permission \in perms}}

Covered(D, grants) == {h \in Hosts : \E res \in grants : Covers(D, res, h)}

\* What is granted to a request is what is granted to its subjects.
LEMMA GrantedBySubject ==
  ASSUME NEW D, NEW refs, NEW perms
  PROVE  Granted(D, refs, perms) = {h \in Hosts : \E ref \in refs : h \in Covered(D, GrantsIn(D, ref, perms))}
  BY DEF Granted, Covered, GrantsIn

\* A resource is a type and an id.
LEMMA ResourcesArePairs ==
  ASSUME NEW res \in Resource
  PROVE  res = <<res[1], res[2]>>
  BY DEF Resource

\* More policies and more running containers grant more to a subject,
LEMMA GrantsGrow ==
  ASSUME NEW D, NEW E, Within(D, E), NEW perms, NEW ref
  PROVE  /\ GrantsIn(D, ref, perms) \subseteq GrantsIn(E, ref, perms)
         /\ Covered(D, GrantsIn(D, ref, perms)) \subseteq Covered(E, GrantsIn(E, ref, perms))
  BY DEF GrantsIn, Covered, Covers, Within

\* and to a request, the more so if it speaks for more subjects.
LEMMA GrantedGrows ==
  ASSUME NEW D, NEW E, Within(D, E), NEW perms, NEW refs, NEW more, refs \subseteq more
  PROVE  Granted(D, refs, perms) \subseteq Granted(E, more, perms)
  BY GrantsGrow, GrantedBySubject

\* The scope so far: nothing that the richer tables do not grant, and all that the poorer
\* ones grant to the subjects that are done with.
Collected(r, low, high, done) ==
    /\ r.hosts \subseteq Granted(high, r.asked, r.perms)
    /\ r.whole => Granted(low, done, r.perms) \subseteq r.hosts

\* The subject that is being resolved: the same of its policies and of its hosts.
Resolving(r, low, high, c) ==
    /\ GrantsIn(low, c, r.perms) \subseteq r.grants
    /\ r.grants \subseteq GrantsIn(high, c, r.perms)
    /\ SubjectIds(r.grants, "all") = {}
    /\ r.part \subseteq Covered(high, GrantsIn(high, c, r.perms))
    /\ SubjectIds(r.grants, "host") \cap Hosts \subseteq r.part
    /\ r.pc \in {"images", "groups"} /\ SubjectIds(r.grants, "container") # {}
         => low.runs \subseteq r.part
    /\ r.pc = "groups" /\ SubjectIds(r.grants, "image") # {} => low.runs \subseteq r.part

\* How far the scope is, in each of its queries.
Progress(r, low, high) ==
    \/ /\ r.pc = "policies" /\ ~r.all
       /\ Collected(r, low, high, r.asked \ r.refs)
    \/ /\ r.pc = "done" /\ ~r.all
       /\ Collected(r, low, high, r.asked)
    \/ /\ r.pc = "done" /\ r.all
       /\ Granted(high, r.asked, r.perms) = Hosts
    \/ /\ r.pc \in {"containers", "images", "groups"} /\ ~r.all
       /\ \E c \in r.asked \ r.refs :
             /\ Collected(r, low, high, (r.asked \ r.refs) \ {c})
             /\ Resolving(r, low, high, c)

\* The inductive invariant: what the scope has is relative to what the tables held throughout
\* and to what they held at some moment, and the present tables lie between the two.
ReaderInv(r, now) ==
    r.pc # "idle" =>
        /\ r.refs \subseteq r.asked
        /\ Within(r.always, now) /\ Within(now, r.ever)
        /\ Progress(r, r.always, r.ever)

ScopesInv == AccessScopesTypeOK /\ ReaderInv(reader, Tables)

\* A finished scope lies between what was always granted and what was ever granted.
LEMMA ScopeFollows == ScopesInv => ScopeIsGranted
  <1> SUFFICES ASSUME ScopesInv, reader.pc = "done"
               PROVE  /\ Scope \subseteq Granted(reader.ever, reader.asked, reader.perms)
                      /\ reader.whole => Granted(reader.always, reader.asked, reader.perms) \subseteq Scope
    BY DEF ScopeIsGranted
  <1>1. Progress(reader, reader.always, reader.ever)
    BY DEF ScopesInv, ReaderInv
  <1>2. Granted(reader.always, reader.asked, reader.perms) \subseteq Hosts
    BY DEF Granted
  <1>3. CASE reader.all
    BY <1>1, <1>2, <1>3 DEF Progress, Scope
  <1>4. CASE ~reader.all
    BY <1>1, <1>4 DEF Progress, Collected, Scope
  <1> QED BY <1>3, <1>4

\* A poorer and a richer database keep what was collected
LEMMA ProgressStays ==
  ASSUME NEW r, NEW s, NEW low, NEW high, NEW lower, NEW higher,
         Within(lower, low), Within(high, higher),
         Progress(r, low, high),
         s.pc = r.pc, s.all = r.all, s.refs = r.refs, s.asked = r.asked, s.perms = r.perms,
         s.hosts = r.hosts, s.whole = r.whole, s.grants = r.grants, s.part = r.part
  PROVE  Progress(s, lower, higher)
  <1>1. ASSUME NEW done, Collected(r, low, high, done)
        PROVE  Collected(s, lower, higher, done)
    <2>1. Granted(high, r.asked, r.perms) \subseteq Granted(higher, r.asked, r.perms)
      BY GrantedGrows
    <2>2. Granted(lower, done, r.perms) \subseteq Granted(low, done, r.perms)
      BY GrantedGrows
    <2> QED BY <1>1, <2>1, <2>2 DEF Collected
  <1>2. ASSUME NEW c, Resolving(r, low, high, c)
        PROVE  Resolving(s, lower, higher, c)
    <2>1. /\ GrantsIn(lower, c, r.perms) \subseteq GrantsIn(low, c, r.perms)
          /\ GrantsIn(high, c, r.perms) \subseteq GrantsIn(higher, c, r.perms)
          /\ Covered(high, GrantsIn(high, c, r.perms))
               \subseteq Covered(higher, GrantsIn(higher, c, r.perms))
      BY GrantsGrow
    <2> QED BY <1>2, <2>1 DEF Resolving, Within
  <1>3. Granted(high, r.asked, r.perms) = Hosts => Granted(higher, s.asked, s.perms) = Hosts
    <2>1. Granted(high, r.asked, r.perms) \subseteq Granted(higher, r.asked, r.perms)
      BY GrantedGrows
    <2>2. Granted(higher, r.asked, r.perms) \subseteq Hosts
      BY DEF Granted
    <2>3. s.asked = r.asked /\ s.perms = r.perms
      OBVIOUS
    <2>4. \A S, T : S \subseteq T /\ T \subseteq Hosts /\ S = Hosts => T = Hosts
      OBVIOUS
    <2> QED BY <2>1, <2>2, <2>3, <2>4, Zenon
  <1>4. CASE r.pc = "policies" /\ ~r.all /\ Collected(r, low, high, r.asked \ r.refs)
    BY <1>1, <1>4 DEF Progress
  <1>5. CASE r.pc = "done" /\ ~r.all /\ Collected(r, low, high, r.asked)
    BY <1>1, <1>5 DEF Progress
  <1>6. CASE r.pc = "done" /\ r.all /\ Granted(high, r.asked, r.perms) = Hosts
    BY <1>3, <1>6 DEF Progress
  <1>7. CASE /\ r.pc \in {"containers", "images", "groups"} /\ ~r.all
             /\ \E c \in r.asked \ r.refs :
                   /\ Collected(r, low, high, (r.asked \ r.refs) \ {c})
                   /\ Resolving(r, low, high, c)
    <2>1. PICK c \in r.asked \ r.refs :
                   /\ Collected(r, low, high, (r.asked \ r.refs) \ {c})
                   /\ Resolving(r, low, high, c)
      BY <1>7
    <2>2. Collected(s, lower, higher, (s.asked \ s.refs) \ {c})
      BY <1>1, <2>1
    <2>3. Resolving(s, lower, higher, c)
      BY <1>2, <2>1
    <2> QED BY <1>7, <2>1, <2>2, <2>3 DEF Progress
  <1> QED BY <1>4, <1>5, <1>6, <1>7 DEF Progress

\* There is no request at first.
LEMMA NoReaderType == NoReader \in Reader
  BY AccessScopesAssumption DEF NoReader, NoTables, Reader, Database

\* A change of the tables, of whatever kind, while a scope is computed or not
LEMMA ChangeKeepsReader ==
  ASSUME ScopesInv, Changes, Tables' \in Database
  PROVE  reader' \in Reader /\ ReaderInv(reader', Tables')
  <1>1. CASE ~Reading
    <2>1. reader' = NoReader
      BY <1>1 DEF Changes
    <2> QED BY <2>1, NoReaderType DEF ReaderInv, NoReader
  <1>2. CASE Reading
    <2> DEFINE is == Tables'
               always == Both(reader.always, is)
               ever == Either(reader.ever, is)
    <2>0. reader \in Reader /\ MaxChanges \in Nat /\ is \in Database
          /\ reader.always \in Database /\ reader.ever \in Database
      BY AccessScopesAssumption DEF ScopesInv, AccessScopesTypeOK, Reader
    <2>1. reader.changes < MaxChanges
          /\ reader' = [reader EXCEPT !.changes = @ + 1, !.always = always, !.ever = ever]
      BY <1>2 DEF Changes
    <2> HIDE DEF is
    <2>2. /\ always \in Database /\ ever \in Database
          /\ Within(always, reader.always) /\ Within(always, is)
          /\ Within(reader.ever, ever) /\ Within(is, ever)
      BY <2>0 DEF Both, Either, Within, Database
    <2> HIDE DEF always, ever
    <2>c. reader.changes + 1 \in 0..MaxChanges
      BY <2>0, <2>1 DEF Reader
    <2>d. reader' \in Reader
      BY <2>0, <2>1, <2>2, <2>c DEF Reader
    <2>3. /\ reader' \in Reader
          /\ reader'.pc = reader.pc /\ reader'.all = reader.all /\ reader'.refs = reader.refs
          /\ reader'.asked = reader.asked /\ reader'.perms = reader.perms
          /\ reader'.hosts = reader.hosts /\ reader'.whole = reader.whole
          /\ reader'.grants = reader.grants /\ reader'.part = reader.part
          /\ reader'.always = always /\ reader'.ever = ever
      BY <2>0, <2>1, <2>d DEF Reader
    <2>4. reader.refs \subseteq reader.asked /\ Progress(reader, reader.always, reader.ever)
      BY <1>2 DEF ScopesInv, ReaderInv, Reading
    <2>5. Progress(reader', always, ever)
      BY <2>2, <2>3, <2>4, ProgressStays
    <2> QED BY <2>2, <2>3, <2>4, <2>5 DEF ReaderInv, is
  <1> QED BY <1>1, <1>2

\* The databases do not move while a query is made.
LEMMA ReaderSteps ==
  ASSUME ScopesInv, reader.pc # "idle", UNCHANGED <<policies, runs, owned>>, reader' \in Reader,
         reader'.asked = reader.asked, reader'.perms = reader.perms,
         reader'.always = reader.always, reader'.ever = reader.ever,
         reader'.refs \subseteq reader.refs,
         \A low, high \in Database :
            Within(low, Tables) /\ Within(Tables, high) /\ Progress(reader, low, high)
              => Progress(reader', low, high)
  PROVE  ReaderInv(reader', Tables')
  <1>1. Tables' = Tables
    BY DEF Tables
  <1>2. reader.always \in Database /\ reader.ever \in Database
    BY DEF ScopesInv, AccessScopesTypeOK, Reader
  <1> QED BY <1>1, <1>2 DEF ScopesInv, ReaderInv

\* The query for the policies of a subject.
LEMMA ReadingPolicies ==
  ASSUME ScopesInv, ReadPolicies
  PROVE  reader' \in Reader /\ ReaderInv(reader', Tables')
  <1>0. reader \in Reader /\ policies \subseteq Policy /\ runs \subseteq Hosts
        /\ owned \subseteq Hosts
    BY DEF ScopesInv, AccessScopesTypeOK
  <1>1. PICK ref \in reader.refs :
          LET grants == Grants(ref, reader.perms)
              left   == [reader EXCEPT !.refs = @ \ {ref}]
          IN  reader' = IF SubjectIds(grants, "all") # {} THEN Merge(left, {}, TRUE)
                        ELSE [left EXCEPT !.pc = "containers", !.grants = grants,
                                          !.part = SubjectIds(grants, "host") \cap Hosts]
    BY DEF ReadPolicies
  <1> DEFINE grants == Grants(ref, reader.perms)
             left   == [reader EXCEPT !.refs = @ \ {ref}]
  <1>2. reader.pc = "policies" /\ UNCHANGED <<policies, runs, owned>>
    BY DEF ReadPolicies
  <1>3. left \in Reader /\ left.refs = reader.refs \ {ref} /\ left.hosts = reader.hosts
        /\ left.asked = reader.asked /\ left.perms = reader.perms /\ left.always = reader.always /\ left.ever = reader.ever
        /\ left.changes = reader.changes /\ left.all = reader.all /\ left.whole = reader.whole
    BY <1>0 DEF Reader
  <1>4. grants = GrantsIn(Tables, ref, reader.perms) /\ grants \subseteq Resource
    BY <1>0 DEF Grants, GrantsIn, Tables, Policy
  <1>5. reader.refs \subseteq reader.asked /\ ref \in reader.asked
    BY <1>1, <1>2 DEF ScopesInv, ReaderInv
  <1> HIDE DEF grants, left
  <1>6. CASE SubjectIds(grants, "all") # {}
    <2>1. reader' = Merge(left, {}, TRUE)
      BY <1>1, <1>6 DEF grants, left
    <2>2. /\ reader' \in Reader /\ reader'.pc = "done" /\ reader'.all = TRUE
          /\ reader'.refs = reader.refs \ {ref}
          /\ reader'.asked = reader.asked /\ reader'.perms = reader.perms
          /\ reader'.always = reader.always /\ reader'.ever = reader.ever /\ reader'.changes = reader.changes
      BY <1>3, <2>1 DEF Merge, Reader
    <2>3. PICK res \in grants : res[1] = "all"
      BY <1>6 DEF SubjectIds
    <2>4. ASSUME NEW low \in Database, NEW high \in Database,
                 Within(low, Tables), Within(Tables, high)
          PROVE  Granted(high, reader.asked, reader.perms) = Hosts
      <3>1. Granted(Tables, reader.asked, reader.perms) = Hosts
        BY <1>4, <1>5, <2>3, GrantedBySubject DEF Covered, Covers
      <3>2. Granted(Tables, reader.asked, reader.perms) \subseteq Granted(high, reader.asked, reader.perms)
        BY <2>4, GrantedGrows
      <3>3. Granted(high, reader.asked, reader.perms) \subseteq Hosts
        BY DEF Granted
      <3> QED BY <3>1, <3>2, <3>3
    <2>5. \A low, high \in Database :
            Within(low, Tables) /\ Within(Tables, high) /\ Progress(reader, low, high)
              => Progress(reader', low, high)
      BY <2>2, <2>4 DEF Progress
    <2> QED BY <1>2, <2>2, <2>5, ReaderSteps
  <1>7. CASE SubjectIds(grants, "all") = {}
    <2> DEFINE found == SubjectIds(grants, "host") \cap Hosts
    <2>1. reader' = [left EXCEPT !.pc = "containers", !.grants = grants, !.part = found]
      BY <1>1, <1>7 DEF grants, left
    <2>a. found \subseteq Hosts
      OBVIOUS
    <2> HIDE DEF found
    <2>2. /\ reader' \in Reader /\ reader'.pc = "containers" /\ reader'.all = reader.all
          /\ reader'.refs = reader.refs \ {ref} /\ reader'.hosts = reader.hosts
          /\ reader'.asked = reader.asked /\ reader'.perms = reader.perms
          /\ reader'.always = reader.always /\ reader'.ever = reader.ever /\ reader'.changes = reader.changes
          /\ reader'.whole = reader.whole /\ reader'.grants = grants /\ reader'.part = found
      BY <1>3, <1>4, <2>1, <2>a DEF Reader
    <2>3. ASSUME NEW low \in Database, NEW high \in Database,
                 Within(low, Tables), Within(Tables, high), Progress(reader, low, high)
          PROVE  Progress(reader', low, high)
      <3>1. ~reader.all /\ Collected(reader, low, high, reader.asked \ reader.refs)
        BY <1>2, <2>3 DEF Progress
      <3>2. ref \in reader'.asked \ reader'.refs
        BY <1>5, <2>2
      <3>3. Collected(reader', low, high, (reader'.asked \ reader'.refs) \ {ref})
        <4>1. (reader'.asked \ reader'.refs) \ {ref} = reader.asked \ reader.refs
          BY <1>5, <2>2
        <4> QED BY <2>2, <3>1, <4>1 DEF Collected
      <3>4. Within(low, Tables) /\ Within(Tables, high)
        BY <2>3
      <3>5. GrantsIn(low, ref, reader.perms) \subseteq grants
            /\ grants \subseteq GrantsIn(high, ref, reader.perms)
        BY <1>4, <3>4, GrantsGrow
      <3>6. found \subseteq Covered(high, GrantsIn(high, ref, reader.perms))
        <4> SUFFICES ASSUME NEW h \in found PROVE h \in Covered(high, GrantsIn(high, ref, reader.perms))
          OBVIOUS
        <4>1. PICK res \in grants : res[1] = "host" /\ res[2] = h
          BY DEF found, SubjectIds
        <4>2. res = <<"host", h>>
          BY <1>4, <4>1, ResourcesArePairs
        <4> QED BY <2>a, <3>5, <4>1, <4>2 DEF Covered, Covers
      <3>7. Resolving(reader', low, high, ref)
        BY <1>7, <2>2, <3>5, <3>6 DEF Resolving, found
      <3> QED BY <2>2, <3>1, <3>2, <3>3, <3>7 DEF Progress
    <2> QED BY <1>2, <2>2, <2>3, ReaderSteps
  <1> QED BY <1>6, <1>7

\* The part of a scope grows, from hosts that the richer database covers, and the next query is due.
LEMMA PartGrows ==
  ASSUME ScopesInv, NEW more \in SUBSET Hosts, NEW pc \in {"images", "groups"},
         reader.pc = (IF pc = "images" THEN "containers" ELSE "images"),
         more = (IF SubjectIds(reader.grants, IF pc = "images" THEN "container" ELSE "image") # {}
                 THEN runs ELSE {}),
         reader' = [reader EXCEPT !.pc = pc, !.part = @ \cup more],
         UNCHANGED <<policies, runs, owned>>
  PROVE  reader' \in Reader /\ ReaderInv(reader', Tables')
  <1>0. reader \in Reader /\ runs \subseteq Hosts
    BY DEF ScopesInv, AccessScopesTypeOK
  <1>1. /\ reader' \in Reader /\ reader'.pc = pc /\ reader'.all = reader.all
        /\ reader'.refs = reader.refs /\ reader'.hosts = reader.hosts
        /\ reader'.asked = reader.asked /\ reader'.perms = reader.perms
        /\ reader'.always = reader.always /\ reader'.ever = reader.ever /\ reader'.changes = reader.changes
        /\ reader'.whole = reader.whole /\ reader'.grants = reader.grants
        /\ reader'.part = reader.part \cup more
    BY <1>0 DEF Reader
  <1>2. ASSUME NEW low \in Database, NEW high \in Database,
               Within(low, Tables), Within(Tables, high), Progress(reader, low, high)
        PROVE  Progress(reader', low, high)
    <2>1. PICK c \in reader.asked \ reader.refs :
             /\ Collected(reader, low, high, (reader.asked \ reader.refs) \ {c})
             /\ Resolving(reader, low, high, c) /\ ~reader.all
      BY <1>2 DEF Progress
    <2>2. low.runs \subseteq runs /\ runs \subseteq high.runs
      BY <1>2 DEF Within, Tables
    <2>3. more \subseteq Covered(high, GrantsIn(high, c, reader.perms))
      <3> SUFFICES ASSUME NEW h \in more PROVE h \in Covered(high, GrantsIn(high, c, reader.perms))
        OBVIOUS
      <3>1. PICK res \in reader.grants : res[1] \in {"container", "image"}
        BY DEF SubjectIds
      <3>2. h \in high.runs /\ res \in GrantsIn(high, c, reader.perms)
        BY <2>1, <2>2, <3>1 DEF Resolving
      <3> QED BY <3>1, <3>2 DEF Covered, Covers
    <2>4. Resolving(reader', low, high, c)
      BY <1>1, <2>1, <2>2, <2>3 DEF Resolving
    <2>5. Collected(reader', low, high, (reader'.asked \ reader'.refs) \ {c})
      BY <1>1, <2>1 DEF Collected
    <2> QED BY <1>1, <2>1, <2>4, <2>5 DEF Progress
  <1> QED BY <1>1, <1>2, ReaderSteps

\* What the last of the queries makes of a subject's part.
LEMMA GroupsComplete ==
  ASSUME ScopesInv, NEW low \in Database, NEW high \in Database, NEW c,
         Within(low, Tables), Within(Tables, high), Resolving(reader, low, high, c), reader.pc = "groups"
  PROVE  LET part == reader.part \cup GroupHosts(SubjectIds(reader.grants, "asset_group"))
         IN  /\ Covered(low, GrantsIn(low, c, reader.perms)) \subseteq part
             /\ part \subseteq Covered(high, GrantsIn(high, c, reader.perms))
  <1> DEFINE ids == SubjectIds(reader.grants, "asset_group")
             part == reader.part \cup GroupHosts(ids)
  <1>0. reader.grants \subseteq Resource /\ low.owned \subseteq owned /\ owned \subseteq high.owned
        /\ owned \subseteq Hosts
    BY DEF ScopesInv, AccessScopesTypeOK, Reader, Within, Tables
  <1>1. ASSUME NEW h \in Covered(low, GrantsIn(low, c, reader.perms)) PROVE h \in part
    <2>1. PICK res \in reader.grants : Covers(low, res, h)
      BY DEF Covered, Resolving
    <2>2. h \in Hosts
      BY DEF Covered
    <2>3. CASE res[1] = "all"
      BY <2>3 DEF Resolving, SubjectIds
    <2>4. CASE res = <<"host", h>>
      <3>1. res[1] = "host" /\ res[2] = h
        BY <2>4
      <3>2. h \in SubjectIds(reader.grants, "host")
        BY <3>1 DEF SubjectIds
      <3> QED BY <2>2, <3>2 DEF Resolving
    <2>5. CASE res[1] \in {"container", "image"} /\ h \in low.runs
      <3>1. SubjectIds(reader.grants, "container") # {} \/ SubjectIds(reader.grants, "image") # {}
        BY <2>5 DEF SubjectIds
      <3> QED BY <2>5, <3>1 DEF Resolving
    <2>6. CASE res = <<"asset_group", Star>>
      <3>1. Star \in ids
        BY <2>6 DEF SubjectIds
      <3> QED BY <2>2, <3>1 DEF GroupHosts
    <2>7. CASE res = <<"asset_group", Owner>> /\ h \in low.owned
      <3>1. Owner \in ids
        BY <2>7 DEF SubjectIds
      <3> QED BY <1>0, <2>2, <2>7, <3>1 DEF GroupHosts
    <2> QED BY <2>1, <2>3, <2>4, <2>5, <2>6, <2>7 DEF Covers
  <1>2. ASSUME NEW h \in GroupHosts(ids) PROVE h \in Covered(high, GrantsIn(high, c, reader.perms))
    <2>1. ASSUME NEW id \in ids PROVE <<"asset_group", id>> \in GrantsIn(high, c, reader.perms)
      <3>1. PICK res \in reader.grants : res[1] = "asset_group" /\ res[2] = id
        BY DEF SubjectIds
      <3>2. res = <<"asset_group", id>>
        BY <1>0, <3>1, ResourcesArePairs
      <3> QED BY <3>2 DEF Resolving
    <2>2. CASE Star \in ids
      BY <2>1, <2>2 DEF GroupHosts, Covered, Covers
    <2>3. CASE Star \notin ids
      BY <1>0, <2>1, <2>3 DEF GroupHosts, Covered, Covers
    <2> QED BY <2>2, <2>3
  <1> QED BY <1>1, <1>2 DEF Resolving

\* A subject that is done with leaves the scope complete for one more of them.
LEMMA MergedIsCollected ==
  ASSUME NEW r, NEW s, NEW low, NEW high, NEW c \in r.asked \ r.refs, NEW part,
         s.asked = r.asked, s.perms = r.perms, s.hosts = r.hosts \cup part, s.refs = r.refs,
         s.whole => r.whole /\ Covered(low, GrantsIn(low, c, r.perms)) \subseteq part,
         part \subseteq Covered(high, GrantsIn(high, c, r.perms)),
         Collected(r, low, high, (r.asked \ r.refs) \ {c})
  PROVE  Collected(s, low, high, s.asked \ s.refs)
  <1>1. part \subseteq Granted(high, r.asked, r.perms)
    BY GrantedBySubject DEF Covered
  <1>2. Granted(low, r.asked \ r.refs, r.perms)
          \subseteq Granted(low, (r.asked \ r.refs) \ {c}, r.perms)
                       \cup Covered(low, GrantsIn(low, c, r.perms))
    BY GrantedBySubject
  <1> QED BY <1>1, <1>2 DEF Collected

\* What MergeAccessScopes makes of the scope so far, unless a policy covers all.
LEMMA MergeType ==
  ASSUME NEW r \in Reader, NEW part \in SUBSET Hosts
  PROVE  LET s == Merge(r, part, FALSE)
         IN  /\ s \in Reader /\ s.pc = (IF r.refs = {} THEN "done" ELSE "policies")
             /\ ~s.all /\ s.hosts = r.hosts \cup part /\ s.refs = r.refs
             /\ s.asked = r.asked /\ s.perms = r.perms /\ s.always = r.always /\ s.ever = r.ever
             /\ s.changes = r.changes /\ s.whole = r.whole
  BY DEF Merge, Reader

\* A scope that is merged is finished, or goes on with the next subject.
LEMMA MergeKeeps ==
  ASSUME NEW s, NEW low, NEW high, ~s.all,
         s.pc = (IF s.refs = {} THEN "done" ELSE "policies"),
         Collected(s, low, high, s.asked \ s.refs)
  PROVE  Progress(s, low, high)
  <1>1. CASE s.refs = {}
    <2>1. s.asked \ s.refs = s.asked
      BY <1>1
    <2> QED BY <1>1, <2>1 DEF Progress
  <1>2. CASE s.refs # {}
    BY <1>2 DEF Progress
  <1> QED BY <1>1, <1>2

\* The query for the hosts of the asset groups, which is the last for a subject.
LEMMA ResolvingGroups ==
  ASSUME ScopesInv, ResolveGroups
  PROVE  reader' \in Reader /\ ReaderInv(reader', Tables')
  <1> DEFINE part == reader.part \cup GroupHosts(SubjectIds(reader.grants, "asset_group"))
  <1>0. /\ reader \in Reader /\ reader.pc = "groups" /\ UNCHANGED <<policies, runs, owned>>
        /\ reader' = Merge(reader, part, FALSE)
    BY DEF ScopesInv, AccessScopesTypeOK, ResolveGroups
  <1>1. part \in SUBSET Hosts
    BY DEF ScopesInv, AccessScopesTypeOK, Reader, GroupHosts
  <1> HIDE DEF part
  <1>2. /\ reader' \in Reader /\ reader'.pc = (IF reader.refs = {} THEN "done" ELSE "policies")
        /\ ~reader'.all /\ reader'.hosts = reader.hosts \cup part /\ reader'.refs = reader.refs
        /\ reader'.asked = reader.asked /\ reader'.perms = reader.perms
        /\ reader'.always = reader.always /\ reader'.ever = reader.ever
        /\ reader'.changes = reader.changes /\ reader'.whole = reader.whole
    BY <1>0, <1>1, MergeType
  <1>3. ASSUME NEW low \in Database, NEW high \in Database,
               Within(low, Tables), Within(Tables, high), Progress(reader, low, high)
        PROVE  Progress(reader', low, high)
    <2>1. PICK c \in reader.asked \ reader.refs :
             /\ Collected(reader, low, high, (reader.asked \ reader.refs) \ {c})
             /\ Resolving(reader, low, high, c)
      BY <1>0, <1>3 DEF Progress
    <2>2. /\ Covered(low, GrantsIn(low, c, reader.perms)) \subseteq part
          /\ part \subseteq Covered(high, GrantsIn(high, c, reader.perms))
      BY <1>0, <1>3, <2>1, GroupsComplete DEF part
    <2>3. Collected(reader', low, high, reader'.asked \ reader'.refs)
      BY <1>2, <2>1, <2>2, MergedIsCollected
    <2> QED BY <1>2, <2>3, MergeKeeps
  <1> QED BY <1>0, <1>2, <1>3, ReaderSteps

\* A query that fails leaves the scope as it is, and no longer whole.
LEMMA ScopeFailing ==
  ASSUME ScopesInv, ScopeFails
  PROVE  reader' \in Reader /\ ReaderInv(reader', Tables')
  <1>0. /\ reader \in Reader /\ UNCHANGED <<policies, runs, owned>>
        /\ reader.pc \in {"policies", "containers", "images", "groups"}
    BY DEF ScopesInv, AccessScopesTypeOK, ScopeFails
  <1>1. PICK refs \in SUBSET reader.refs :
          /\ reader' = Merge([reader EXCEPT !.refs = refs, !.whole = FALSE], {}, FALSE)
    <2>1. CASE reader.pc = "policies"
      <3>1. PICK ref \in reader.refs :
              reader' = Merge([reader EXCEPT !.refs = @ \ {ref}, !.whole = FALSE], {}, FALSE)
        BY <2>1 DEF ScopeFails
      <3>2. reader.refs \ {ref} \in SUBSET reader.refs
        OBVIOUS
      <3> QED BY <3>1, <3>2
    <2>2. CASE reader.pc # "policies"
      <3>1. reader' = Merge([reader EXCEPT !.whole = FALSE], {}, FALSE)
        BY <2>2 DEF ScopeFails
      <3>2. [reader EXCEPT !.whole = FALSE] = [reader EXCEPT !.refs = reader.refs, !.whole = FALSE]
        BY <1>0 DEF Reader
      <3> QED BY <3>1, <3>2
    <2> QED BY <2>1, <2>2
  <1> DEFINE r == [reader EXCEPT !.refs = refs, !.whole = FALSE]
  <1>2. r \in Reader /\ r.refs = refs /\ ~r.whole /\ r.hosts = reader.hosts
        /\ r.asked = reader.asked /\ r.perms = reader.perms /\ r.always = reader.always /\ r.ever = reader.ever
        /\ r.changes = reader.changes
    BY <1>0 DEF Reader
  <1> HIDE DEF r
  <1>3. /\ reader' \in Reader /\ reader'.pc = (IF reader'.refs = {} THEN "done" ELSE "policies")
        /\ ~reader'.all /\ reader'.hosts = reader.hosts /\ reader'.refs = refs
        /\ reader'.asked = reader.asked /\ reader'.perms = reader.perms
        /\ reader'.always = reader.always /\ reader'.ever = reader.ever /\ reader'.changes = reader.changes /\ ~reader'.whole
    <2>1. reader' = Merge(r, {}, FALSE) /\ {} \in SUBSET Hosts
      BY <1>1 DEF r
    <2> QED BY <1>2, <2>1, MergeType
  <1>4. ASSUME NEW low \in Database, NEW high \in Database,
               Within(low, Tables), Within(Tables, high), Progress(reader, low, high)
        PROVE  Progress(reader', low, high)
    <2>1. reader.hosts \subseteq Granted(high, reader.asked, reader.perms)
      BY <1>0, <1>4 DEF Progress, Collected
    <2>2. Collected(reader', low, high, reader'.asked \ reader'.refs)
      BY <1>3, <2>1 DEF Collected
    <2> QED BY <1>3, <2>2, MergeKeeps
  <1> QED BY <1>0, <1>3, <1>4, ReaderSteps

\* A scope begins in one moment.
LEMMA BeginningScope ==
  ASSUME ScopesInv, NEW refs \in SUBSET Ref,
         NEW perms \in {{"read", "admin"}, {"export", "admin"}}, BeginScope(refs, perms)
  PROVE  reader' \in Reader /\ ReaderInv(reader', Tables')
  <1> DEFINE now == Tables
  <1>1. now' = now /\ now \in Database
    BY DEF BeginScope, ScopesInv, AccessScopesTypeOK, Tables, Database
  <1>2. reader' = [NoReader EXCEPT !.pc = "policies", !.perms = perms, !.asked = refs,
                                   !.refs = refs, !.always = now, !.ever = now]
    BY DEF BeginScope
  <1> HIDE DEF now
  <1>3. Within(now, now)
    BY DEF Within
  <1>4. /\ reader' \in Reader /\ reader'.pc = "policies" /\ ~reader'.all
        /\ reader'.hosts = {} /\ reader'.refs = refs /\ reader'.asked = refs
        /\ reader'.perms = perms /\ reader'.always = now /\ reader'.ever = now
    BY <1>1, <1>2, NoReaderType DEF NoReader, Reader
  <1>5. Collected(reader', now, now, reader'.asked \ reader'.refs)
    BY <1>4 DEF Collected, Granted
  <1>6. Progress(reader', now, now)
    BY <1>4, <1>5 DEF Progress
  <1>7. ReaderInv(reader', now)
    BY <1>3, <1>4, <1>6 DEF ReaderInv
  <1> QED BY <1>1, <1>4, <1>7 DEF now

\* Every query, every failure and every change keep the invariant.
LEMMA ScopesStep ==
  ASSUME ScopesInv, [NextAccessScopes]_accessVars
  PROVE  ScopesInv'
  <1>0. /\ subjects \subseteq Subject /\ policies \subseteq Policy
        /\ runs \subseteq Hosts /\ owned \subseteq Hosts
    BY DEF ScopesInv, AccessScopesTypeOK
  <1>a. ASSUME reader' \in Reader /\ ReaderInv(reader', Tables'),
               UNCHANGED <<subjects, policies, runs, owned>>
        PROVE  ScopesInv'
    BY <1>a DEF ScopesInv, AccessScopesTypeOK
  <1>b. ASSUME Changes, subjects' \subseteq Subject, policies' \subseteq Policy,
               runs' \subseteq Hosts, owned' \subseteq Hosts
        PROVE  ScopesInv'
    <2>1. Tables' \in Database
      BY <1>b DEF Tables, Database
    <2>2. reader' \in Reader /\ ReaderInv(reader', Tables')
      BY <1>b, <2>1, ChangeKeepsReader
    <2> QED BY <1>b, <2>2 DEF ScopesInv, AccessScopesTypeOK
  <1>1. ASSUME NEW s \in Subject, UpsertAccessSubject(s) PROVE ScopesInv'
    BY <1>0, <1>1, <1>b DEF UpsertAccessSubject
  <1>2. ASSUME NEW s \in Subject, DeleteAccessSubject(s) PROVE ScopesInv'
    BY <1>0, <1>2, <1>b DEF DeleteAccessSubject
  <1>3. ASSUME NEW ref \in Ref, NEW offer \in Offers, UpsertAccessPolicy(ref, offer[1], offer[2])
        PROVE  ScopesInv'
    <2>1. PICK s \in subjects : policies' = policies \cup
             {[subject |-> s, res |-> offer[1], permission |-> offer[2]]}
      BY <1>3 DEF UpsertAccessPolicy
    <2>2. offer[1] \in Resource /\ offer[2] \in Permissions
      BY OffersAssumption
    <2>3. policies' \subseteq Policy
      BY <1>0, <2>1, <2>2 DEF Policy
    <2> QED BY <1>0, <1>3, <1>b, <2>3 DEF UpsertAccessPolicy
  <1>4. ASSUME NEW p \in policies, DeleteAccessPolicy(p) PROVE ScopesInv'
    BY <1>0, <1>4, <1>b DEF DeleteAccessPolicy
  <1>5. ASSUME NEW h \in Hosts, LatestScanChanges(h) PROVE ScopesInv'
    BY <1>0, <1>5, <1>b DEF LatestScanChanges
  <1>13. ASSUME NEW h \in Hosts, AddHostToAssetGroup(h) PROVE ScopesInv'
    BY <1>0, <1>13, <1>b DEF AddHostToAssetGroup
  <1>14. ASSUME NEW h \in Hosts, RemoveHostFromAssetGroup(h) PROVE ScopesInv'
    BY <1>0, <1>14, <1>b DEF RemoveHostFromAssetGroup
  <1>6. ASSUME NEW refs \in SUBSET Ref, NEW perms \in {{"read", "admin"}, {"export", "admin"}},
               BeginScope(refs, perms)
        PROVE  ScopesInv'
    BY <1>6, <1>a, BeginningScope DEF BeginScope
  <1>7. CASE ReadPolicies
    BY <1>7, <1>a, ReadingPolicies DEF ReadPolicies
  <1>8. CASE ResolveContainers
    <2>1. reader' \in Reader /\ ReaderInv(reader', Tables')
      BY <1>0, <1>8, PartGrows DEF ResolveContainers
    <2> QED BY <1>8, <1>a, <2>1 DEF ResolveContainers
  <1>9. CASE ResolveImages
    <2>1. reader' \in Reader /\ ReaderInv(reader', Tables')
      BY <1>0, <1>9, PartGrows DEF ResolveImages
    <2> QED BY <1>9, <1>a, <2>1 DEF ResolveImages
  <1>10. CASE ResolveGroups
    BY <1>10, <1>a, ResolvingGroups DEF ResolveGroups
  <1>11. CASE ScopeFails
    BY <1>11, <1>a, ScopeFailing DEF ScopeFails
  <1>12. CASE UNCHANGED accessVars
    BY <1>12 DEF accessVars, ScopesInv, AccessScopesTypeOK, Tables
  <1> QED
    BY <1>1, <1>2, <1>3, <1>4, <1>5, <1>6, <1>7, <1>8, <1>9, <1>10, <1>11, <1>12,
       <1>13, <1>14 DEF NextAccessScopes

\* However often the tables change between the queries of a scope, it holds no host but those
\* that what the tables held at some moment meanwhile grants, and, if no query failed, every
\* host that what they held throughout grants.
THEOREM ScopesAreGranted == AccessScopesSpec => []ScopeIsGranted
  <1>1. InitAccessScopes => ScopesInv
    <2> SUFFICES ASSUME InitAccessScopes PROVE ScopesInv
      OBVIOUS
    <2>1. reader = NoReader /\ NoReader \in Reader
      BY NoReaderType DEF InitAccessScopes
    <2> QED BY <2>1 DEF InitAccessScopes, ScopesInv, AccessScopesTypeOK, ReaderInv, NoReader
  <1>2. ScopesInv /\ [NextAccessScopes]_accessVars => ScopesInv'
    BY ScopesStep
  <1>3. QED
    BY <1>1, <1>2, ScopeFollows, PTL DEF AccessScopesSpec

-----------------------------------------------------------------------------
(* The Trivy database.                                                     *)

\* While a database is being loaded: what is moved in is a database, and the old one
\* is in its backup once it has been moved away.
LoadIsSafe ==
    /\ load.pc # "idle" => load.new \in Versions
    /\ load.pc = "moved" /\ hadOne => load.backup # None

\* The inductive invariant.
TrivyDatabaseInv == TrivyDatabaseTypeOK /\ LoadIsSafe /\ DatabaseIsKept

\* A manager that starts satisfies it.
LEMMA TrivyDatabaseInit == InitTrivyDatabase => TrivyDatabaseInv
  <1> SUFFICES ASSUME InitTrivyDatabase PROVE TrivyDatabaseInv
    OBVIOUS
  <1> USE TrivyDatabaseAssumption DEF InitTrivyDatabase, NoLoad
  <1>1. ready \in BOOLEAN /\ hadOne \in BOOLEAN /\ (hadOne => dir # None)
    BY Zenon
  <1>2. status \in {"ok", "missing", "failed"} /\ dfaults \in 0..DiskFaults
    OBVIOUS
  <1>3. QED
    BY <1>1, <1>2 DEF TrivyDatabaseInv, TrivyDatabaseTypeOK, LoadIsSafe, DatabaseIsKept

\* Every file operation, failed or not, and a restart keep it.
LEMMA TrivyDatabaseStep ==
  TrivyDatabaseInv /\ [NextTrivyDatabase]_trivyVars => TrivyDatabaseInv'
  <1> SUFFICES ASSUME TrivyDatabaseInv, [NextTrivyDatabase]_trivyVars
               PROVE  TrivyDatabaseInv'
    OBVIOUS
  <1> USE TrivyDatabaseAssumption
      DEF TrivyDatabaseInv, TrivyDatabaseTypeOK, LoadIsSafe, DatabaseIsKept
  <1>1. ASSUME NEW v \in Versions, StageArchive(v) PROVE TrivyDatabaseInv'
    BY <1>1 DEF StageArchive, NoLoad
  <1>2. ASSUME NEW v \in Versions, DownloadSucceeds(v) PROVE TrivyDatabaseInv'
    BY <1>2 DEF DownloadSucceeds, NoLoad, Disturbed
  <1>3. CASE StageFails
    BY <1>3 DEF StageFails, NoLoad
  <1>4. CASE BackUpDatabase
    BY <1>4 DEF BackUpDatabase, Disturbed
  <1>5. CASE BackUpFails
    BY <1>5 DEF BackUpFails, DiskFault, NoLoad
  <1>6. CASE ActivateDatabase
    BY <1>6 DEF ActivateDatabase, NoLoad
  <1>7. CASE ActivateFails
    BY <1>7 DEF ActivateFails, DiskFault, NoLoad
  <1>8. CASE RestoreFails
    <2>1. /\ ready' \in BOOLEAN /\ hadOne' \in BOOLEAN /\ ~hadOne'
          /\ UNCHANGED <<dir, archive>>
      BY <1>8, Zenon DEF RestoreFails
    <2>2. load' = NoLoad /\ status' = "failed" /\ dfaults' = dfaults - 1 /\ dfaults > 0
      BY <1>8 DEF RestoreFails, DiskFault
    <2> QED
      BY <2>1, <2>2 DEF NoLoad
  <1>9. CASE DownloadFails
    BY <1>9 DEF DownloadFails, NoLoad
  <1>10. CASE BeginArchive
    BY <1>10 DEF BeginArchive
  <1>11. CASE EndArchive
    BY <1>11 DEF EndArchive
  <1>12. CASE RestartManager
    <2>1. /\ ready' \in BOOLEAN /\ hadOne' \in BOOLEAN /\ (hadOne' => dir' # None)
          /\ UNCHANGED dir
      BY <1>12, Zenon DEF RestartManager
    <2>2. /\ status' \in {"ok", "missing", "failed"} /\ archive' = "idle"
          /\ load' = NoLoad /\ dfaults' = dfaults - 1 /\ dfaults > 0
      BY <1>12 DEF RestartManager, DiskFault
    <2> QED
      BY <2>1, <2>2 DEF NoLoad
  <1>13. CASE UNCHANGED trivyVars
    BY <1>13 DEF trivyVars
  <1> QED
    BY <1>1, <1>2, <1>3, <1>4, <1>5, <1>6, <1>7, <1>8, <1>9, <1>10, <1>11, <1>12,
       <1>13 DEF NextTrivyDatabase

\* LoadFromFile never loses the database there was: whatever fails, in every state but
\* the one between its two renames there is one, unless the restore failed too.
THEOREM TheDatabaseIsKept == TrivyDatabaseSpec => []DatabaseIsKept
  <1>1. TrivyDatabaseInv => DatabaseIsKept
    BY DEF TrivyDatabaseInv
  <1>2. QED
    BY <1>1, TrivyDatabaseInit, TrivyDatabaseStep, PTL DEF TrivyDatabaseSpec

-----------------------------------------------------------------------------
(* Imports, prunes and rebuilds of the CVE database.                       *)

\* What a transaction sees of a row.
Sees(work, rs, key) ==
    IF Exists(work.written[key]) THEN work.written[key]
    ELSE IF key \in work.gone THEN NoCve ELSE rs[key]

\* The transactions.
TxType ==
    [at: {"idle", "delete", "upsert", "wipe", "read", "write", "commit"},
     kind: {"rebuild", "import", "bundle", "prune"}, feeds: SUBSET Feeds, finalize: BOOLEAN,
     id: 0..MaxTxs, brings: [CveKeys -> SUBSET Items], old: SUBSET CveKeys,
     gone: SUBSET CveKeys, written: [CveKeys -> CveRow], wiped: SUBSET Tuple,
     seen: [CveKeys -> CveRow], added: SUBSET Tuple, tries: Nat]

\* RowLocks and Derived of a transaction that is given; whether it copies the rows before
\* it deletes, as a rebuild of the reference keys does.
Locks(work) == work.gone \cup {key \in CveKeys : Exists(work.written[key])}
DerivedOf(work) == UNION {Tuples(key, work.seen[key]) : key \in CveKeys}
CopiesFirst(work, of) == work.kind = "rebuild" /\ of = "reference"
\* What does not exist has no items.
NoItems(row) == row.id = 0 => row.items = {}

\* Where a transaction stands.
Stage(work, of) ==
    /\ work.at = "idle" => work = IdleTx
    /\ work.at \in {"delete", "upsert"} => work.kind # "rebuild" /\ work.written = NoRows
    /\ work.at = "delete" => work.gone = {}
    /\ work.kind = "rebuild" => work.finalize /\ work.written = NoRows /\ work.gone = {}
    /\ work.kind # "rebuild" => work.id # 0
    /\ work.at \in {"idle", "delete", "upsert"} => work.wiped = {} /\ work.seen = NoRows
    /\ work.at = "wipe" => work.wiped = {} /\ (CopiesFirst(work, of) \/ work.seen = NoRows)
    /\ work.at = "read" => work.seen = NoRows /\ (CopiesFirst(work, of) => work.wiped = {})
    /\ work.at # "commit" => work.added = {}
    /\ work.at = "commit" => work.added = DerivedOf(work)
    /\ \A key \in CveKeys : work.brings[key] # {} \/ Exists(work.written[key]) => key[2] \in work.feeds
    /\ \A key \in CveKeys : NoItems(work.seen[key]) /\ NoItems(work.written[key])
    /\ \A t \in work.wiped : t.key[2] \in work.feeds
    /\ work.at \in {"write", "commit"} /\ work.finalize =>
          \A key \in CveKeys : Exists(work.written[key]) => work.seen[key] = work.written[key]

\* What a transaction has written, seen and wiped, against the rows.
Agrees(work, rs, of) ==
    /\ \A key \in CveKeys : Exists(work.written[key]) =>
          \/ work.written[key].id = work.id
          \/ /\ work.written[key].id = rs[key].id /\ key \notin work.gone
             /\ rs[key].items \subseteq work.written[key].items
    /\ \A key \in CveKeys : Exists(work.seen[key]) =>
          \/ work.seen[key] = work.written[key]
          \/ /\ ~Exists(work.written[key])
             /\ work.seen[key].id = rs[key].id => work.seen[key].items \subseteq rs[key].items
    /\ \A t \in work.wiped : rs[t.key].id = t.id => t.item \in rs[t.key].items
    /\ work.at \in {"write", "commit"} /\ ~CopiesFirst(work, of) =>
          \A t \in work.wiped : Sees(work, rs, t.key).id = t.id => t \in DerivedOf(work)

\* The id of a transaction that is over.
Retired(i) == i \in 1..begun /\ \A j \in Jobs : txs[j].id # i

\* Ids are never given out again: those of the rows, of the derived rows and of what a
\* transaction has read are of transactions that are over, or of its own rows.
IdsAreFresh ==
    /\ begun \in 0..MaxTxs
    /\ \A j \in Jobs : txs[j].id \in 0..begun
    /\ \A j, k \in Jobs : j # k => txs[j].id # txs[k].id \/ txs[j].id = 0
    /\ \A key \in CveKeys : Exists(rows[key]) => Retired(rows[key].id)
    /\ \A t \in index : Retired(t.id)
    /\ \A j \in Jobs : \A t \in txs[j].wiped : Retired(t.id)
    /\ \A j \in Jobs : \A key \in CveKeys : Exists(txs[j].seen[key]) =>
           txs[j].seen[key] = txs[j].written[key] \/ Retired(txs[j].seen[key].id)

\* The types of the tables.
TablesType ==
    /\ rows \in [CveKeys -> CveRow] /\ index \in SUBSET Tuple
    /\ \A key \in CveKeys : NoItems(rows[key])
    /\ txs \in [Jobs -> TxType]
    /\ table \in {"affected", "reference"}

\* No row is changed by two transactions at once.
LocksExclude == \A j, k \in Jobs : j # k => Locks(txs[j]) \cap Locks(txs[k]) = {}
\* Nothing is in the derived table that cannot be derived from a row.
IndexIsSound == \A t \in index : rows[t.key].id = t.id /\ t.item \in rows[t.key].items
\* Every transaction is where its statements have brought it.
TxsInv == \A j \in Jobs : Stage(txs[j], table) /\ Agrees(txs[j], rows, table)

\* The inductive invariant.
ImportInv ==
    TablesType /\ TxsInv /\ LocksExclude /\ IndexIsSound /\ IdsAreFresh /\ IndexIsComplete

\* No transaction,
LEMMA IdleTxType == IdleTx \in TxType /\ NoRows \in [CveKeys -> CveRow] /\ IdleTx.id = 0
                      /\ \A key \in CveKeys : ~Exists(NoRows[key]) /\ NoItems(NoRows[key])
  <1>1. NoCve \in CveRow
    BY CveImportAssumption DEF NoCve, CveRow
  <1>2. NoRows \in [CveKeys -> CveRow]
    BY <1>1 DEF NoRows
  <1>3. \A key \in CveKeys : ~Exists(NoRows[key]) /\ NoItems(NoRows[key])
    BY DEF NoRows, NoCve, Exists, NoItems
  <1>4. IdleTx \in TxType
    BY <1>2, CveImportAssumption DEF IdleTx, TxType
  <1> QED BY <1>2, <1>3, <1>4 DEF IdleTx

\* which agrees with anything.
LEMMA IdleTxStage ==
  ASSUME NEW of
  PROVE  /\ Stage(IdleTx, of) /\ Locks(IdleTx) = {}
         /\ \A rs \in [CveKeys -> CveRow] : Agrees(IdleTx, rs, of)
  <1>1. DerivedOf(IdleTx) = {}
    BY DEF DerivedOf, IdleTx, NoRows, NoCve, Tuples
  <1>2. \A key \in CveKeys : ~Exists(IdleTx.written[key]) /\ ~Exists(IdleTx.seen[key])
          /\ NoItems(IdleTx.seen[key]) /\ NoItems(IdleTx.written[key]) /\ IdleTx.brings[key] = {}
    BY IdleTxType DEF IdleTx
  <1>3. Stage(IdleTx, of)
    BY <1>1, <1>2 DEF Stage, IdleTx
  <1> QED BY <1>2, <1>3 DEF Agrees, Locks, IdleTx

\* A step of one transaction that is not its commit.
LEMMA TxMoves ==
  ASSUME ImportInv, NEW j \in Jobs, NEW work \in TxType, Goes(j, work),
         UNCHANGED <<rows, index, table, deferred>>,
         \/ UNCHANGED begun /\ work.id \in {0, txs[j].id}
         \/ begun < MaxTxs /\ begun' = begun + 1 /\ work.id = begun + 1,
         Stage(work, table), Agrees(work, rows, table),
         \A k \in Others(j) : Locks(work) \cap Locks(txs[k]) = {},
         \A t \in work.wiped : Retired(t.id),
         \A key \in CveKeys : Exists(work.seen[key]) =>
            work.seen[key] = work.written[key] \/ Retired(work.seen[key].id)
  PROVE  ImportInv'
  <1>0. txs \in [Jobs -> TxType]
    BY DEF ImportInv, TablesType
  <1>1. \A k \in Jobs : txs'[k] = IF k = j THEN work ELSE txs[k]
    BY <1>0 DEF Goes
  <1>2. TablesType'
    BY <1>0 DEF ImportInv, TablesType, Goes
  <1>3. TxsInv'
    BY <1>1 DEF ImportInv, TxsInv
  <1>4. LocksExclude'
    BY <1>1 DEF ImportInv, LocksExclude, Others
  <1>5. IndexIsSound' /\ IndexIsComplete'
    BY DEF ImportInv, IndexIsSound, IndexIsComplete
  <1>6. /\ begun \in Nat /\ MaxTxs \in Nat /\ begun <= MaxTxs
        /\ \A k \in Jobs : txs[k].id \in Nat /\ txs[k].id <= begun
    BY CveImportAssumption DEF ImportInv, IdsAreFresh
  <1>7. ASSUME NEW i, Retired(i)
        PROVE  i \in 1..begun' /\ \A k \in Jobs : txs'[k].id # i
    BY <1>1, <1>6, <1>7 DEF Retired
  <1>8. IdsAreFresh'
    <2>0. IdsAreFresh
      BY DEF ImportInv
    <2>1. (begun \in 0..MaxTxs /\ \A k \in Jobs : txs[k].id \in 0..begun)'
      BY <1>1, <1>6
    <2>2. (\A k, l \in Jobs : k # l => txs[k].id # txs[l].id \/ txs[k].id = 0)'
      BY <1>1, <1>6, <2>0 DEF IdsAreFresh
    <2>3. (/\ \A key \in CveKeys : Exists(rows[key]) => Retired(rows[key].id)
           /\ \A t \in index : Retired(t.id))'
      BY <1>7, <2>0 DEF IdsAreFresh, Retired
    <2>4. (\A k \in Jobs : \A t \in txs[k].wiped : Retired(t.id))'
      <3>1. \A k \in Jobs : \A t \in txs'[k].wiped : Retired(t.id)
        BY <1>1, <2>0 DEF IdsAreFresh
      <3> QED BY <1>7, <3>1 DEF Retired
    <2>5. (\A k \in Jobs : \A key \in CveKeys : Exists(txs[k].seen[key]) =>
                txs[k].seen[key] = txs[k].written[key] \/ Retired(txs[k].seen[key].id))'
      <3>1. \A k \in Jobs : \A key \in CveKeys : Exists(txs'[k].seen[key]) =>
                txs'[k].seen[key] = txs'[k].written[key] \/ Retired(txs'[k].seen[key].id)
        BY <1>1, <2>0 DEF IdsAreFresh
      <3> QED BY <1>7, <3>1 DEF Retired, Exists
    <2> QED BY <2>1, <2>2, <2>3, <2>4, <2>5 DEF IdsAreFresh
  <1> QED BY <1>2, <1>3, <1>4, <1>5, <1>8 DEF ImportInv

\* What the invariant says of one transaction.
LEMMA TxFacts ==
  ASSUME ImportInv, NEW j \in Jobs
  PROVE  /\ txs[j] \in TxType /\ Stage(txs[j], table) /\ Agrees(txs[j], rows, table)
         /\ txs[j].id \in 0..begun
         /\ \A k \in Others(j) : Locks(txs[j]) \cap Locks(txs[k]) = {}
         /\ \A t \in txs[j].wiped : Retired(t.id)
         /\ \A key \in CveKeys : Exists(txs[j].seen[key]) =>
               txs[j].seen[key] = txs[j].written[key] \/ Retired(txs[j].seen[key].id)
  BY DEF ImportInv, TablesType, TxsInv, LocksExclude, IdsAreFresh, Others

\* A transaction that has only just begun agrees with anything.
LEMMA FreshTx ==
  ASSUME NEW work \in TxType, NEW of,
         work.at \in {"delete", "upsert", "wipe", "read"},
         work.at \in {"delete", "upsert"} => work.kind # "rebuild",
         work.kind = "rebuild" => work.finalize,
         work.kind # "rebuild" => work.id # 0,
         work.gone = {}, work.written = NoRows, work.seen = NoRows, work.wiped = {}, work.added = {},
         \A key \in CveKeys : work.brings[key] # {} => key[2] \in work.feeds
  PROVE  /\ Stage(work, of) /\ Locks(work) = {}
         /\ \A rs \in [CveKeys -> CveRow] : Agrees(work, rs, of)
         /\ \A key \in CveKeys : ~Exists(work.seen[key])
  <1>1. \A key \in CveKeys : /\ ~Exists(work.written[key]) /\ ~Exists(work.seen[key])
                             /\ NoItems(work.seen[key]) /\ NoItems(work.written[key])
    BY IdleTxType
  <1>2. Stage(work, of)
    BY <1>1 DEF Stage
  <1> QED BY <1>1, <1>2 DEF Agrees, Locks

\* A transaction begins:
LEMMA Beginning ==
  ASSUME ImportInv, NEW j \in Jobs, NEW work \in TxType, Begin(j, work),
         work.at \in {"delete", "upsert", "wipe", "read"},
         work.at \in {"delete", "upsert"} => work.kind # "rebuild",
         work.kind = "rebuild" => work.finalize,
         work.gone = {}, work.written = NoRows, work.seen = NoRows, work.wiped = {}, work.added = {},
         \A key \in CveKeys : work.brings[key] # {} => key[2] \in work.feeds
  PROVE  ImportInv'
  <1> DEFINE new == [work EXCEPT !.id = begun + 1]
  <1>0. begun \in Nat /\ MaxTxs \in Nat /\ rows \in [CveKeys -> CveRow]
    BY CveImportAssumption DEF ImportInv, IdsAreFresh, TablesType
  <1>1. /\ begun < MaxTxs /\ begun' = begun + 1 /\ Goes(j, new)
        /\ UNCHANGED <<rows, index, table, deferred>>
    BY DEF Begin
  <1>2. /\ new \in TxType /\ new.id = begun + 1 /\ new.id # 0
        /\ new.at = work.at /\ new.kind = work.kind /\ new.finalize = work.finalize
        /\ new.gone = {} /\ new.written = NoRows /\ new.seen = NoRows /\ new.wiped = {}
        /\ new.added = {} /\ new.brings = work.brings /\ new.feeds = work.feeds
    BY <1>0, <1>1 DEF TxType
  <1> HIDE DEF new
  <1>3. /\ Stage(new, table) /\ Locks(new) = {} /\ Agrees(new, rows, table)
        /\ \A key \in CveKeys : ~Exists(new.seen[key])
    BY <1>0, <1>2, FreshTx
  <1> QED BY <1>1, <1>2, <1>3, TxMoves

\* an import of one source,
LEMMA BeginningImport ==
  ASSUME ImportInv, NEW j \in Jobs, BeginImport(j)
  PROVE  ImportInv'
  <1>0. PICK f \in Feeds, replace \in BOOLEAN, finalize \in BOOLEAN : \E brings \in Brings({f}) :
    Begin(j, [IdleTx EXCEPT !.at = IF replace THEN "delete" ELSE "upsert", !.kind = "import",
                            !.feeds = {f}, !.finalize = finalize, !.brings = brings,
                            !.old = IF replace THEN Of({f}) ELSE {}])
    BY DEF BeginImport
  <1>1. PICK brings \in Brings({f}) :
    Begin(j, [IdleTx EXCEPT !.at = IF replace THEN "delete" ELSE "upsert", !.kind = "import",
                            !.feeds = {f}, !.finalize = finalize, !.brings = brings,
                            !.old = IF replace THEN Of({f}) ELSE {}])
    BY <1>0
  <1> DEFINE at == IF replace THEN "delete" ELSE "upsert"
             old == IF replace THEN Of({f}) ELSE {}
             work == [IdleTx EXCEPT !.at = at, !.kind = "import", !.feeds = {f},
                                  !.finalize = finalize, !.brings = brings, !.old = old]
  <1>2. /\ brings \in [CveKeys -> SUBSET Items] /\ old \in SUBSET CveKeys
        /\ at \in {"delete", "upsert"}
        /\ \A key \in CveKeys : brings[key] # {} => key[2] \in {f}
    BY DEF Brings, Of
  <1> HIDE DEF at, old
  <1>3. /\ work \in TxType /\ work.at = at /\ work.kind = "import" /\ work.finalize = finalize
        /\ work.gone = {} /\ work.written = NoRows /\ work.seen = NoRows /\ work.wiped = {}
        /\ work.added = {} /\ work.brings = brings /\ work.feeds = {f}
    BY <1>2, IdleTxType DEF TxType, IdleTx
  <1>4. Begin(j, work)
    BY <1>1 DEF at, old
  <1> HIDE DEF work
  <1> QED BY <1>2, <1>3, <1>4, Beginning

\* the import of a bundle,
LEMMA BeginningBundle ==
  ASSUME ImportInv, NEW j \in Jobs, BeginBundle(j)
  PROVE  ImportInv'
  <1>1. PICK brings \in Brings(Feeds) :
    Begin(j, [IdleTx EXCEPT !.at = "delete", !.kind = "bundle", !.brings = brings, !.old = CveKeys])
    BY DEF BeginBundle
  <1> DEFINE work == [IdleTx EXCEPT !.at = "delete", !.kind = "bundle", !.brings = brings,
                                  !.old = CveKeys]
  <1>2. /\ brings \in [CveKeys -> SUBSET Items]
        /\ \A key \in CveKeys : brings[key] # {} => key[2] \in Feeds
    BY DEF Brings
  <1>3. /\ work \in TxType /\ work.at = "delete" /\ work.kind = "bundle"
        /\ work.gone = {} /\ work.written = NoRows /\ work.seen = NoRows /\ work.wiped = {}
        /\ work.added = {} /\ work.brings = brings /\ work.feeds = Feeds
    BY <1>2, IdleTxType DEF TxType, IdleTx
  <1>4. Begin(j, work)
    BY <1>1
  <1> HIDE DEF work
  <1> QED BY <1>2, <1>3, <1>4, Beginning

\* a prune,
LEMMA BeginningPrune ==
  ASSUME ImportInv, NEW j \in Jobs, BeginPrune(j)
  PROVE  ImportInv'
  <1>0. PICK f \in Feeds : \E old \in SUBSET Of({f}) :
    Begin(j, [IdleTx EXCEPT !.at = "delete", !.kind = "prune", !.feeds = {f}, !.old = old])
    BY DEF BeginPrune
  <1>1. PICK old \in SUBSET Of({f}) :
    Begin(j, [IdleTx EXCEPT !.at = "delete", !.kind = "prune", !.feeds = {f}, !.old = old])
    BY <1>0
  <1> DEFINE work == [IdleTx EXCEPT !.at = "delete", !.kind = "prune", !.feeds = {f}, !.old = old]
  <1>2. old \in SUBSET CveKeys /\ \A key \in CveKeys : IdleTx.brings[key] = {}
    BY DEF Of, IdleTx
  <1>3. /\ work \in TxType /\ work.at = "delete" /\ work.kind = "prune"
        /\ work.gone = {} /\ work.written = NoRows /\ work.seen = NoRows /\ work.wiped = {}
        /\ work.added = {} /\ work.brings = IdleTx.brings /\ work.feeds = {f}
    BY <1>2, IdleTxType DEF TxType, IdleTx
  <1>4. Begin(j, work)
    BY <1>1
  <1> HIDE DEF work
  <1> QED BY <1>2, <1>3, <1>4, Beginning

\* the transaction of a rebuild,
LEMMA RebuildTx ==
  LET work == [IdleTx EXCEPT !.at = FirstStep]
  IN  /\ work \in TxType /\ work.at \in {"wipe", "read"} /\ work.kind = "rebuild" /\ work.finalize
      /\ work.gone = {} /\ work.written = NoRows /\ work.seen = NoRows /\ work.wiped = {}
      /\ work.added = {} /\ work.id = 0 /\ \A key \in CveKeys : work.brings[key] = {}
  BY IdleTxType DEF TxType, IdleTx, FirstStep, AffectedFrom, ReferenceFrom

\* and a rebuild.
LEMMA BeginningRebuild ==
  ASSUME ImportInv, NEW j \in Jobs, BeginAffectedRebuild(j) \/ BeginReferenceRebuild(j)
  PROVE  ImportInv'
  <1> DEFINE work == [IdleTx EXCEPT !.at = FirstStep]
  <1>1. Begin(j, work)
    BY DEF BeginAffectedRebuild, BeginReferenceRebuild
  <1>2. /\ work \in TxType /\ work.at \in {"wipe", "read"} /\ work.kind = "rebuild" /\ work.finalize
        /\ work.gone = {} /\ work.written = NoRows /\ work.seen = NoRows /\ work.wiped = {}
        /\ work.added = {} /\ \A key \in CveKeys : work.brings[key] = {}
    BY RebuildTx
  <1> HIDE DEF work
  <1> QED BY <1>1, <1>2, Beginning

\* Nothing is derived from no rows.
LEMMA NothingDerived ==
  ASSUME NEW work, work.seen = NoRows
  PROVE  DerivedOf(work) = {}
  BY DEF DerivedOf, NoRows, NoCve, Tuples

\* Which of its statements a rebuild makes first.
LEMMA CopiesOrInserts ==
  ASSUME ImportInv, NEW j \in Jobs
  PROVE  ReadFirst(j) <=> CopiesFirst(txs[j], table)
  BY DEF ImportInv, TablesType, ReadFirst, CopiesFirst, FirstStep, AffectedFrom, ReferenceFrom

\* DELETE FROM cve_database takes the locks of the rows.
LEMMA Deleting ==
  ASSUME ImportInv, NEW j \in Jobs, DeleteRows(j)
  PROVE  ImportInv'
  <1> DEFINE victims == {key \in txs[j].old : Exists(rows[key])}
             at == IF txs[j].kind = "prune" THEN "commit" ELSE "upsert"
             work == [txs[j] EXCEPT !.gone = victims, !.at = at]
  <1>1. /\ txs[j] \in TxType /\ Stage(txs[j], table)
        /\ \A k \in Others(j) : Locks(txs[j]) \cap Locks(txs[k]) = {}
    BY TxFacts
  <1>2. /\ txs[j].at = "delete" /\ txs[j].kind # "rebuild" /\ txs[j].written = NoRows
        /\ txs[j].wiped = {} /\ txs[j].seen = NoRows /\ txs[j].added = {}
    BY <1>1 DEF DeleteRows, At, Stage
  <1>3. /\ Goes(j, work) /\ UNCHANGED <<rows, index, table, deferred>> /\ UNCHANGED begun
        /\ \A k \in Others(j) : victims \cap Locks(txs[k]) = {}
    BY DEF DeleteRows, Locks, RowLocks
  <1>4. victims \in SUBSET CveKeys /\ at \in {"commit", "upsert"}
    BY <1>1 DEF TxType
  <1> HIDE DEF victims, at
  <1>5. /\ work \in TxType /\ work.at = at /\ work.gone = victims /\ work.kind = txs[j].kind
        /\ work.written = NoRows /\ work.wiped = {} /\ work.seen = NoRows /\ work.added = {}
        /\ work.id = txs[j].id /\ work.brings = txs[j].brings /\ work.feeds = txs[j].feeds
        /\ work.finalize = txs[j].finalize
    BY <1>1, <1>2, <1>4 DEF TxType
  <1> HIDE DEF work
  <1>6. /\ DerivedOf(work) = {}
        /\ \A key \in CveKeys : /\ ~Exists(work.written[key]) /\ ~Exists(work.seen[key])
                                /\ NoItems(work.seen[key]) /\ NoItems(work.written[key])
    BY <1>5, NothingDerived, IdleTxType
  <1>7. Stage(work, table) /\ Agrees(work, rows, table)
    BY <1>1, <1>2, <1>4, <1>5, <1>6 DEF Stage, Agrees
  <1>8. \A k \in Others(j) : Locks(work) \cap Locks(txs[k]) = {}
    BY <1>3, <1>5, <1>6 DEF Locks
  <1> QED BY <1>3, <1>5, <1>6, <1>7, <1>8, TxMoves

\* An upsert takes the locks of the rows, keeps the ids and the items there are, and
\* gives a new row the id of the transaction.
LEMMA Upserting ==
  ASSUME ImportInv, NEW j \in Jobs, UpsertCveEntriesTx(j)
  PROVE  ImportInv'
  <1> DEFINE written == [key \in CveKeys |-> Upserted(j, key)]
             at == IF txs[j].finalize THEN "wipe" ELSE "commit"
             work == [txs[j] EXCEPT !.written = written, !.at = at]
  <1>1. /\ txs[j] \in TxType /\ Stage(txs[j], table) /\ txs[j].id \in 0..begun
        /\ \A k \in Others(j) : Locks(txs[j]) \cap Locks(txs[k]) = {}
    BY TxFacts
  <1>2. /\ txs[j].at = "upsert" /\ txs[j].kind # "rebuild" /\ txs[j].written = NoRows
        /\ txs[j].wiped = {} /\ txs[j].seen = NoRows /\ txs[j].added = {} /\ txs[j].id # 0
    BY <1>1 DEF UpsertCveEntriesTx, At, Stage
  <1>3. /\ Goes(j, work) /\ UNCHANGED <<rows, index, table, deferred>> /\ UNCHANGED begun
        /\ \A k \in Others(j) : \A key \in Locks(txs[k]) : txs[j].brings[key] = {}
    BY DEF UpsertCveEntriesTx, Locks, RowLocks
  <1>4. /\ rows \in [CveKeys -> CveRow] /\ txs[j].brings \in [CveKeys -> SUBSET Items]
        /\ txs[j].id \in 0..MaxTxs /\ NoCve \in CveRow
        /\ \A key \in CveKeys : NoItems(rows[key]) /\ ~Exists(txs[j].written[key])
    BY <1>1, <1>2, IdleTxType, CveImportAssumption DEF ImportInv, TablesType, TxType, NoCve, CveRow
  <1>5. ASSUME NEW key \in CveKeys
        PROVE  /\ Upserted(j, key) \in CveRow /\ NoItems(Upserted(j, key))
               /\ Exists(Upserted(j, key)) =>
                    /\ txs[j].brings[key] # {}
                    /\ \/ Upserted(j, key).id = txs[j].id
                       \/ /\ Upserted(j, key).id = rows[key].id /\ key \notin txs[j].gone
                          /\ rows[key].items \subseteq Upserted(j, key).items
    <2> DEFINE r == Visible(j, key)
               brought == txs[j].brings[key]
    <2>1. r = IF key \in txs[j].gone THEN NoCve ELSE rows[key]
      BY <1>4 DEF Visible
    <2>2. r \in CveRow /\ brought \in SUBSET Items
      BY <1>4, <2>1
    <2>3. CASE brought = {}
      <3>1. Upserted(j, key) = NoCve
        BY <2>3 DEF Upserted
      <3> QED BY <1>4, <3>1 DEF NoItems, Exists, NoCve
    <2>4. CASE brought # {} /\ Exists(r)
      <3>1. Upserted(j, key) = [r EXCEPT !.items = r.items \cup brought]
        BY <2>4 DEF Upserted
      <3>2. r = rows[key] /\ key \notin txs[j].gone
        BY <2>1, <2>4 DEF Exists, NoCve
      <3>3. Upserted(j, key) \in CveRow /\ Upserted(j, key).id = r.id
              /\ Upserted(j, key).items = r.items \cup brought
        BY <2>2, <3>1 DEF CveRow
      <3> QED BY <2>4, <3>2, <3>3 DEF NoItems, Exists
    <2>5. CASE brought # {} /\ ~Exists(r)
      <3>1. Upserted(j, key) = [id |-> txs[j].id, items |-> brought]
        BY <2>5 DEF Upserted
      <3>2. Upserted(j, key) \in CveRow
        BY <1>4, <2>2, <3>1 DEF CveRow
      <3> QED BY <1>2, <2>5, <3>1, <3>2 DEF NoItems, Exists
    <2> QED BY <2>3, <2>4, <2>5
  <1>6. written \in [CveKeys -> CveRow] /\ at \in {"wipe", "commit"}
          /\ (at = "commit" <=> ~txs[j].finalize)
    BY <1>5
  <1>7. \A key \in CveKeys :
               /\ NoItems(written[key])
               /\ Exists(written[key]) =>
                    /\ txs[j].brings[key] # {}
                    /\ \/ written[key].id = txs[j].id
                       \/ /\ written[key].id = rows[key].id /\ key \notin txs[j].gone
                          /\ rows[key].items \subseteq written[key].items
    BY <1>5
  <1> HIDE DEF written, at
  <1>8. /\ work \in TxType /\ work.at = at /\ work.gone = txs[j].gone /\ work.kind = txs[j].kind
        /\ work.written = written /\ work.wiped = {} /\ work.seen = NoRows /\ work.added = {}
        /\ work.id = txs[j].id /\ work.brings = txs[j].brings /\ work.feeds = txs[j].feeds
        /\ work.finalize = txs[j].finalize
    BY <1>1, <1>2, <1>6 DEF TxType
  <1> HIDE DEF work
  <1>9. /\ DerivedOf(work) = {}
        /\ \A key \in CveKeys : ~Exists(work.seen[key]) /\ NoItems(work.seen[key])
    BY <1>8, NothingDerived, IdleTxType
  <1>10. \A key \in CveKeys : txs[j].brings[key] # {} => key[2] \in txs[j].feeds
    BY <1>1 DEF Stage
  <1>11. Stage(work, table)
    BY <1>2, <1>6, <1>7, <1>8, <1>9, <1>10 DEF Stage
  <1>12. Agrees(work, rows, table)
    BY <1>7, <1>8, <1>9 DEF Agrees
  <1>13. \A k \in Others(j) : Locks(work) \cap Locks(txs[k]) = {}
    BY <1>1, <1>3, <1>7, <1>8 DEF Locks
  <1> QED BY <1>3, <1>8, <1>9, <1>11, <1>12, <1>13, TxMoves

\* The derived rows that are deleted were derived from rows that are still there, or that
\* the transaction has changed itself.
LEMMA Wiping ==
  ASSUME ImportInv, NEW j \in Jobs, Wipe(j)
  PROVE  ImportInv'
  <1> DEFINE wiped == {t \in VisibleIndex(j) : t.key[2] \in txs[j].feeds}
             at == IF ReadFirst(j) THEN "write" ELSE "read"
             work == [txs[j] EXCEPT !.wiped = wiped, !.at = at]
  <1>1. /\ txs[j] \in TxType /\ Stage(txs[j], table) /\ Agrees(txs[j], rows, table)
        /\ \A k \in Others(j) : Locks(txs[j]) \cap Locks(txs[k]) = {}
        /\ \A key \in CveKeys : Exists(txs[j].seen[key]) =>
               txs[j].seen[key] = txs[j].written[key] \/ Retired(txs[j].seen[key].id)
    BY TxFacts
  <1>2. /\ txs[j].at = "wipe" /\ txs[j].added = {}
        /\ CopiesFirst(txs[j], table) \/ txs[j].seen = NoRows
    BY <1>1 DEF Wipe, At, Stage
  <1>3. /\ Goes(j, work) /\ UNCHANGED <<rows, index, table, deferred>> /\ UNCHANGED begun
    BY DEF Wipe
  <1>4. /\ wiped \subseteq index /\ \A t \in wiped : t.key[2] \in txs[j].feeds
        /\ wiped \in SUBSET Tuple
    BY <1>2 DEF VisibleIndex, ImportInv, TablesType
  <1>5. /\ CopiesFirst(txs[j], table) => at = "write"
        /\ ~CopiesFirst(txs[j], table) => at = "read"
    BY CopiesOrInserts
  <1> HIDE DEF wiped, at
  <1>6. /\ work \in TxType /\ work.at = at /\ work.gone = txs[j].gone /\ work.kind = txs[j].kind
        /\ work.written = txs[j].written /\ work.wiped = wiped /\ work.seen = txs[j].seen
        /\ work.added = {}
        /\ work.id = txs[j].id /\ work.brings = txs[j].brings /\ work.feeds = txs[j].feeds
        /\ work.finalize = txs[j].finalize
    BY <1>1, <1>2, <1>4, <1>5 DEF TxType
  <1> HIDE DEF work
  <1>7. \A key \in CveKeys : txs[j].kind = "rebuild" => ~Exists(txs[j].written[key])
    BY <1>1, IdleTxType DEF Stage
  <1>8. Stage(work, table)
    BY <1>1, <1>2, <1>4, <1>5, <1>6, <1>7 DEF Stage, CopiesFirst
  <1>9. \A t \in wiped : t.item \in rows[t.key].items /\ Retired(t.id)
    BY <1>4 DEF ImportInv, IndexIsSound, IdsAreFresh
  <1>10. Agrees(work, rows, table)
    BY <1>1, <1>5, <1>6, <1>9 DEF Agrees, CopiesFirst
  <1>11. \A k \in Others(j) : Locks(work) \cap Locks(txs[k]) = {}
    BY <1>1, <1>6 DEF Locks
  <1> QED BY <1>1, <1>3, <1>6, <1>8, <1>9, <1>10, <1>11, TxMoves

\* The rows that are selected include all that the deleted derived rows came from, unless
\* they were selected before.
LEMMA Selecting ==
  ASSUME ImportInv, NEW j \in Jobs, ReadRows(j)
  PROVE  ImportInv'
  <1> DEFINE seen == [key \in CveKeys |->
                        IF key[2] \in txs[j].feeds THEN Visible(j, key) ELSE NoCve]
             at == IF ReadFirst(j) THEN "wipe" ELSE "write"
             work == [txs[j] EXCEPT !.seen = seen, !.at = at]
  <1>1. /\ txs[j] \in TxType /\ Stage(txs[j], table) /\ Agrees(txs[j], rows, table)
        /\ \A k \in Others(j) : Locks(txs[j]) \cap Locks(txs[k]) = {}
        /\ \A t \in txs[j].wiped : Retired(t.id)
    BY TxFacts
  <1>2. /\ txs[j].at = "read" /\ txs[j].added = {}
        /\ CopiesFirst(txs[j], table) => txs[j].wiped = {}
    BY <1>1 DEF ReadRows, At, Stage
  <1>3. /\ Goes(j, work) /\ UNCHANGED <<rows, index, table, deferred>> /\ UNCHANGED begun
    BY DEF ReadRows
  <1>4. /\ rows \in [CveKeys -> CveRow] /\ txs[j].written \in [CveKeys -> CveRow]
        /\ NoCve \in CveRow /\ NoItems(NoCve) /\ ~Exists(NoCve)
        /\ \A key \in CveKeys : NoItems(rows[key]) /\ NoItems(txs[j].written[key])
        /\ \A key \in CveKeys : Exists(rows[key]) => Retired(rows[key].id)
    BY <1>1, CveImportAssumption
    DEF ImportInv, TablesType, TxType, NoCve, CveRow, NoItems, Exists, Stage, IdsAreFresh
  <1>5. \A key \in CveKeys :
          /\ seen[key] = IF key[2] \in txs[j].feeds THEN Sees(txs[j], rows, key) ELSE NoCve
          /\ seen[key] \in CveRow /\ NoItems(seen[key])
          /\ Exists(seen[key]) =>
               \/ Exists(txs[j].written[key]) /\ seen[key] = txs[j].written[key]
               \/ ~Exists(txs[j].written[key]) /\ seen[key] = rows[key]
    BY <1>4 DEF Visible, Sees
  <1>6. seen \in [CveKeys -> CveRow]
    BY <1>5
  <1>7. /\ CopiesFirst(txs[j], table) => at = "wipe"
        /\ ~CopiesFirst(txs[j], table) => at = "write"
    BY CopiesOrInserts
  <1> HIDE DEF seen, at
  <1>8. /\ work \in TxType /\ work.at = at /\ work.gone = txs[j].gone /\ work.kind = txs[j].kind
        /\ work.written = txs[j].written /\ work.wiped = txs[j].wiped /\ work.seen = seen
        /\ work.added = {}
        /\ work.id = txs[j].id /\ work.brings = txs[j].brings /\ work.feeds = txs[j].feeds
        /\ work.finalize = txs[j].finalize
    BY <1>1, <1>2, <1>6, <1>7 DEF TxType
  <1> HIDE DEF work
  <1>9. /\ \A key \in CveKeys : Exists(txs[j].written[key]) =>
              key[2] \in txs[j].feeds /\ seen[key] = txs[j].written[key]
        /\ \A t \in txs[j].wiped : t.key[2] \in txs[j].feeds
    BY <1>1, <1>5 DEF Stage, Sees
  <1>10. Stage(work, table)
    BY <1>1, <1>2, <1>5, <1>7, <1>8, <1>9 DEF Stage, CopiesFirst
  <1>11. ASSUME NEW t \in txs[j].wiped, Sees(txs[j], rows, t.key).id = t.id
         PROVE  t \in DerivedOf(work)
    <2>1. /\ t \in Tuple /\ t.key \in CveKeys /\ t.id # 0
          /\ t = [key |-> t.key, id |-> t.id, item |-> t.item]
      BY <1>1, CveImportAssumption DEF TxType, Tuple
    <2>2. seen[t.key] = Sees(txs[j], rows, t.key)
      BY <1>5, <1>9, <2>1
    <2>3. t.id # txs[j].id
      BY <1>1 DEF Retired
    <2>4. t.item \in seen[t.key].items
      <3>1. CASE Exists(txs[j].written[t.key])
        <4>1. seen[t.key] = txs[j].written[t.key] /\ txs[j].written[t.key].id = t.id
          BY <1>11, <2>2, <3>1 DEF Sees
        <4>2. rows[t.key].id = t.id /\ rows[t.key].items \subseteq txs[j].written[t.key].items
          BY <1>1, <2>1, <2>3, <3>1, <4>1 DEF Agrees
        <4> QED BY <1>1, <4>1, <4>2 DEF Agrees
      <3>2. CASE ~Exists(txs[j].written[t.key])
        <4>1. seen[t.key] = rows[t.key] /\ rows[t.key].id = t.id
          BY <1>11, <2>1, <2>2, <3>2 DEF Sees, NoCve
        <4> QED BY <1>1, <4>1 DEF Agrees
      <3> QED BY <3>1, <3>2
    <2>5. t \in Tuples(t.key, seen[t.key])
      BY <1>11, <2>1, <2>2, <2>4 DEF Tuples
    <2> QED BY <1>8, <2>1, <2>5 DEF DerivedOf
  <1>12. Agrees(work, rows, table)
    <2>1. \A key \in CveKeys : Exists(work.seen[key]) =>
            \/ work.seen[key] = work.written[key]
            \/ ~Exists(work.written[key]) /\ work.seen[key] = rows[key]
      BY <1>5, <1>8
    <2>2. \A t \in work.wiped : Sees(work, rows, t.key).id = t.id => t \in DerivedOf(work)
      BY <1>8, <1>11 DEF Sees
    <2> QED BY <1>1, <1>8, <2>1, <2>2 DEF Agrees
  <1>13. \A k \in Others(j) : Locks(work) \cap Locks(txs[k]) = {}
    BY <1>1, <1>8 DEF Locks
  <1>14. \A key \in CveKeys : Exists(work.seen[key]) =>
            work.seen[key] = work.written[key] \/ Retired(work.seen[key].id)
    BY <1>4, <1>5, <1>8
  <1> QED BY <1>1, <1>3, <1>8, <1>10, <1>12, <1>13, <1>14, TxMoves

\* A transaction that ends without a commit.
LEMMA GivingUp ==
  ASSUME ImportInv, NEW j \in Jobs, Goes(j, IdleTx),
         UNCHANGED <<rows, index, table, deferred>>, UNCHANGED begun
  PROVE  ImportInv'
  <1>1. rows \in [CveKeys -> CveRow]
    BY DEF ImportInv, TablesType
  <1>2. /\ IdleTx \in TxType /\ Stage(IdleTx, table) /\ Agrees(IdleTx, rows, table)
        /\ IdleTx.id \in {0, txs[j].id} /\ Locks(IdleTx) = {}
    BY <1>1, IdleTxType, IdleTxStage
  <1>3. IdleTx.wiped = {} /\ \A key \in CveKeys : ~Exists(IdleTx.seen[key])
    BY IdleTxType DEF IdleTx
  <1> QED BY <1>2, <1>3, TxMoves

\* What is derived from them is inserted, or the transaction fails.
LEMMA Writing ==
  ASSUME ImportInv, NEW j \in Jobs, WriteIndex(j)
  PROVE  ImportInv'
  <1>0. UNCHANGED <<rows, index, table, deferred>> /\ UNCHANGED begun
    BY DEF WriteIndex
  <1>1. CASE ~CanWrite(j)
    <2>1. Goes(j, IdleTx)
      BY <1>1 DEF WriteIndex
    <2> QED BY <1>0, <2>1, GivingUp
  <1>2. CASE CanWrite(j)
    <2> DEFINE added == Derived(j)
               work == [txs[j] EXCEPT !.added = added, !.at = "commit"]
    <2>1. /\ txs[j] \in TxType /\ Stage(txs[j], table) /\ Agrees(txs[j], rows, table)
          /\ \A k \in Others(j) : Locks(txs[j]) \cap Locks(txs[k]) = {}
          /\ \A t \in txs[j].wiped : Retired(t.id)
          /\ \A key \in CveKeys : Exists(txs[j].seen[key]) =>
               txs[j].seen[key] = txs[j].written[key] \/ Retired(txs[j].seen[key].id)
      BY TxFacts
    <2>2. txs[j].at = "write" /\ Goes(j, work)
      BY <1>2 DEF WriteIndex, At
    <2>3. added = DerivedOf(txs[j])
      BY DEF Derived, DerivedOf
    <2>4. added \in SUBSET Tuple
      <3>1. ASSUME NEW key \in CveKeys PROVE Tuples(key, txs[j].seen[key]) \subseteq Tuple
        <4>1. /\ txs[j].seen[key].id \in 0..MaxTxs /\ txs[j].seen[key].items \subseteq Items
              /\ NoItems(txs[j].seen[key])
          BY <2>1 DEF TxType, CveRow, Stage
        <4>2. CASE txs[j].seen[key].id = 0
          BY <4>1, <4>2 DEF Tuples, NoItems
        <4>3. CASE txs[j].seen[key].id # 0
          <5>1. txs[j].seen[key].id \in 1..MaxTxs
            BY <4>1, <4>3, CveImportAssumption
          <5> QED BY <4>1, <5>1 DEF Tuples, Tuple
        <4> QED BY <4>2, <4>3
      <3> QED BY <2>3, <3>1 DEF DerivedOf
    <2> HIDE DEF added
    <2>5. /\ work \in TxType /\ work.at = "commit" /\ work.gone = txs[j].gone /\ work.kind = txs[j].kind
          /\ work.written = txs[j].written /\ work.wiped = txs[j].wiped /\ work.seen = txs[j].seen
          /\ work.added = added
          /\ work.id = txs[j].id /\ work.brings = txs[j].brings /\ work.feeds = txs[j].feeds
          /\ work.finalize = txs[j].finalize
      BY <2>1, <2>4 DEF TxType
    <2> HIDE DEF work
    <2>6. DerivedOf(work) = DerivedOf(txs[j])
      BY <2>5 DEF DerivedOf
    <2>7. Stage(work, table)
      BY <2>1, <2>2, <2>3, <2>5, <2>6 DEF Stage
    <2>8. Agrees(work, rows, table)
      BY <2>1, <2>2, <2>5, <2>6 DEF Agrees, CopiesFirst, Sees
    <2>9. \A k \in Others(j) : Locks(work) \cap Locks(txs[k]) = {}
      BY <2>1, <2>5 DEF Locks
    <2> QED BY <1>0, <2>1, <2>2, <2>5, <2>7, <2>8, <2>9, TxMoves
  <1> QED BY <1>1, <1>2

\* A statement that fails ends the transaction, or an import begins again.
LEMMA RollingBack ==
  ASSUME ImportInv, NEW j \in Jobs, RollBack(j)
  PROVE  ImportInv'
  <1>0. UNCHANGED <<rows, index, table, deferred>> /\ UNCHANGED begun
    BY DEF RollBack
  <1> DEFINE at == IF txs[j].old # {} THEN "delete" ELSE "upsert"
             work == [IdleTx EXCEPT !.at = at,
                             !.kind = txs[j].kind, !.feeds = txs[j].feeds,
                             !.finalize = txs[j].finalize,
                             !.id = txs[j].id, !.brings = txs[j].brings, !.old = txs[j].old,
                             !.tries = txs[j].tries + 1]
  <1>1. CASE Goes(j, IdleTx)
    BY <1>0, <1>1, GivingUp
  <1>2. CASE txs[j].kind = "import" /\ Goes(j, work)
    <2>1. txs[j] \in TxType /\ Stage(txs[j], table) /\ rows \in [CveKeys -> CveRow]
      BY TxFacts DEF ImportInv, TablesType
    <2>2. /\ txs[j].id # 0
          /\ \A key \in CveKeys : txs[j].brings[key] # {} => key[2] \in txs[j].feeds
      BY <1>2, <2>1 DEF Stage
    <2>3. at \in {"delete", "upsert"}
      OBVIOUS
    <2> DEFINE old == txs[j].old
               brings == txs[j].brings
               id == txs[j].id
               tries == txs[j].tries + 1
               feeds == txs[j].feeds
               finalize == txs[j].finalize
               copy == [IdleTx EXCEPT !.at = at, !.kind = "import", !.feeds = feeds,
                             !.finalize = finalize, !.id = id, !.brings = brings,
                             !.old = old, !.tries = tries]
    <2>a. /\ old \in SUBSET CveKeys /\ brings \in [CveKeys -> SUBSET Items] /\ id \in 0..MaxTxs
          /\ tries \in Nat /\ feeds \in SUBSET Feeds /\ finalize \in BOOLEAN
      BY <2>1 DEF TxType
    <2>b. work = copy
      BY <1>2
    <2> HIDE DEF at, old, brings, id, tries, feeds, finalize, work
    <2>c. copy \in TxType
      BY <2>a, <2>3, IdleTxType DEF TxType
    <2>d. /\ copy.at = at /\ copy.kind = "import" /\ copy.id = id
          /\ copy.gone = {} /\ copy.written = NoRows /\ copy.seen = NoRows /\ copy.wiped = {}
          /\ copy.added = {} /\ copy.brings = brings /\ copy.feeds = feeds
      BY DEF IdleTx
    <2>4. /\ work \in TxType /\ work.at = at /\ work.kind = "import" /\ work.id = txs[j].id
          /\ work.gone = {} /\ work.written = NoRows /\ work.seen = NoRows /\ work.wiped = {}
          /\ work.added = {} /\ work.brings = txs[j].brings /\ work.feeds = txs[j].feeds
      BY <2>b, <2>c, <2>d DEF id, brings, feeds
    <2>5. /\ Stage(work, table) /\ Locks(work) = {} /\ Agrees(work, rows, table)
          /\ \A key \in CveKeys : ~Exists(work.seen[key])
      BY <2>1, <2>2, <2>3, <2>4, FreshTx
    <2> QED BY <1>0, <1>2, <2>4, <2>5, TxMoves
  <1> QED BY <1>1, <1>2 DEF RollBack

\* A restart: every transaction is lost, and at most one rebuild runs.
LEMMA Restarting ==
  ASSUME ImportInv, Restart
  PROVE  ImportInv'
  <1> DEFINE work == [IdleTx EXCEPT !.at = FirstStep]
  <1>0. /\ UNCHANGED <<rows, index, table, deferred, begun>>
        /\ txs \in [Jobs -> TxType] /\ rows \in [CveKeys -> CveRow]
        /\ begun \in 0..MaxTxs /\ 0 \in 0..begun
    BY CveImportAssumption DEF Restart, ImportInv, TablesType, IdsAreFresh
  <1>1. txs' \in [Jobs -> {IdleTx, work}]
    BY DEF Restart
  <1>2. /\ work \in TxType /\ work.at \in {"wipe", "read"} /\ work.kind = "rebuild" /\ work.finalize
        /\ work.gone = {} /\ work.written = NoRows /\ work.seen = NoRows /\ work.wiped = {}
        /\ work.added = {} /\ work.id = 0 /\ \A key \in CveKeys : work.brings[key] = {}
    BY RebuildTx
  <1> HIDE DEF work
  <1>3. ASSUME NEW x \in {IdleTx, work}
        PROVE  /\ x \in TxType /\ Stage(x, table) /\ Agrees(x, rows, table) /\ Locks(x) = {}
               /\ x.id = 0 /\ x.wiped = {} /\ \A key \in CveKeys : ~Exists(x.seen[key])
    <2>1. CASE x = IdleTx
      BY <1>0, <2>1, IdleTxType, IdleTxStage DEF IdleTx
    <2>2. CASE x = work
      <3>1. /\ Stage(work, table) /\ Locks(work) = {}
            /\ \A rs \in [CveKeys -> CveRow] : Agrees(work, rs, table)
            /\ \A key \in CveKeys : ~Exists(work.seen[key])
        BY <1>2, FreshTx
      <3> QED BY <1>0, <1>2, <2>2, <3>1
    <2> QED BY <2>1, <2>2
  <1>4. TablesType'
    BY <1>0, <1>1, <1>3 DEF ImportInv, TablesType
  <1>5. TxsInv'
    BY <1>0, <1>1, <1>3 DEF ImportInv, TxsInv
  <1>6. LocksExclude'
    BY <1>1, <1>3 DEF LocksExclude
  <1>7. IndexIsSound' /\ IndexIsComplete'
    BY <1>0 DEF ImportInv, IndexIsSound, IndexIsComplete
  <1>8. \A i : Retired(i) => i # 0 /\ Retired(i)'
    BY <1>0, <1>1, <1>3 DEF Retired
  <1>9. IdsAreFresh'
    BY <1>0, <1>1, <1>3, <1>8 DEF ImportInv, IdsAreFresh
  <1> QED BY <1>4, <1>5, <1>6, <1>7, <1>9 DEF ImportInv

\* The rows after a commit.
NewRows(j) == [key \in CveKeys |-> Sees(txs[j], rows, key)]

\* What CommitTx does.
LEMMA Committed ==
  ASSUME ImportInv, NEW j \in Jobs, CommitTx(j)
  PROVE  /\ txs[j].at = "commit" /\ rows' = NewRows(j)
         /\ index' = {t \in (index \ txs[j].wiped) \cup txs[j].added : NewRows(j)[t.key].id = t.id}
         /\ UNCHANGED <<table, begun>>
         /\ \A k \in Jobs : txs'[k] = IF k = j THEN IdleTx ELSE txs[k]
         /\ txs' \in [Jobs -> TxType]
  <1>1. [key \in CveKeys |-> Visible(j, key)] = NewRows(j)
    BY DEF NewRows, Visible, Sees
  <1>2. txs \in [Jobs -> TxType] /\ IdleTx \in TxType
    BY IdleTxType DEF ImportInv, TablesType
  <1>3. txs' = [txs EXCEPT ![j] = IdleTx]
    BY DEF CommitTx, Goes
  <1> QED BY <1>1, <1>2, <1>3 DEF CommitTx, At

\* A committed row is the old one, a larger one of the same id, a new one, or none.
LEMMA RowsGrow ==
  ASSUME ImportInv, NEW j \in Jobs, NEW key \in CveKeys
  PROVE  LET new == NewRows(j)[key]
         IN  /\ new \in CveRow /\ NoItems(new)
             /\ \/ new = rows[key] /\ ~Exists(txs[j].written[key])
                \/ ~Exists(new)
                \/ /\ Exists(txs[j].written[key]) /\ new = txs[j].written[key]
                   /\ \/ new.id = txs[j].id /\ new.id # 0
                      \/ new.id = rows[key].id /\ rows[key].items \subseteq new.items
  <1> DEFINE new == NewRows(j)[key]
  <1>1. /\ txs[j] \in TxType /\ Stage(txs[j], table) /\ Agrees(txs[j], rows, table)
        /\ rows[key] \in CveRow /\ NoItems(rows[key]) /\ NoCve \in CveRow
        /\ NoItems(NoCve) /\ ~Exists(NoCve)
    BY TxFacts, CveImportAssumption DEF ImportInv, TablesType, NoCve, CveRow, NoItems, Exists
  <1>2. new = Sees(txs[j], rows, key)
    BY DEF NewRows
  <1> HIDE DEF new
  <1>3. CASE Exists(txs[j].written[key])
    <2>1. new = txs[j].written[key] /\ Exists(new)
      BY <1>2, <1>3 DEF Sees
    <2>2. new \in CveRow /\ NoItems(new)
      BY <1>1, <2>1 DEF TxType, Stage
    <2>3. \/ new.id = txs[j].id
          \/ new.id = rows[key].id /\ rows[key].items \subseteq new.items
      BY <1>1, <1>3, <2>1 DEF Agrees
    <2> QED BY <1>3, <2>1, <2>2, <2>3 DEF new, Exists
  <1>4. CASE ~Exists(txs[j].written[key])
    <2>1. new = NoCve \/ new = rows[key]
      BY <1>2, <1>4 DEF Sees
    <2> QED BY <1>1, <1>4, <2>1 DEF new
  <1> QED BY <1>3, <1>4

\* An id that no transaction has any more is not given to a row.
LEMMA RetiredRowsGrow ==
  ASSUME ImportInv, NEW j \in Jobs, NEW key \in CveKeys, NEW i, Retired(i),
         NewRows(j)[key].id = i
  PROVE  rows[key].id = i /\ rows[key].items \subseteq NewRows(j)[key].items
  <1>1. i # 0 /\ i # txs[j].id
    BY DEF Retired
  <1>2. Exists(NewRows(j)[key])
    BY <1>1 DEF Exists
  <1> QED BY <1>1, <1>2, RowsGrow

\* A commit leaves alone what the other transactions have locked, and takes nothing away
\* from a row that they have read.
LEMMA CommitAgrees ==
  ASSUME ImportInv, NEW j \in Jobs, NEW k \in Others(j)
  PROVE  Agrees(txs[k], NewRows(j), table)
  <1> DEFINE old == rows
             new == NewRows(j)
             work == txs[k]
  <1>1. /\ work \in TxType /\ Agrees(work, old, table) /\ Locks(txs[j]) \cap Locks(work) = {}
        /\ \A t \in work.wiped : Retired(t.id)
        /\ \A key \in CveKeys : Exists(work.seen[key]) =>
               work.seen[key] = work.written[key] \/ Retired(work.seen[key].id)
    BY TxFacts DEF Others
  <1>2. \A key \in Locks(work) : key \in CveKeys => new[key] = old[key]
    BY <1>1 DEF NewRows, Sees, Locks
  <1>3. \A key \in CveKeys : \A i : Retired(i) /\ new[key].id = i =>
           old[key].id = i /\ old[key].items \subseteq new[key].items
    BY RetiredRowsGrow
  <1>4. \A t \in work.wiped : t.key \in CveKeys
    BY <1>1 DEF TxType, Tuple
  <1> HIDE DEF old, new, work
  <1>5. \A key \in CveKeys : Exists(work.written[key]) => new[key] = old[key]
    BY <1>2 DEF Locks
  <1>6. \A key \in CveKeys : Exists(work.written[key]) =>
          \/ work.written[key].id = work.id
          \/ /\ work.written[key].id = new[key].id /\ key \notin work.gone
             /\ new[key].items \subseteq work.written[key].items
    BY <1>1, <1>5 DEF Agrees
  <1>7. \A key \in CveKeys : Exists(work.seen[key]) =>
          \/ work.seen[key] = work.written[key]
          \/ /\ ~Exists(work.written[key])
             /\ work.seen[key].id = new[key].id => work.seen[key].items \subseteq new[key].items
    <2> SUFFICES ASSUME NEW key \in CveKeys, Exists(work.seen[key]), work.seen[key] # work.written[key]
                 PROVE  /\ ~Exists(work.written[key])
                        /\ work.seen[key].id = new[key].id => work.seen[key].items \subseteq new[key].items
      OBVIOUS
    <2>1. /\ ~Exists(work.written[key]) /\ Retired(work.seen[key].id)
          /\ work.seen[key].id = old[key].id => work.seen[key].items \subseteq old[key].items
      BY <1>1 DEF Agrees
    <2> QED BY <1>3, <2>1
  <1>8. \A t \in work.wiped : new[t.key].id = t.id =>
             old[t.key].id = t.id /\ t.item \in old[t.key].items /\ t.item \in new[t.key].items
    BY <1>1, <1>3, <1>4 DEF Agrees
  <1>9. ASSUME work.at \in {"write", "commit"}, ~CopiesFirst(work, table), NEW t \in work.wiped,
               Sees(work, new, t.key).id = t.id
        PROVE  t \in DerivedOf(work)
    <2>1. Sees(work, old, t.key).id = t.id
      BY <1>8, <1>9 DEF Sees
    <2> QED BY <1>1, <1>9, <2>1 DEF Agrees
  <1>10. Agrees(work, new, table)
    BY <1>6, <1>7, <1>8, <1>9 DEF Agrees
  <1> QED BY <1>10 DEF work, new

\* After a commit nothing is derived from what is no longer there.
LEMMA CommitKeepsSound ==
  ASSUME ImportInv, NEW j \in Jobs, CommitTx(j)
  PROVE  IndexIsSound'
  <1>1. /\ txs[j].at = "commit" /\ rows' = NewRows(j)
        /\ index' = {t \in (index \ txs[j].wiped) \cup txs[j].added : NewRows(j)[t.key].id = t.id}
    BY Committed
  <1>2. /\ txs[j] \in TxType /\ Stage(txs[j], table) /\ Agrees(txs[j], rows, table)
        /\ index \subseteq Tuple
    BY TxFacts DEF ImportInv, TablesType
  <1>3. ASSUME NEW t \in index'
        PROVE  NewRows(j)[t.key].id = t.id /\ t.item \in NewRows(j)[t.key].items
    <2>1. NewRows(j)[t.key].id = t.id /\ t \in index \cup txs[j].added
      BY <1>1
    <2>2. t \in Tuple /\ t.key \in CveKeys /\ t.id # 0
      BY <1>2, <2>1, CveImportAssumption DEF TxType, Tuple
    <2>3. CASE t \in index
      <3>1. Retired(t.id) /\ t.item \in rows[t.key].items
        BY <2>3 DEF ImportInv, IndexIsSound, IdsAreFresh
      <3> QED BY <2>1, <2>2, <3>1, RetiredRowsGrow
    <2>4. CASE t \in txs[j].added
      <3>1. PICK key \in CveKeys : t \in Tuples(key, txs[j].seen[key])
        BY <1>1, <1>2, <2>4 DEF Stage, DerivedOf
      <3>2. t.key = key /\ t.id = txs[j].seen[key].id /\ t.item \in txs[j].seen[key].items
        BY <3>1 DEF Tuples
      <3>3. Exists(txs[j].seen[key])
        BY <2>2, <3>2 DEF Exists
      <3>4. CASE txs[j].seen[key] = txs[j].written[key]
        BY <2>1, <2>2, <3>2, <3>3, <3>4 DEF NewRows, Sees
      <3>5. CASE ~Exists(txs[j].written[key])
              /\ (txs[j].seen[key].id = rows[key].id => txs[j].seen[key].items \subseteq rows[key].items)
        <4>1. NewRows(j)[key] = rows[key]
          BY <2>1, <2>2, <3>2, <3>5 DEF NewRows, Sees, NoCve
        <4> QED BY <2>1, <3>2, <3>5, <4>1
      <3> QED BY <1>2, <3>3, <3>4, <3>5 DEF Agrees
    <2> QED BY <2>1, <2>3, <2>4
  <1> QED BY <1>1, <1>3 DEF IndexIsSound

\* The id of a transaction is retired with it.
LEMMA CommitRetires ==
  ASSUME ImportInv, NEW j \in Jobs, CommitTx(j)
  PROVE  IdsAreFresh'
  <1>1. /\ rows' = NewRows(j)
        /\ index' = {t \in (index \ txs[j].wiped) \cup txs[j].added : NewRows(j)[t.key].id = t.id}
        /\ UNCHANGED <<table, begun>>
        /\ \A k \in Jobs : txs'[k] = IF k = j THEN IdleTx ELSE txs[k]
    BY Committed
  <1>2. /\ txs[j] \in TxType /\ index \subseteq Tuple /\ IdsAreFresh
    BY TxFacts DEF ImportInv, TablesType
  <1>3. /\ IdleTx.id = 0 /\ IdleTx.wiped = {} /\ \A key \in CveKeys : ~Exists(IdleTx.seen[key])
    BY IdleTxType DEF IdleTx
  <1>4. /\ begun \in Nat /\ \A k \in Jobs : txs[k].id \in Nat /\ txs[k].id <= begun
    BY <1>2, CveImportAssumption DEF IdsAreFresh
  <1>5. \A i : Retired(i) => Retired(i)'
    BY <1>1, <1>3, <1>4 DEF Retired
  <1>6. ASSUME NEW key \in CveKeys, NEW i, NewRows(j)[key].id = i, i # 0
        PROVE  Retired(i)'
    <2>1. i = txs[j].id \/ i = rows[key].id
      BY <1>6, RowsGrow DEF Exists
    <2>2. CASE i = txs[j].id
      <3>1. i \in 1..begun'
        BY <1>1, <1>4, <1>6, <2>2
      <3>2. \A k \in Jobs : txs'[k].id # i
        BY <1>1, <1>2, <1>3, <1>6, <2>2 DEF IdsAreFresh
      <3> QED BY <3>1, <3>2 DEF Retired
    <2>3. CASE i = rows[key].id
      <3>1. Retired(i)
        BY <1>2, <1>6, <2>3 DEF IdsAreFresh, Exists
      <3> QED BY <1>5, <3>1
    <2> QED BY <2>1, <2>2, <2>3
  <1>7. (begun \in 0..MaxTxs /\ \A k \in Jobs : txs[k].id \in 0..begun)'
    BY <1>1, <1>2, <1>3, <1>4 DEF IdsAreFresh
  <1>8. (\A k, l \in Jobs : k # l => txs[k].id # txs[l].id \/ txs[k].id = 0)'
    BY <1>1, <1>2, <1>3, <1>4 DEF IdsAreFresh
  <1>9. (\A key \in CveKeys : Exists(rows[key]) => Retired(rows[key].id))'
    <2> SUFFICES ASSUME NEW key \in CveKeys, Exists(rows'[key])
                 PROVE  (\A i : i = rows[key].id => Retired(i))'
      BY DEF Exists
    <2>1. \A i : i = NewRows(j)[key].id => Retired(i)'
      BY <1>1, <1>6 DEF Exists
    <2> QED BY <1>1, <2>1
  <1>10. (\A t \in index : Retired(t.id))'
    <2> SUFFICES ASSUME NEW t \in index' PROVE (Retired(t.id))'
      OBVIOUS
    <2>1. t \in Tuple /\ NewRows(j)[t.key].id = t.id
      BY <1>1, <1>2 DEF TxType
    <2>2. t.key \in CveKeys /\ t.id # 0
      BY <2>1, CveImportAssumption DEF Tuple
    <2> QED BY <1>6, <2>1, <2>2 DEF Exists
  <1>11. (\A k \in Jobs : \A t \in txs[k].wiped : Retired(t.id))'
    BY <1>1, <1>2, <1>3, <1>5 DEF IdsAreFresh
  <1>12. (\A k \in Jobs : \A key \in CveKeys : Exists(txs[k].seen[key]) =>
            txs[k].seen[key] = txs[k].written[key] \/ Retired(txs[k].seen[key].id))'
    BY <1>1, <1>2, <1>3, <1>5 DEF IdsAreFresh, Exists
  <1> QED BY <1>7, <1>8, <1>9, <1>10, <1>11, <1>12 DEF IdsAreFresh

\* After a commit, what can be derived from a row is there, or left to a later rebuild.
LEMMA CommitCompletes ==
  ASSUME ImportInv, NEW j \in Jobs, CommitTx(j)
  PROVE  IndexIsComplete'
  <1> DEFINE work == txs[j]
             new == NewRows(j)
             written == {key \in CveKeys : Exists(work.written[key])}
             overtaken == {key \in CveKeys : CopiesFirst(work, table) /\ new[key] # work.seen[key]}
             covered == {key \in CveKeys : new[key] = work.seen[key]}
  <1>1. /\ work.at = "commit" /\ rows' = new
        /\ index' = {t \in (index \ work.wiped) \cup work.added : new[t.key].id = t.id}
    BY Committed
  <1>2. deferred' = {key \in (deferred \cup (IF work.finalize THEN overtaken ELSE written)) \ covered :
                       Exists(new[key])}
    <2>1. [key \in CveKeys |-> Visible(j, key)] = new
      BY DEF NewRows, Visible, Sees
    <2>2. \A key \in CveKeys : CopiesFirst(work, table) <=> table = "reference" /\ work.kind = "rebuild"
      BY DEF CopiesFirst
    <2> QED BY <2>1, <2>2 DEF CommitTx
  <1>3. /\ work \in TxType /\ Stage(work, table) /\ Agrees(work, rows, table)
        /\ IndexIsComplete
    BY TxFacts DEF ImportInv
  <1>4. \A key \in CveKeys : new[key] = Sees(work, rows, key) /\ NoItems(new[key])
    BY RowsGrow DEF NewRows
  <1> HIDE DEF work, new
  <1>5. ASSUME NEW key \in CveKeys \ deferred', NEW t \in Tuples(key, new[key])
        PROVE  t \in index'
    <2>1. /\ t.key = key /\ t.id = new[key].id /\ t.item \in new[key].items
      BY DEF Tuples
    <2>2. Exists(new[key])
      BY <1>4, <2>1 DEF NoItems, Exists
    <2>3. SUFFICES t \in (index \ work.wiped) \cup work.added
      BY <1>1, <2>1
    <2>4. CASE key \in covered
      BY <1>1, <1>3, <2>4 DEF Stage, DerivedOf
    <2>5. CASE key \notin covered
      <3>1. key \notin deferred /\ key \notin (IF work.finalize THEN overtaken ELSE written)
        BY <1>2, <2>2, <2>5
      <3>2. ~Exists(work.written[key])
        <4>1. ASSUME Exists(work.written[key]) PROVE FALSE
          <5>1. work.finalize
            BY <3>1, <4>1
          <5>2. work.seen[key] = work.written[key]
            BY <1>1, <1>3, <4>1, <5>1 DEF Stage
          <5> QED BY <1>4, <2>5, <4>1, <5>2 DEF Sees
        <4> QED BY <4>1
      <3>3. new[key] = rows[key]
        BY <1>4, <2>2, <3>2 DEF Sees, Exists, NoCve
      <3>4. t \in index
        BY <1>3, <3>1, <3>3 DEF IndexIsComplete
      <3>5. CASE t \in work.wiped
        <4>1. ~CopiesFirst(work, table)
          BY <1>3, <2>5, <3>1 DEF Stage, CopiesFirst
        <4>2. t \in DerivedOf(work)
          BY <1>1, <1>3, <1>4, <2>1, <3>5, <4>1 DEF Agrees
        <4> QED BY <1>1, <1>3, <4>2 DEF Stage
      <3> QED BY <3>4, <3>5
    <2> QED BY <2>4, <2>5
  <1> QED BY <1>1, <1>5 DEF IndexIsComplete

\* So a commit keeps the invariant.
LEMMA Committing ==
  ASSUME ImportInv, NEW j \in Jobs, CommitTx(j)
  PROVE  ImportInv'
  <1>1. /\ rows' = NewRows(j)
        /\ index' = {t \in (index \ txs[j].wiped) \cup txs[j].added : NewRows(j)[t.key].id = t.id}
        /\ UNCHANGED <<table, begun>>
        /\ \A k \in Jobs : txs'[k] = IF k = j THEN IdleTx ELSE txs[k]
        /\ txs' \in [Jobs -> TxType]
    BY Committed
  <1>2. \A key \in CveKeys : NewRows(j)[key] \in CveRow /\ NoItems(NewRows(j)[key])
    BY RowsGrow
  <1>3. NewRows(j) \in [CveKeys -> CveRow]
    BY <1>2 DEF NewRows
  <1>4. index' \in SUBSET Tuple
    BY <1>1, TxFacts DEF ImportInv, TablesType, TxType
  <1>5. TablesType'
    BY <1>1, <1>2, <1>3, <1>4 DEF ImportInv, TablesType
  <1>6. TxsInv'
    <2>1. \A k \in Jobs : k # j => Stage(txs[k], table) /\ Agrees(txs[k], NewRows(j), table)
      BY TxFacts, CommitAgrees DEF Others
    <2>2. Stage(IdleTx, table) /\ Agrees(IdleTx, NewRows(j), table)
      BY <1>3, IdleTxStage
    <2>3. \A k \in Jobs : Stage(txs'[k], table') /\ Agrees(txs'[k], rows', table')
      BY <1>1, <2>1, <2>2
    <2> QED BY <2>3 DEF TxsInv
  <1>7. LocksExclude'
    <2>1. Locks(IdleTx) = {}
      BY IdleTxStage
    <2> QED BY <1>1, <2>1 DEF ImportInv, LocksExclude
  <1> QED BY <1>5, <1>6, <1>7, CommitKeepsSound, CommitRetires, CommitCompletes DEF ImportInv

\* What a finished import has left satisfies it.
LEMMA ImportBegins == InitCveImport => ImportInv
  <1> SUFFICES ASSUME InitCveImport PROVE ImportInv
    OBVIOUS
  <1> USE DEF InitCveImport
  <1>1. /\ \A key \in CveKeys : rows[key] \in CveRow /\ NoItems(rows[key]) /\ rows[key].id \in {0, 1}
        /\ rows \in [CveKeys -> CveRow]
    BY CveImportAssumption DEF CveRow, NoCve, NoItems
  <1>2. \A j \in Jobs : txs[j] = IdleTx
    OBVIOUS
  <1>3. \A t \in index : \E key \in CveKeys :
            t = [key |-> key, id |-> rows[key].id, item |-> t.item] /\ t.item \in rows[key].items
    BY DEF Tuples
  <1>4. \A t \in index : /\ t.key \in CveKeys /\ t.item \in rows[t.key].items
                         /\ t.id = 1 /\ rows[t.key].id = 1 /\ t \in Tuple
    <2> SUFFICES ASSUME NEW t \in index
                 PROVE  /\ t.key \in CveKeys /\ t.item \in rows[t.key].items
                        /\ t.id = 1 /\ rows[t.key].id = 1 /\ t \in Tuple
      OBVIOUS
    <2>1. PICK key \in CveKeys : /\ t = [key |-> key, id |-> rows[key].id, item |-> t.item]
                                 /\ t.item \in rows[key].items
      BY <1>3
    <2>2. rows[key].id = 1 /\ rows[key].items \subseteq Items /\ 1 \in 1..MaxTxs
      BY <1>1, <2>1, CveImportAssumption DEF NoItems, CveRow
    <2>3. t.key = key /\ t.id = 1
      BY <2>1, <2>2
    <2>4. t \in Tuple
      BY <2>1, <2>2 DEF Tuple
    <2> QED BY <2>1, <2>2, <2>3, <2>4
  <1>5. TablesType
    BY <1>1, <1>4, IdleTxType DEF TablesType
  <1>6. TxsInv
    BY <1>1, <1>2, IdleTxStage DEF TxsInv
  <1>7. LocksExclude
    BY <1>2, IdleTxStage DEF LocksExclude
  <1>8. IndexIsSound
    BY <1>4 DEF IndexIsSound
  <1>9. Retired(1) /\ begun \in 0..MaxTxs /\ IdleTx.id = 0 /\ IdleTx.wiped = {}
    BY <1>2, IdleTxType, CveImportAssumption DEF Retired, IdleTx
  <1>10. IdsAreFresh
    <2>1. \A key \in CveKeys : ~Exists(IdleTx.seen[key])
      BY IdleTxType DEF IdleTx
    <2>2. \A j \in Jobs : /\ txs[j].id = 0 /\ txs[j].wiped = {}
                          /\ \A key \in CveKeys : ~Exists(txs[j].seen[key])
      BY <1>2, <1>9, <2>1
    <2>3. \A key \in CveKeys : Exists(rows[key]) => Retired(rows[key].id)
      BY <1>1, <1>9 DEF Exists
    <2>4. \A t \in index : Retired(t.id)
      BY <1>4, <1>9
    <2>5. 0 \in 0..begun
      BY <1>9, CveImportAssumption
    <2> QED BY <1>9, <2>2, <2>3, <2>4, <2>5 DEF IdsAreFresh
  <1>11. IndexIsComplete
    BY DEF IndexIsComplete
  <1> QED BY <1>5, <1>6, <1>7, <1>8, <1>10, <1>11 DEF ImportInv

\* Imports, prunes and rebuilds in any interleaving, with deadlocks, retries and restarts:
\* what can be derived from a row of cve_database is in the derived table, unless the
\* import that wrote the row left that to a later one or a rebuild of the reference keys
\* was overtaken by it.
THEOREM IndexesAreComplete == CveImportSpec => []IndexIsComplete
  <1>1. InitCveImport => ImportInv
    BY ImportBegins
  <1>2. ImportInv /\ [NextCveImport]_importVars => ImportInv'
    <2> SUFFICES ASSUME ImportInv, [NextCveImport]_importVars PROVE ImportInv'
      OBVIOUS
    <2>1. CASE UNCHANGED importVars
      BY <2>1 DEF importVars, ImportInv, TablesType, TxsInv, LocksExclude, IndexIsSound,
                  IdsAreFresh, IndexIsComplete, Retired
    <2>2. CASE \E j \in Importers : BeginImport(j) \/ BeginBundle(j) \/ BeginPrune(j)
      BY <2>2, BeginningImport, BeginningBundle, BeginningPrune DEF Jobs
    <2>3. CASE \E j \in Rebuilders : BeginAffectedRebuild(j) \/ BeginReferenceRebuild(j)
      BY <2>3, BeginningRebuild DEF Jobs
    <2>4. CASE \E j \in Jobs : Statement(j) \/ RollBack(j)
      BY <2>4, Deleting, Upserting, Wiping, Selecting, Writing, Committing, RollingBack DEF Statement
    <2>5. CASE Restart
      BY <2>5, Restarting
    <2> QED BY <2>1, <2>2, <2>3, <2>4, <2>5 DEF NextCveImport
  <1>3. ImportInv => IndexIsComplete
    BY DEF ImportInv
  <1> QED BY <1>1, <1>2, <1>3, PTL DEF CveImportSpec

=============================================================================

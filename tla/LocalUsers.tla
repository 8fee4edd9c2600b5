----------------------------- MODULE LocalUsers -----------------------------
(***************************************************************************)
(* The dashboard's local users and the guard that keeps an administrator   *)
(* among them: the guarded transactions of internal/server/db/             *)
(* users_tokens.go, the handlers of internal/server/api/                   *)
(* users_tokens_handlers.go that call them, and bootstrapAdmin of          *)
(* internal/server/api/auth_handlers.go.                                   *)
(*                                                                         *)
(* PostgreSQL runs the transactions at READ COMMITTED: each statement has  *)
(* its own snapshot, SELECT ... FOR UPDATE waits for the rows that others  *)
(* hold, and leaves out those that no longer qualify afterwards.           *)
(***************************************************************************)
EXTENDS Naturals, FiniteSets

CONSTANTS
    UserIds,      \* the users there may be, one after another
    UserRequests, \* the administrators' requests under way at once
    UserFaults    \* bound: transactions that fail, and restarts

ASSUME LocalUsersAssumption == UserFaults \in Nat

VARIABLES
    role,    \* local_users: the role of each user, or "none"
    used,    \* the ids given out so far: an id is never given out again
    tx,      \* the guarded transactions
    ufaults  \* how many more faults there may be

userVars == <<role, used, tx, ufaults>>

Roles == {"admin", "viewer"}
NoTx == [pc |-> "idle", target |-> {}, to |-> "none", sees |-> {}, holds |-> {}]

\* sees: the administrators of the first statement's snapshot; holds: the
\* rows locked; to: the new role, "none" for a deletion.
Tx == [pc: {"idle", "locking", "locked"}, target: SUBSET UserIds,
       to: Roles \cup {"none"}, sees: SUBSET UserIds, holds: SUBSET UserIds]

LocalUsersTypeOK ==
    /\ role \in [UserIds -> Roles \cup {"none"}]
    /\ used \in SUBSET UserIds
    /\ tx \in [UserRequests -> Tx]
    /\ ufaults \in 0..UserFaults

AdminIds == {u \in UserIds : role[u] = "admin"}

\* A fresh database, before bootstrapAdmin.
InitLocalUsers ==
    /\ role = [u \in UserIds |-> "none"] /\ used = {}
    /\ tx = [q \in UserRequests |-> NoTx]
    /\ ufaults = UserFaults

HeldByOthers(q) == UNION {tx[p].holds : p \in UserRequests \ {q}}

----------------------------------------------------------------------------
\* CreateLocalUser: a plain insert.
CreateLocalUser(u, r) ==
    /\ u \notin used
    /\ used' = used \cup {u} /\ role' = [role EXCEPT ![u] = r]
    /\ UNCHANGED <<tx, ufaults>>

\* The server starts again; bootstrapAdmin creates an administrator when
\* there are no users at all.
BootstrapAdmin(u) ==
    /\ ufaults > 0 /\ ufaults' = ufaults - 1
    /\ tx' = [q \in UserRequests |-> NoTx]
    /\ IF \A v \in UserIds : role[v] = "none"
       THEN /\ u \notin used
            /\ used' = used \cup {u} /\ role' = [role EXCEPT ![u] = "admin"]
       ELSE UNCHANGED <<role, used>>

\* handleUpdateUserRole and handleDeleteUser, up to the first statement of
\* the transaction, which takes its snapshot.
BeginGuarded(q, u, r) ==
    /\ tx[q].pc = "idle"
    /\ role[u] # "none"       \* GetLocalUserByID
    /\ tx' = [tx EXCEPT ![q] = [pc |-> "locking", target |-> {u}, to |-> r,
                                sees |-> AdminIds, holds |-> {}]]
    /\ UNCHANGED <<role, used, ufaults>>

\* Mutant: the administrators are counted without FOR UPDATE.
CountAdminsOnly(q) ==
    /\ tx[q].pc = "locking"
    /\ tx' = [tx EXCEPT ![q].pc = "locked", ![q].holds = tx[q].sees]
    /\ UNCHANGED <<role, used, ufaults>>

\* lockAdminsAndTarget, first statement: it waits for each row of its snapshot
\* and keeps those that are still administrators.
LockAdmins(q) ==
    /\ tx[q].pc = "locking"
    /\ tx[q].sees \cap HeldByOthers(q) = {}
    /\ tx' = [tx EXCEPT ![q].pc = "locked", ![q].holds = tx[q].sees \cap AdminIds]
    /\ UNCHANGED <<role, used, ufaults>>

\* The second statement locks the target and reads its role; then the guard,
\* the write and the commit: UpdateLocalUserRoleGuarded and
\* DeleteLocalUserGuarded.
DecideGuarded(q) ==
    LET u == CHOOSE v \in UserIds : v \in tx[q].target
        last == role[u] = "admin" /\ tx[q].to # "admin" /\ Cardinality(tx[q].holds) <= 1
    IN  /\ tx[q].pc = "locked"
        /\ u \notin HeldByOthers(q)
        /\ role' = IF role[u] = "none" \/ last THEN role ELSE [role EXCEPT ![u] = tx[q].to]
        /\ tx' = [tx EXCEPT ![q] = NoTx]
        /\ UNCHANGED <<used, ufaults>>

\* The transaction fails: rolled back, its locks released.
GuardedFails(q) ==
    /\ tx[q].pc # "idle"
    /\ ufaults > 0 /\ ufaults' = ufaults - 1
    /\ tx' = [tx EXCEPT ![q] = NoTx]
    /\ UNCHANGED <<role, used>>

NextLocalUsers ==
    \/ \E u \in UserIds, r \in Roles : CreateLocalUser(u, r)
    \/ \E u \in UserIds : BootstrapAdmin(u)
    \/ \E q \in UserRequests, u \in UserIds, r \in Roles \cup {"none"} : BeginGuarded(q, u, r)
    \/ \E q \in UserRequests : LockAdmins(q) \/ DecideGuarded(q) \/ GuardedFails(q)

LocalUsersSpec == InitLocalUsers /\ [][NextLocalUsers]_userVars

----------------------------------------------------------------------------
\* users_tokens.go:53-55: "closing the check-then-act race where two callers
\* each see >1 admin and both reduce the count to zero".  However demotions,
\* promotions, deletions and creations interleave, there is an administrator
\* from the first one on.
AnAdminRemains == [][AdminIds # {} => AdminIds' # {}]_userVars
=============================================================================

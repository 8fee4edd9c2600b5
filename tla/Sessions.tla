------------------------------ MODULE Sessions ------------------------------
(***************************************************************************)
(* Logins and the sessions they open: handleLogin, handleLogout,           *)
(* handleChangePassword and the session checks of internal/server/api/     *)
(* auth_handlers.go, loginLimiter of login_limiter.go, the administrators' *)
(* password reset and deletion of users_tokens_handlers.go, and the        *)
(* sessions table of internal/server/db/session.go.                        *)
(*                                                                         *)
(* A login is several steps with the database in between: the limiter, the *)
(* user's row, the comparison with its hash, the limiter again, the new    *)
(* session.                                                                *)
(***************************************************************************)
EXTENDS Naturals, FiniteSets

CONSTANTS
    Users,        \* the local users, by name
    Clients,      \* the addresses logins come from, one login at a time each
    MaxFailures,  \* BONGSU_LOGIN_MAX_FAILURES
    MaxEntries,   \* loginLimiterMaxEntries
    MaxPassword,  \* bound: how often a password is replaced
    SessionFaults \* bound: failures of the database

ASSUME SessionsAssumption ==
    /\ Users \cap Clients = {} /\ IsFiniteSet(Clients)
    /\ MaxFailures \in Nat \ {0} /\ MaxEntries \in Nat \ {0}
    /\ MaxPassword \in Nat /\ SessionFaults \in Nat

VARIABLES
    password, \* per user, the number of its password; Gone once deleted
    login,    \* per client, its login
    session,  \* per client, the session it holds the token of
    entry,    \* the limiter's entries
    reset,    \* the administrator's password reset under way
    ended,    \* history: per user, the password of the last reset that was carried through
    sfaults   \* how many more failures of the database there may be

sessionVars == <<password, login, session, entry, reset, ended, sfaults>>

Gone == MaxPassword + 1
Passwords == 0..MaxPassword

\* The limiter has one entry per address and one per user name.
Keys == Clients \cup Users
NoEntry == [count |-> 0, old |-> FALSE]

NoLogin == [pc |-> "idle", user |-> {}, read |-> 0]
NoSession == [user |-> {}, with |-> 0, late |-> FALSE]
NoReset == [pc |-> "idle", user |-> {}, to |-> 0]

\* with: the password the session was opened with; late (history): a reset had
\* already ended the sessions of that password when it was opened.
SessionsTypeOK ==
    /\ password \in [Users -> Passwords \cup {Gone}]
    /\ login \in [Clients -> [pc: {"idle", "allowed", "read", "verified"},
                              user: SUBSET Users, read: Passwords]]
    /\ session \in [Clients -> [user: SUBSET Users, with: Passwords, late: BOOLEAN]]
    /\ entry \in [Keys -> [count: Nat, old: BOOLEAN]]
    /\ reset \in [pc: {"idle", "stored"}, user: SUBSET Users, to: Passwords]
    /\ ended \in [Users -> Passwords]
    /\ sfaults \in 0..SessionFaults

InitSessions ==
    /\ password = [u \in Users |-> 0]
    /\ login = [c \in Clients |-> NoLogin]
    /\ session = [c \in Clients |-> NoSession]
    /\ entry = [k \in Keys |-> NoEntry]
    /\ reset = NoReset
    /\ ended = [u \in Users |-> 0] /\ sfaults = SessionFaults

----------------------------------------------------------------------------
(* The limiter: blocked, fail and success are critical sections of one     *)
(* lock.  An entry is old when its window is over.                         *)

Known(k) == entry[k].count > 0

\* Mutant: one more failure is allowed.
LockedLate(k) == entry[k].count > MaxFailures /\ ~entry[k].old

Locked(k) == entry[k].count >= MaxFailures /\ ~entry[k].old
KeysOf(c, u) == {c, u}

\* The first of the keys (address, then name) that is not old decides; old
\* ones met before it are deleted.
Blocked(c, u) == Locked(c) \/ Locked(u)
AfterBlocked(c, u) ==
    [k \in Keys |-> IF entry[k].old /\ (k = c \/ (k = u /\ ~Locked(c)))
                    THEN NoEntry ELSE entry[k]]

\* At the cap the old entries go, and all of them if that was not enough.
Trimmed ==
    LET size(e) == Cardinality({k \in Keys : e[k].count > 0})
        young == [k \in Keys |-> IF entry[k].old THEN NoEntry ELSE entry[k]]
    IN  IF size(entry) < MaxEntries THEN entry
        ELSE IF size(young) < MaxEntries THEN young
        ELSE [k \in Keys |-> NoEntry]

Failed(c, u) ==
    [k \in Keys |->
        IF k \notin KeysOf(c, u) THEN Trimmed[k]
        ELSE IF Trimmed[k].old THEN [count |-> 1, old |-> FALSE]
        ELSE [Trimmed[k] EXCEPT !.count = @ + 1]]

Succeeded(c, u) == [k \in Keys |-> IF k \in KeysOf(c, u) THEN NoEntry ELSE entry[k]]

\* An entry's window passes.
WindowPasses(k) ==
    /\ Known(k) /\ ~entry[k].old
    /\ entry' = [entry EXCEPT ![k].old = TRUE]
    /\ UNCHANGED <<password, login, session, reset, ended, sfaults>>

----------------------------------------------------------------------------
(* Logins.                                                                 *)

Proceeds(c, from, to) == login[c].pc = from /\ login' = [login EXCEPT ![c] = to]

\* handleLogin: the limiter lets it pass, or the answer is 429.
LoginAllowed(c, u) ==
    /\ entry' = AfterBlocked(c, u)
    /\ IF Blocked(c, u)
       THEN login[c].pc = "idle" /\ UNCHANGED login
       ELSE Proceeds(c, "idle", [pc |-> "allowed", user |-> {u}, read |-> 0])
    /\ UNCHANGED <<password, session, reset, ended, sfaults>>

LoginUser(c) == CHOOSE u \in Users : u \in login[c].user

\* GetLocalUserByUsername finds the user.
LoginReads(c) ==
    /\ login[c].pc = "allowed" /\ password[LoginUser(c)] # Gone
    /\ Proceeds(c, "allowed", [login[c] EXCEPT !.pc = "read", !.read = password[LoginUser(c)]])
    /\ UNCHANGED <<password, session, entry, reset, ended, sfaults>>

\* An unknown user, a database error or a wrong password: all of them count.
LoginFails(c) ==
    /\ \/ login[c].pc = "allowed" /\ (password[LoginUser(c)] = Gone \/ sfaults > 0)
       \/ login[c].pc = "read"
    /\ sfaults' = IF login[c].pc = "allowed" /\ password[LoginUser(c)] # Gone
                  THEN sfaults - 1 ELSE sfaults
    /\ entry' = Failed(c, LoginUser(c))
    /\ login' = [login EXCEPT ![c] = NoLogin]
    /\ UNCHANGED <<password, session, reset, ended>>

\* The password given is the one that was read.
LoginVerifies(c) ==
    /\ Proceeds(c, "read", [login[c] EXCEPT !.pc = "verified"])
    /\ entry' = Succeeded(c, LoginUser(c))
    /\ UNCHANGED <<password, session, reset, ended, sfaults>>

\* CreateSession: the foreign key refuses a user who is gone.  The client
\* forgets an earlier session's token.
CreateSession(c) ==
    /\ Proceeds(c, "verified", NoLogin)
    /\ IF password[LoginUser(c)] = Gone
       THEN UNCHANGED session
       ELSE session' = [session EXCEPT ![c] =
                    [user |-> login[c].user, with |-> login[c].read,
                     late |-> login[c].read < ended[LoginUser(c)]]]
    /\ UNCHANGED <<password, entry, reset, ended, sfaults>>

CreateSessionFails(c) ==
    /\ Proceeds(c, "verified", NoLogin)
    /\ sfaults > 0 /\ sfaults' = sfaults - 1
    /\ UNCHANGED <<password, session, entry, reset, ended>>

----------------------------------------------------------------------------
(* Sessions.                                                               *)

\* handleLogout; DeleteExpiredSessions and an expiry do the same to the row.
EndSession(c) ==
    /\ session[c] # NoSession
    /\ session' = [session EXCEPT ![c] = NoSession]
    /\ UNCHANGED <<password, login, entry, reset, ended, sfaults>>

NewPassword(u) ==
    /\ password[u] < MaxPassword
    /\ password' = [password EXCEPT ![u] = @ + 1]

\* handleChangePassword: the user's sessions stay open.
ChangePassword(c, u) ==
    /\ session[c].user = {u}
    /\ NewPassword(u)
    /\ UNCHANGED <<login, session, entry, reset, ended, sfaults>>

\* Mutant: one session of the user is deleted.
WithoutOne(u) ==
    LET open == {c \in Clients : session[c].user = {u}}
    IN  [c \in Clients |-> IF open # {} /\ c = (CHOOSE d \in open : TRUE)
                           THEN NoSession ELSE session[c]]

\* DELETE FROM sessions WHERE user_id = u, by DeleteUserSessions or the foreign key.
Without(u) == [c \in Clients |-> IF session[c].user = {u} THEN NoSession ELSE session[c]]

\* handleResetUserPassword: UpdateLocalUserPassword.
ResetStores(u) ==
    /\ reset = NoReset
    /\ NewPassword(u)
    /\ reset' = [pc |-> "stored", user |-> {u}, to |-> password[u] + 1]
    /\ UNCHANGED <<login, session, entry, ended, sfaults>>

\* DeleteUserSessions; its error is ignored.
ResetDeletes ==
    /\ reset.pc = "stored"
    /\ reset' = NoReset
    /\ \E u \in reset.user : /\ session' = Without(u)
                             /\ ended' = [ended EXCEPT ![u] = reset.to]
    /\ UNCHANGED <<password, login, entry, sfaults>>

ResetDeleteFails ==
    /\ reset.pc = "stored"
    /\ sfaults > 0 /\ sfaults' = sfaults - 1
    /\ reset' = NoReset
    /\ UNCHANGED <<password, login, session, entry, ended>>

\* handleDeleteUser: the sessions go with the row.
DeleteUser(u) ==
    /\ password[u] # Gone
    /\ password' = [password EXCEPT ![u] = Gone]
    /\ session' = Without(u)
    /\ UNCHANGED <<login, entry, reset, ended, sfaults>>

NextSessions ==
    \/ \E k \in Keys : WindowPasses(k)
    \/ \E c \in Clients, u \in Users : LoginAllowed(c, u) \/ ChangePassword(c, u)
    \/ \E c \in Clients : \/ LoginReads(c) \/ LoginFails(c) \/ LoginVerifies(c)
                          \/ CreateSession(c) \/ CreateSessionFails(c) \/ EndSession(c)
    \/ \E u \in Users : ResetStores(u) \/ DeleteUser(u)
    \/ ResetDeletes \/ ResetDeleteFails

SessionsSpec == InitSessions /\ [][NextSessions]_sessionVars

----------------------------------------------------------------------------
\* login_limiter.go:9-11: attempts are rejected after maxFailures failed ones.
\* blocked and fail are apart, so logins under way at once may fail beyond the
\* limit, but no more of them than the clients there are.
LockoutHolds == \A k \in Keys : entry[k].count <= MaxFailures + Cardinality(Clients) - 1

\* users_tokens_handlers.go:159, "Force re-login everywhere after an admin
\* reset": a session opened with an earlier password outlives a reset that was
\* carried through only if a login that had read the earlier password opened it
\* afterwards.
ResetEndsSessions ==
    \A c \in Clients : \A u \in session[c].user :
        session[c].with < ended[u] => session[c].late
=============================================================================

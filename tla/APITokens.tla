------------------------------ MODULE APITokens ------------------------------
(***************************************************************************)
(* The in-memory cache of the API tokens (internal/server/api/             *)
(* api_token_store.go) beside the table it is filled from                  *)
(* (internal/server/db/users_tokens.go): the administrators' requests that *)
(* create and revoke tokens, the periodic refresh, and the requests that   *)
(* present a token.                                                        *)
(*                                                                         *)
(* A refresh reads the table before it takes the lock of the cache, so any *)
(* of the others may fall between its reading and its installing.          *)
(***************************************************************************)
EXTENDS Naturals, FiniteSets

CONSTANTS
    Tokens,        \* the tokens that may be created, each with its hash and id
    Admins,        \* the requests that create or revoke tokens
    Ticker,        \* the goroutine of the periodic refresh
    MaxTokenFaults \* bound: database errors and restarts together

ASSUME APITokensAssumption == Ticker \notin Admins /\ MaxTokenFaults \in Nat

VARIABLES
    row,     \* api_tokens: the state of each token's row
    lapsed,  \* the tokens whose expires_at is over
    cache,   \* byHash: the tokens in the cache
    seen,    \* lastSeen: the tokens whose last use is remembered
    caller,  \* the requests and the ticker
    looked,  \* the tokens found by lookup and not yet marked as used
    tfaults  \* how many more faults there may be

tokenVars == <<row, lapsed, cache, seen, caller, looked, tfaults>>

Callers == Admins \cup {Ticker}
Idle == [pc |-> "idle", token |-> {}, snap |-> {}]

\* token holds the token of the request, if it has one; snap what a refresh
\* has read.
Caller == [pc: {"idle", "put", "evict", "refresh", "install"},
           token: SUBSET Tokens, snap: SUBSET Tokens]

APITokensTypeOK ==
    /\ row \in [Tokens -> {"absent", "active", "revoked"}]
    /\ lapsed \in SUBSET Tokens /\ cache \in SUBSET Tokens
    /\ seen \in SUBSET Tokens /\ looked \in SUBSET Tokens
    /\ caller \in [Callers -> Caller]
    /\ tfaults \in 0..MaxTokenFaults

InitAPITokens ==
    /\ row = [t \in Tokens |-> "absent"]
    /\ lapsed = {} /\ cache = {} /\ seen = {} /\ looked = {}
    /\ caller = [c \in Callers |-> Idle]
    /\ tfaults = MaxTokenFaults

Goes(c, from, to) == caller[c].pc = from /\ caller' = [caller EXCEPT ![c] = to]

\* Mutant: the rows of revoked tokens too.
RowsNotExpired == {t \in Tokens \ lapsed : row[t] # "absent"}

\* ActiveAPITokens: the rows neither revoked nor expired.
ActiveAPITokens == {t \in Tokens \ lapsed : row[t] = "active"}

\* lookup finds the token and rechecks its expiry.
Accepted(t) == t \in cache /\ t \notin lapsed

----------------------------------------------------------------------------
\* handleCreateAPIToken up to CreateAPIToken.
CreateAPIToken(c, t) ==
    /\ row[t] = "absent"
    /\ Goes(c, "idle", [pc |-> "put", token |-> {t}, snap |-> {}])
    /\ row' = [row EXCEPT ![t] = "active"]
    /\ UNCHANGED <<lapsed, cache, seen, looked, tfaults>>

Put(c) ==
    /\ Goes(c, "put", [caller[c] EXCEPT !.pc = "refresh"])
    /\ cache' = cache \cup caller[c].token
    /\ UNCHANGED <<row, lapsed, seen, looked, tfaults>>

\* handleRevokeAPIToken up to RevokeAPIToken, which may be repeated.
RevokeAPIToken(c, t) ==
    /\ row[t] # "absent"
    /\ Goes(c, "idle", [pc |-> "evict", token |-> {t}, snap |-> {}])
    /\ row' = [row EXCEPT ![t] = "revoked"]
    /\ UNCHANGED <<lapsed, cache, seen, looked, tfaults>>

Evict(c) ==
    /\ Goes(c, "evict", [caller[c] EXCEPT !.pc = "refresh"])
    /\ cache' = cache \ caller[c].token
    /\ UNCHANGED <<row, lapsed, seen, looked, tfaults>>

\* The ticker of startAPITokenStore fires.
Tick ==
    /\ Goes(Ticker, "idle", [pc |-> "refresh", token |-> {}, snap |-> {}])
    /\ UNCHANGED <<row, lapsed, cache, seen, looked, tfaults>>

\* refresh: the query, without the lock.
RefreshReads(c) ==
    /\ Goes(c, "refresh", [caller[c] EXCEPT !.pc = "install", !.snap = ActiveAPITokens])
    /\ UNCHANGED <<row, lapsed, cache, seen, looked, tfaults>>

\* The query fails: the callers ignore the error.
RefreshFails(c) ==
    /\ Goes(c, "refresh", Idle)
    /\ tfaults > 0 /\ tfaults' = tfaults - 1
    /\ UNCHANGED <<row, lapsed, cache, seen, looked>>

\* Mutant: what was read is added to the cache.
InstallMerges(c) ==
    /\ Goes(c, "install", Idle)
    /\ cache' = cache \cup caller[c].snap
    /\ seen' = seen \cap caller[c].snap
    /\ UNCHANGED <<row, lapsed, looked, tfaults>>

\* refresh, under the lock: the cache becomes what was read, and the uses of
\* tokens no longer active are forgotten.
Install(c) ==
    /\ Goes(c, "install", Idle)
    /\ cache' = caller[c].snap
    /\ seen' = seen \cap caller[c].snap
    /\ UNCHANGED <<row, lapsed, looked, tfaults>>

\* apiTokenFromRequest: lookup under the read lock, markUsed under the lock
\* after it.
Lookup(t) ==
    /\ Accepted(t)
    /\ looked' = looked \cup {t}
    /\ UNCHANGED <<row, lapsed, cache, seen, caller, tfaults>>

MarkUsed(t) ==
    /\ t \in looked
    /\ looked' = looked \ {t}
    /\ seen' = seen \cup {t}
    /\ UNCHANGED <<row, lapsed, cache, caller, tfaults>>

\* expires_at passes.
Lapse(t) ==
    /\ row[t] # "absent" /\ t \notin lapsed
    /\ lapsed' = lapsed \cup {t}
    /\ UNCHANGED <<row, cache, seen, caller, looked, tfaults>>

\* The server starts again: newAPITokenStore, and one refresh.
RestartAPITokens ==
    /\ tfaults > 0 /\ tfaults' = tfaults - 1
    /\ cache' = {} /\ seen' = {} /\ looked' = {}
    /\ caller' = [c \in Callers |->
                    IF c = Ticker THEN [Idle EXCEPT !.pc = "refresh"] ELSE Idle]
    /\ UNCHANGED <<row, lapsed>>

RefreshStep(c) == RefreshReads(c) \/ RefreshFails(c) \/ Install(c)

NextAPITokens ==
    \/ \E c \in Admins, t \in Tokens : CreateAPIToken(c, t) \/ RevokeAPIToken(c, t)
    \/ \E c \in Admins : Put(c) \/ Evict(c)
    \/ \E c \in Callers : RefreshStep(c)
    \/ Tick
    \/ \E t \in Tokens : Lookup(t) \/ MarkUsed(t) \/ Lapse(t)
    \/ RestartAPITokens

\* Requests that have begun go on, the ticker keeps ticking, and a request
\* that has found its token marks it.
FairAPITokens ==
    /\ \A c \in Admins : WF_tokenVars(Put(c)) /\ WF_tokenVars(Evict(c))
    /\ \A c \in Callers : WF_tokenVars(RefreshStep(c))
    /\ \A t \in Tokens : WF_tokenVars(MarkUsed(t))
    /\ WF_tokenVars(Tick)

APITokensSpec == InitAPITokens /\ [][NextAPITokens]_tokenVars /\ FairAPITokens

----------------------------------------------------------------------------
\* api_token_store.go:17-20: creation and revocation take effect.  Whatever
\* stale refresh puts a revoked token back or drops a new one, in the end just
\* the tokens that are active in the table are accepted, and stay so.
CacheConverges == <>[](\A t \in Tokens : Accepted(t) <=> t \in ActiveAPITokens)

\* A revoked token that is in nobody's hands: not in the cache, in no list that a
\* refresh has read, and not on its way from its creation into the cache.
Withdrawn(t) ==
    /\ row[t] = "revoked" /\ t \notin cache
    /\ \A c \in Callers : /\ t \notin caller[c].snap
                          /\ caller[c].pc = "put" => t \notin caller[c].token

\* The same, step by step: only a request or a refresh that was under way when a
\* token was revoked can bring it back into the cache.  Once the last of these is
\* through, none of the creations, revocations, refreshes, failures and restarts to
\* come does.
RevokedStaysOut == [][\A t \in Tokens : Withdrawn(t) => Withdrawn(t)']_tokenVars

\* api_token_store.go:63-64: the uses that are remembered do not grow with the
\* tokens that come and go, even when a request marks a token that was revoked
\* after it had been looked up.
UsesAreForgotten == <>[](\A t \in Tokens : row[t] = "revoked" => t \notin seen)
=============================================================================

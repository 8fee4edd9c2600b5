------------------------------ MODULE OIDCKeys -------------------------------
(***************************************************************************)
(* Bearer tokens of an OpenID provider (internal/server/api/oidc.go) and   *)
(* the identity they give a request (api.go): the signing keys are cached  *)
(* for KeysTTL, a token whose key is not in the cache makes its request    *)
(* fetch them, and nothing keeps two requests from fetching at once and    *)
(* installing their answers in either order, while the provider replaces   *)
(* its keys.                                                               *)
(***************************************************************************)
EXTENDS Integers

CONSTANTS
    Bearers,   \* requests that carry a token
    JWTs,      \* the tokens: [kid, signed, ours, from, exp]
    KeyIds,    \* the keys of the provider, in the order it makes them: 1..n
    KeysTTL,   \* keysUntil, five minutes
    FetchTime, \* the limit of the HTTP client, ten seconds
    Leeway,    \* of nbf, sixty seconds
    MaxTime    \* bounds the clock

Never == MaxTime + 1

ASSUME OIDCAssumption ==
    /\ KeysTTL \in Nat /\ FetchTime \in Nat /\ Leeway \in Nat /\ MaxTime \in Nat
    /\ KeyIds \subseteq Nat /\ 1 \in KeyIds
    /\ JWTs \subseteq [kid: KeyIds, signed: BOOLEAN, ours: BOOLEAN, from: Nat, exp: Nat]

VARIABLES
    time,
    published, \* the keys that the provider's JWKS holds
    withdrawn, \* history: when a key was taken out of it
    keys,      \* the verifier's keys and keysUntil
    bearer     \* what the requests are doing

oidcVars == <<time, published, withdrawn, keys, bearer>>

NoBearer == [step |-> "idle", jwt |-> CHOOSE j \in JWTs : TRUE, since |-> 0, got |-> {}]

OIDCKeysTypeOK ==
    /\ time \in 0..MaxTime
    /\ published \subseteq KeyIds
    /\ withdrawn \in [KeyIds -> 0..Never]
    /\ keys.ids \subseteq KeyIds /\ keys.until \in -1..(MaxTime + KeysTTL)
    /\ bearer \in [Bearers -> [step: {"idle", "fetch", "answer", "look", "accepted"},
                               jwt: JWTs, since: 0..MaxTime, got: SUBSET KeyIds]]

InitOIDCKeys ==
    /\ time = 0
    /\ published = {1} /\ withdrawn = [k \in KeyIds |-> Never]
    /\ keys = [ids |-> {}, until |-> -1]
    /\ bearer = [b \in Bearers |-> NoBearer]

-----------------------------------------------------------------------------
\* cachedKey
Cached(kid) == time <= keys.until /\ kid \in keys.ids

\* The signature, the issuer and the audience, the expiry and nbf.
Verified(jwt) ==
    /\ jwt.signed /\ jwt.ours
    /\ jwt.exp > time
    /\ jwt.from <= time + Leeway

\* The identity of a request is asked for by several of its checks, and is
\* verified by the first: the others are given its result.
Decided(b, jwt, found) ==
    bearer' = [bearer EXCEPT ![b] =
        IF found /\ Verified(jwt)
        THEN [step |-> "accepted", jwt |-> jwt, since |-> time, got |-> {}]
        ELSE NoBearer]

OidcIdentity(b) ==
    /\ bearer[b].step = "idle"
    /\ \E jwt \in JWTs :
         IF Cached(jwt.kid) THEN Decided(b, jwt, TRUE)
         ELSE bearer' = [bearer EXCEPT ![b] = [step |-> "fetch", jwt |-> jwt,
                                               since |-> time, got |-> {}]]
    /\ UNCHANGED <<time, published, withdrawn, keys>>

\* The provider answers with the keys of a moment.
JWKSAnswer(b) ==
    /\ bearer[b].step = "fetch"
    /\ bearer' = [bearer EXCEPT ![b].step = "answer", ![b].got = published]
    /\ UNCHANGED <<time, published, withdrawn, keys>>

\* The answer is on its way until the client's limit; usable keys replace all.
RefreshKeys(b) ==
    /\ bearer[b].step = "answer" /\ bearer[b].got # {}
    /\ keys' = [ids |-> bearer[b].got, until |-> time + KeysTTL]
    /\ bearer' = [bearer EXCEPT ![b].step = "look", ![b].got = {}]
    /\ UNCHANGED <<time, published, withdrawn>>

\* Mutant: while the provider cannot be reached, the keys at hand serve on.
RefreshFailsKeepsKeys(b) ==
    /\ bearer[b].step \in {"fetch", "answer"}
    /\ keys' = [keys EXCEPT !.until = time + KeysTTL]
    /\ Decided(b, bearer[b].jwt, FALSE)
    /\ UNCHANGED <<time, published, withdrawn>>
\* No answer, an error, a timeout, or no usable key.
RefreshFails(b) ==
    /\ bearer[b].step \in {"fetch", "answer"}
    /\ Decided(b, bearer[b].jwt, FALSE)
    /\ UNCHANGED <<time, published, withdrawn, keys>>

\* Somebody else may have installed other keys since.
LookAgain(b) ==
    /\ bearer[b].step = "look"
    /\ Decided(b, bearer[b].jwt, Cached(bearer[b].jwt.kid))
    /\ UNCHANGED <<time, published, withdrawn, keys>>

\* A request whose token is rejected goes on without it, and is done here.
AnswerBearer(b) ==
    /\ bearer[b].step = "accepted"
    /\ bearer' = [bearer EXCEPT ![b] = NoBearer]
    /\ UNCHANGED <<time, published, withdrawn, keys>>

-----------------------------------------------------------------------------
\* The provider makes keys, and takes them back for good.
PublishKey ==
    /\ \E k \in KeyIds \ published :
         withdrawn[k] = Never /\ published' = published \cup {k}
    /\ UNCHANGED <<time, withdrawn, keys, bearer>>

WithdrawKey ==
    /\ \E k \in published : /\ published' = published \ {k}
                            /\ withdrawn' = [withdrawn EXCEPT ![k] = time]
    /\ UNCHANGED <<time, keys, bearer>>

\* Time stands still for a fetch that has used up the client's limit.
TimePasses ==
    /\ time < MaxTime
    /\ \A b \in Bearers : bearer[b].step \in {"fetch", "answer"} => time < bearer[b].since + FetchTime
    /\ time' = time + 1
    /\ UNCHANGED <<published, withdrawn, keys, bearer>>

NextOIDCKeys ==
    \/ \E b \in Bearers :
         \/ OidcIdentity(b) \/ JWKSAnswer(b) \/ RefreshKeys(b) \/ RefreshFails(b)
         \/ LookAgain(b) \/ AnswerBearer(b)
    \/ PublishKey \/ WithdrawKey \/ TimePasses

OIDCKeysSpec == InitOIDCKeys /\ [][NextOIDCKeys]_oidcVars

-----------------------------------------------------------------------------
\* A token that is accepted is in force, and its key is one that the provider
\* holds, or held until KeysTTL and the limit of one fetch ago: whichever way
\* the fetches overtake each other, whatever fails, an old answer does not make
\* a withdrawn key live longer than that.
WithdrawnKeysEnd ==
    \A b \in Bearers :
        LET jwt == bearer[b].jwt IN
        bearer[b].step = "accepted" =>
            /\ jwt.signed /\ jwt.ours /\ jwt.exp > bearer[b].since
            /\ \/ jwt.kid \in published
               \/ bearer[b].since <= withdrawn[jwt.kid] + FetchTime + KeysTTL
==============================================================================

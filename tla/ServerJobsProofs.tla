--------------------------- MODULE ServerJobsProofs ---------------------------
(***************************************************************************)
(* Proofs about what the server does by itself: SyncManager, for any       *)
(* intervals and any count of failures; APITokens, for any tokens and any  *)
(* requests; and Notifications, for any events, rules, channels and        *)
(* reports, any capacity and any number of attempts.                       *)
(***************************************************************************)
EXTENDS SyncManager, APITokens, Notifications, FiniteSetTheorems, TLAPS

----------------------------------------------------------------------------
(* The sync of the security database.                                      *)

\* The timer's bounds rest on the age of the last sync; the failures count up
\* and are reset by the loop and by administrators alike.
RetriesInv ==
    /\ since \in {Never} \cup 0..Interval
    /\ wait \in Int /\ streak \in Nat /\ retrying \in BOOLEAN
    /\ RetriesAreSoon

\* However many failures are counted, the delay is within the maximum.
LEMMA RetryIsBounded ==
  ASSUME streak \in Nat
  PROVE  RetryDelay \in Int /\ RetryDelay <= Smaller(RetryMax, Interval)
  <1>1. PICK k : k = IF streak > 1 THEN streak - 1 ELSE 0
    OBVIOUS
  <1>2. k \in Nat
    BY <1>1
  <1>3. 2 ^ k \in Int
    BY <1>2, SMT
  <1>4. PICK d : d = RetryBase * 2 ^ k
    OBVIOUS
  <1>5. d \in Int /\ Smaller(RetryMax, Interval) \in Int
    BY <1>3, <1>4, SyncManagerAssumption DEF Smaller
  <1>6. RetryDelay = Smaller(d, Smaller(RetryMax, Interval))
    BY <1>1, <1>4 DEF RetryDelay
  <1>7. QED
    BY <1>5, <1>6 DEF Smaller

\* Every step keeps the bounds.
LEMMA RetriesStep == RetriesInv /\ [NextSyncManager]_syncVars => RetriesInv'
  <1> SUFFICES ASSUME RetriesInv, [NextSyncManager]_syncVars PROVE RetriesInv'
    OBVIOUS
  <1> USE SyncManagerAssumption
  <1>1. CASE TimePasses
    BY <1>1 DEF TimePasses, RetriesInv, RetriesAreSoon, Smaller, Never
  <1>2. CASE LoopSyncs \/ LoopRefused
    BY <1>2 DEF LoopSyncs, LoopRefused, Takes, RetriesInv, RetriesAreSoon
  <1>3. CASE RequestSyncs
    BY <1>3 DEF RequestSyncs, RetriesInv, RetriesAreSoon
  <1>4. CASE CommandFails
    BY <1>4 DEF CommandFails, RetriesInv, RetriesAreSoon, Smaller
  <1>5. CASE CommandSucceeds
    BY <1>5 DEF CommandSucceeds, RetriesInv, RetriesAreSoon
  <1>6. CASE Return
    BY <1>6 DEF Return, RetriesInv, RetriesAreSoon
  <1>7. CASE ScheduleNextPeriodicSync
    <2>1. PeriodicWait \in Int /\ PeriodicWait <= Interval
      BY DEF RetriesInv, PeriodicWait, Never
    <2>2. QED
      BY <1>7, <2>1 DEF ScheduleNextPeriodicSync, RetriesInv, RetriesAreSoon
  <1>8. CASE ScheduleRetrySync
    <2>1. RetryDelay \in Int /\ RetryDelay <= Smaller(RetryMax, Interval)
      BY RetryIsBounded DEF RetriesInv
    <2>2. QED
      BY <1>8, <2>1 DEF ScheduleRetrySync, RetriesInv, RetriesAreSoon
  <1>9. CASE UNCHANGED syncVars
    BY <1>9 DEF syncVars, RetriesInv, RetriesAreSoon
  <1>10. QED
    BY <1>1, <1>2, <1>3, <1>4, <1>5, <1>6, <1>7, <1>8, <1>9 DEF NextSyncManager

\* RetriesAreSoon of every behaviour: the syncs of administrators that fail or
\* succeed between two attempts of the loop never put its next one further off.
THEOREM RetriesComeSoon == SyncManagerSpec => []RetriesAreSoon
  <1>1. InitSyncManager => RetriesInv
    <2> SUFFICES ASSUME InitSyncManager PROVE RetriesInv
      OBVIOUS
    <2>1. /\ since \in {Never} \cup 0..Interval /\ wait = PeriodicWait /\ streak = 0
          /\ retrying = FALSE /\ Interval \in Nat
      BY SyncManagerAssumption DEF InitSyncManager
    <2>2. wait \in Int /\ wait <= Interval
      BY <2>1 DEF PeriodicWait, Never
    <2>3. QED
      BY <2>1, <2>2 DEF RetriesInv, RetriesAreSoon
  <1>2. RetriesInv => RetriesAreSoon
    BY DEF RetriesInv
  <1>3. QED
    BY <1>1, <1>2, RetriesStep, PTL DEF SyncManagerSpec

----------------------------------------------------------------------------
(* The API tokens.                                                         *)

\* Where a caller may go.
LEMMA CallerStates ==
  /\ Idle \in Caller /\ Idle.snap = {} /\ Idle.pc = "idle"
  /\ [Idle EXCEPT !.pc = "refresh"] \in Caller /\ [Idle EXCEPT !.pc = "refresh"].pc = "refresh"
  /\ [Idle EXCEPT !.pc = "refresh"].snap = {}
  BY DEF Idle, Caller

\* A caller that goes on to its refresh keeps what it holds, and a refresh reads no more than
\* the active tokens.
LEMMA CallerRefreshes ==
  ASSUME NEW w \in Caller
  PROVE  /\ [w EXCEPT !.pc = "refresh"] \in Caller
         /\ [w EXCEPT !.pc = "refresh"].snap = w.snap
         /\ [w EXCEPT !.pc = "refresh"].pc = "refresh"
         /\ [w EXCEPT !.pc = "install", !.snap = ActiveAPITokens] \in Caller
         /\ [w EXCEPT !.pc = "install", !.snap = ActiveAPITokens].snap = ActiveAPITokens
         /\ [w EXCEPT !.pc = "install", !.snap = ActiveAPITokens].pc = "install"
         /\ w.token \subseteq Tokens /\ w.snap \subseteq Tokens
  BY DEF Caller, ActiveAPITokens

\* The type invariant, and what becomes of a withdrawn token: the two hold of the same steps.
LEMMA TokensStep ==
  ASSUME APITokensTypeOK, [NextAPITokens]_tokenVars
  PROVE  APITokensTypeOK' /\ \A t \in Tokens : Withdrawn(t) => Withdrawn(t)'
  <1>0. /\ Admins \subseteq Callers /\ Ticker \in Callers
        /\ caller \in [Callers -> Caller]
        /\ \A c \in Callers : caller[c] \in Caller
    BY DEF Callers, APITokensTypeOK
  <1>a. MaxTokenFaults \in Nat
    BY APITokensAssumption
  <1>1. ASSUME NEW c \in Admins, NEW t \in Tokens, CreateAPIToken(c, t)
        PROVE  APITokensTypeOK' /\ \A u \in Tokens : Withdrawn(u) => Withdrawn(u)'
    <2> DEFINE to == [pc |-> "put", token |-> {t}, snap |-> {}]
    <2>0. /\ Goes(c, "idle", to)
          /\ to \in Caller
      BY <1>1, <1>0, CallerStates, CallerRefreshes DEF CreateAPIToken, Caller
    <2> HIDE DEF to
    <2>1. /\ caller' \in [Callers -> Caller]
          /\ caller'[c] = to
          /\ \A d \in Callers \ {c} : caller'[d] = caller[d]
      BY <2>0, <1>0, CallerRefreshes DEF Goes
    <2> QED BY <1>1, <2>1 DEF to, CreateAPIToken, APITokensTypeOK, Withdrawn
  <1>2. ASSUME NEW c \in Admins, NEW t \in Tokens, RevokeAPIToken(c, t)
        PROVE  APITokensTypeOK' /\ \A u \in Tokens : Withdrawn(u) => Withdrawn(u)'
    <2> DEFINE to == [pc |-> "evict", token |-> {t}, snap |-> {}]
    <2>0. /\ Goes(c, "idle", to)
          /\ to \in Caller
      BY <1>2, <1>0, CallerStates, CallerRefreshes DEF RevokeAPIToken, Caller
    <2> HIDE DEF to
    <2>1. /\ caller' \in [Callers -> Caller]
          /\ caller'[c] = to
          /\ \A d \in Callers \ {c} : caller'[d] = caller[d]
      BY <2>0, <1>0, CallerRefreshes DEF Goes
    <2> QED BY <1>2, <2>1 DEF to, RevokeAPIToken, APITokensTypeOK, Withdrawn
  <1>3. ASSUME NEW c \in Admins, Put(c)
        PROVE  APITokensTypeOK' /\ \A u \in Tokens : Withdrawn(u) => Withdrawn(u)'
    <2>0. /\ Goes(c, "put", [caller[c] EXCEPT !.pc = "refresh"])
          /\ [caller[c] EXCEPT !.pc = "refresh"] \in Caller
      BY <1>3, <1>0, CallerStates, CallerRefreshes DEF Put
    <2>1. /\ caller' \in [Callers -> Caller] /\ caller[c].pc = "put" /\ caller[c] \in Caller
          /\ caller'[c] = [caller[c] EXCEPT !.pc = "refresh"]
          /\ \A d \in Callers \ {c} : caller'[d] = caller[d]
      BY <2>0, <1>0, CallerRefreshes DEF Goes
    <2>2. caller[c].token \subseteq Tokens /\ caller'[c].snap = caller[c].snap /\ caller'[c].pc = "refresh"
      BY <2>1 DEF Caller
    <2> QED BY <1>0, <1>3, <2>1, <2>2 DEF Put, APITokensTypeOK, Withdrawn
  <1>4. ASSUME NEW c \in Admins, Evict(c)
        PROVE  APITokensTypeOK' /\ \A u \in Tokens : Withdrawn(u) => Withdrawn(u)'
    <2>0. /\ Goes(c, "evict", [caller[c] EXCEPT !.pc = "refresh"])
          /\ [caller[c] EXCEPT !.pc = "refresh"] \in Caller
      BY <1>4, <1>0, CallerStates, CallerRefreshes DEF Evict
    <2>1. /\ caller' \in [Callers -> Caller] /\ caller[c] \in Caller
          /\ caller'[c] = [caller[c] EXCEPT !.pc = "refresh"]
          /\ \A d \in Callers \ {c} : caller'[d] = caller[d]
      BY <2>0, <1>0, CallerRefreshes DEF Goes
    <2>2. caller'[c].snap = caller[c].snap /\ caller'[c].pc = "refresh"
      BY <2>1 DEF Caller
    <2> QED BY <1>0, <1>4, <2>1, <2>2 DEF Evict, APITokensTypeOK, Withdrawn
  <1>5. ASSUME NEW c \in Callers, RefreshStep(c)
        PROVE  APITokensTypeOK' /\ \A u \in Tokens : Withdrawn(u) => Withdrawn(u)'
    <2>1. CASE RefreshReads(c)
      <3>0. /\ Goes(c, "refresh", [caller[c] EXCEPT !.pc = "install", !.snap = ActiveAPITokens])
            /\ [caller[c] EXCEPT !.pc = "install", !.snap = ActiveAPITokens] \in Caller
        BY <2>1, <1>0, CallerStates, CallerRefreshes DEF RefreshReads
      <3>1. /\ caller' \in [Callers -> Caller]
            /\ caller'[c].pc = "install" /\ caller'[c].snap = ActiveAPITokens
            /\ \A d \in Callers \ {c} : caller'[d] = caller[d]
        BY <3>0, <1>0, CallerRefreshes DEF Goes
      <3> QED BY <2>1, <3>1 DEF RefreshReads, APITokensTypeOK, Withdrawn, ActiveAPITokens
    <2>2. CASE RefreshFails(c)
      <3>0. /\ Goes(c, "refresh", Idle)
            /\ Idle \in Caller
        BY <2>2, <1>0, CallerStates, CallerRefreshes DEF RefreshFails
      <3>1. /\ caller' \in [Callers -> Caller] /\ caller'[c] = Idle
            /\ \A d \in Callers \ {c} : caller'[d] = caller[d]
        BY <3>0, <1>0, CallerRefreshes DEF Goes
      <3>2. tfaults' \in 0..MaxTokenFaults
        BY <2>2, <1>a DEF RefreshFails, APITokensTypeOK
      <3> QED BY <2>2, <3>1, <3>2, CallerStates DEF RefreshFails, APITokensTypeOK, Withdrawn
    <2>3. CASE Install(c)
      <3>0. /\ Goes(c, "install", Idle)
            /\ Idle \in Caller
        BY <2>3, <1>0, CallerStates, CallerRefreshes DEF Install
      <3>1. /\ caller' \in [Callers -> Caller] /\ caller'[c] = Idle
            /\ \A d \in Callers \ {c} : caller'[d] = caller[d]
            /\ caller[c].snap \subseteq Tokens
        BY <3>0, <1>0, CallerRefreshes DEF Goes
      <3> QED BY <2>3, <3>1, CallerStates DEF Install, APITokensTypeOK, Withdrawn
    <2> QED BY <1>5, <2>1, <2>2, <2>3 DEF RefreshStep
  <1>6. CASE Tick
    <2> DEFINE to == [pc |-> "refresh", token |-> {}, snap |-> {}]
    <2>0. /\ Goes(Ticker, "idle", to)
          /\ to \in Caller
      BY <1>6, <1>0, CallerStates, CallerRefreshes DEF Tick, Caller
    <2> HIDE DEF to
    <2>1. /\ caller' \in [Callers -> Caller]
          /\ caller'[Ticker] = to
          /\ \A d \in Callers \ {Ticker} : caller'[d] = caller[d]
      BY <2>0, <1>0, CallerRefreshes DEF Goes
    <2> QED BY <1>6, <2>1 DEF to, Tick, APITokensTypeOK, Withdrawn
  <1>7. ASSUME NEW t \in Tokens, Lookup(t) \/ MarkUsed(t) \/ Lapse(t)
        PROVE  APITokensTypeOK' /\ \A u \in Tokens : Withdrawn(u) => Withdrawn(u)'
    BY <1>7 DEF Lookup, MarkUsed, Lapse, APITokensTypeOK, Withdrawn
  <1>8. CASE RestartAPITokens
    <2>1. /\ caller' \in [Callers -> Caller]
          /\ \A c \in Callers : caller'[c].snap = {} /\ caller'[c].pc # "put"
      BY <1>8, CallerStates DEF RestartAPITokens
    <2>2. tfaults' \in 0..MaxTokenFaults
      BY <1>8, <1>a DEF RestartAPITokens, APITokensTypeOK
    <2> QED BY <1>8, <2>1, <2>2 DEF RestartAPITokens, APITokensTypeOK, Withdrawn
  <1>9. CASE UNCHANGED tokenVars
    BY <1>9 DEF tokenVars, APITokensTypeOK, Withdrawn
  <1> QED
    BY <1>1, <1>2, <1>3, <1>4, <1>5, <1>6, <1>7, <1>8, <1>9 DEF NextAPITokens

\* A revoked token that no request, no refresh and no cache holds any more is refused from
\* then on, whatever the administrators, the ticker, the database and restarts do.
THEOREM RevokedTokensStayOut == APITokensSpec => RevokedStaysOut
  <1>1. InitAPITokens => APITokensTypeOK
    BY CallerStates, APITokensAssumption DEF InitAPITokens, APITokensTypeOK
  <1>2. APITokensTypeOK /\ [NextAPITokens]_tokenVars => APITokensTypeOK'
    BY TokensStep
  <1>3. APITokensTypeOK /\ [NextAPITokens]_tokenVars
          => [\A t \in Tokens : Withdrawn(t) => Withdrawn(t)']_tokenVars
    BY TokensStep
  <1> QED
    BY <1>1, <1>2, <1>3, PTL DEF APITokensSpec, RevokedStaysOut

----------------------------------------------------------------------------
(* The webhook.                                                            *)

HookPcs == {"new", "post", "report", "release", "done"}
AHook == [pc: HookPcs, attempt: Int, status: {"ok", "failed", "dropped"}]

\* The events whose goroutine is under way.
Running == {h \in Hooks : hook[h].pc \in {"post", "report", "release"}}

\* onResult is told once, the status that is decided when it is; an event
\* called ok has been received.
HooksInv ==
    /\ hook \in [Hooks -> AHook]
    /\ DOMAIN reports = Hooks
    /\ \A h \in Hooks :
          /\ reports[h] = IF hook[h].pc \in {"release", "done"} THEN <<hook[h].status>> ELSE <<>>
          /\ hook[h].pc \in {"report", "release", "done"} /\ hook[h].status = "ok"
                => h \in received
    /\ slots = Cardinality(Running)

\* An event's goroutine goes on: it stays in the count, comes into it, or
\* leaves it.
LEMMA HookMoves ==
  ASSUME HooksInv, NEW h \in Hooks, NEW w \in AHook, hook' = [hook EXCEPT ![h] = w],
         received \subseteq received', DOMAIN reports' = Hooks,
         \A g \in Hooks : g # h => reports'[g] = reports[g],
         reports'[h] = IF w.pc \in {"release", "done"} THEN <<w.status>> ELSE <<>>,
         w.pc \in {"report", "release", "done"} /\ w.status = "ok" => h \in received',
         slots' = IF w.pc \in {"post", "report", "release"}
                  THEN IF h \in Running THEN slots ELSE slots + 1
                  ELSE IF h \in Running THEN slots - 1 ELSE slots
  PROVE  HooksInv'
  <1>1. /\ hook' \in [Hooks -> AHook] /\ hook'[h] = w
        /\ \A g \in Hooks : g # h => hook'[g] = hook[g]
    BY DEF HooksInv
  <1>2. ASSUME NEW g \in Hooks
        PROVE  /\ reports'[g] = IF hook'[g].pc \in {"release", "done"}
                                THEN <<hook'[g].status>> ELSE <<>>
               /\ hook'[g].pc \in {"report", "release", "done"} /\ hook'[g].status = "ok"
                     => g \in received'
    <2>1. CASE g = h
      BY <1>1, <2>1
    <2>2. CASE g # h
      BY <1>1, <2>2 DEF HooksInv
    <2>3. QED
      BY <2>1, <2>2
  <1>3. slots' = Cardinality(Running')
    <2>1. IsFiniteSet(Running) /\ Cardinality(Running) \in Nat
      <3>1. IsFiniteSet(Running)
        BY NotificationsAssumption, FS_Subset DEF Running
      <3>2. QED
        BY <3>1, FS_CardinalityType
    <2>2. CASE w.pc \in {"post", "report", "release"}
      <3>1. Running' = Running \cup {h}
        BY <1>1, <2>2 DEF Running
      <3>2. Cardinality(Running \cup {h}) =
              IF h \in Running THEN Cardinality(Running) ELSE Cardinality(Running) + 1
        BY <2>1, FS_AddElement
      <3>3. QED
        BY <2>2, <3>1, <3>2 DEF HooksInv
    <2>3. CASE w.pc \notin {"post", "report", "release"}
      <3>1. Running' = Running \ {h}
        BY <1>1, <2>3 DEF Running
      <3>2. Cardinality(Running \ {h}) =
              IF h \in Running THEN Cardinality(Running) - 1 ELSE Cardinality(Running)
        BY <2>1, FS_RemoveElement
      <3>3. QED
        BY <2>3, <3>1, <3>2 DEF HooksInv
    <2>4. QED
      BY <2>2, <2>3
  <1>4. QED
    BY <1>1, <1>2, <1>3 DEF HooksInv

\* Every step of an event's goroutine.
LEMMA HooksStepKeeps ==
  ASSUME HooksInv, NEW h \in Hooks, HookStep(h)
  PROVE  HooksInv'
  <1>0. /\ hook \in [Hooks -> AHook] /\ hook[h] \in AHook
        /\ (h \in Running <=> hook[h].pc \in {"post", "report", "release"})
        /\ DOMAIN reports = Hooks
        /\ reports[h] = IF hook[h].pc \in {"release", "done"} THEN <<hook[h].status>> ELSE <<>>
    BY DEF HooksInv, Running
  <1>1. CASE Send(h)
    <2>1. PICK w : w = [hook[h] EXCEPT !.pc = "post", !.attempt = 1]
      OBVIOUS
    <2>2. w \in AHook /\ w.pc = "post" /\ hook' = [hook EXCEPT ![h] = w]
      <3>1. PICK o \in AHook : o = hook[h]
        BY <1>0
      <3>2. w = [o EXCEPT !.pc = "post", !.attempt = 1] /\ 1 \in Int
        BY <2>1, <3>1
      <3>3. w \in AHook /\ w.pc = "post"
        BY <3>2 DEF AHook, HookPcs
      <3>4. hook' = [hook EXCEPT ![h].pc = "post", ![h].attempt = 1]
        BY <1>1 DEF Send
      <3>5. QED
        BY <1>0, <2>1, <3>3, <3>4
    <2>3. /\ h \notin Running /\ slots' = slots + 1 /\ UNCHANGED <<reports, received>>
          /\ reports[h] = <<>>
      BY <1>0, <1>1 DEF Send
    <2>4. QED
      BY <1>0, <2>2, <2>3, HookMoves
  <1>2. CASE SendDropped(h)
    <2>1. PICK w : w = [hook[h] EXCEPT !.pc = "done", !.status = "dropped"]
      OBVIOUS
    <2>2. /\ w \in AHook /\ w.pc = "done" /\ w.status = "dropped"
          /\ hook' = [hook EXCEPT ![h] = w]
          /\ h \notin Running /\ UNCHANGED <<slots, received>>
          /\ reports[h] = <<>>
      BY <1>0, <1>2, <2>1 DEF SendDropped, HookAt, AHook, HookPcs
    <2>3. reports' = [reports EXCEPT ![h] = <<"dropped">>]
      BY <1>2, <2>2 DEF SendDropped
    <2>4. /\ DOMAIN reports' = Hooks /\ reports'[h] = <<"dropped">>
          /\ \A g \in Hooks : g # h => reports'[g] = reports[g]
      BY <1>0, <2>3
    <2>5. QED
      BY <2>2, <2>4, HookMoves
  <1>3. CASE PostAccepted(h) \/ PostRefused(h)
    <2>1. PICK st \in {"ok", "failed"} :
             /\ HookAt(h, "report", st) /\ hook[h].pc = "post"
             /\ received \subseteq received' /\ (st = "ok" => h \in received')
             /\ UNCHANGED <<slots, reports>>
      BY <1>3 DEF PostAccepted, PostRefused
    <2>2. PICK w : w = [hook[h] EXCEPT !.pc = "report", !.status = st]
      OBVIOUS
    <2>3. /\ w \in AHook /\ w.pc = "report" /\ w.status = st
          /\ hook' = [hook EXCEPT ![h] = w] /\ h \in Running /\ reports[h] = <<>>
      BY <1>0, <2>1, <2>2 DEF HookAt, AHook, HookPcs
    <2>4. QED
      BY <1>0, <2>1, <2>3, HookMoves
  <1>4. CASE PostUnanswered(h)
    <2>1. /\ hook[h].pc = "post" /\ received \subseteq received' /\ UNCHANGED <<slots, reports>>
          /\ h \in Running /\ reports[h] = <<>>
      BY <1>0, <1>4 DEF PostUnanswered
    <2>2. CASE hook[h].attempt < MaxAttempts
      <3>1. PICK w : w = [hook[h] EXCEPT !.attempt = @ + 1]
        OBVIOUS
      <3>2. /\ w \in AHook /\ w.pc = "post" /\ hook' = [hook EXCEPT ![h] = w]
        BY <1>0, <1>4, <2>1, <2>2, <3>1 DEF PostUnanswered, AHook, HookPcs
      <3>3. QED
        BY <1>0, <2>1, <3>2, HookMoves
    <2>3. CASE ~(hook[h].attempt < MaxAttempts)
      <3>1. PICK w : w = [hook[h] EXCEPT !.pc = "report", !.status = "failed"]
        OBVIOUS
      <3>2. /\ w \in AHook /\ w.pc = "report" /\ w.status = "failed"
            /\ hook' = [hook EXCEPT ![h] = w]
        BY <1>0, <1>4, <2>3, <3>1 DEF PostUnanswered, HookAt, AHook, HookPcs
      <3>3. QED
        BY <1>0, <2>1, <3>2, HookMoves
    <2>4. QED
      BY <2>2, <2>3
  <1>5. CASE Report(h)
    <2>1. PICK st : st = hook[h].status
      OBVIOUS
    <2>2. PICK w : w = [hook[h] EXCEPT !.pc = "release", !.status = st]
      OBVIOUS
    <2>3. /\ w \in AHook /\ w.pc = "release" /\ w.status = st
          /\ hook' = [hook EXCEPT ![h] = w] /\ hook[h].pc = "report"
          /\ h \in Running /\ reports[h] = <<>> /\ UNCHANGED <<slots, received>>
      BY <1>0, <1>5, <2>1, <2>2 DEF Report, HookAt, AHook, HookPcs
    <2>4. reports' = [reports EXCEPT ![h] = <<st>>]
      BY <1>5, <2>1, <2>3 DEF Report
    <2>5. /\ DOMAIN reports' = Hooks /\ reports'[h] = <<st>>
          /\ \A g \in Hooks : g # h => reports'[g] = reports[g]
      BY <1>0, <2>4
    <2>6. st = "ok" => h \in received
      BY <2>1, <2>3 DEF HooksInv
    <2>7. QED
      BY <2>3, <2>5, <2>6, HookMoves
  <1>6. CASE Release(h)
    <2>1. PICK st : st = hook[h].status
      OBVIOUS
    <2>2. PICK w : w = [hook[h] EXCEPT !.pc = "done", !.status = st]
      OBVIOUS
    <2>3. /\ w \in AHook /\ w.pc = "done" /\ w.status = st
          /\ hook' = [hook EXCEPT ![h] = w] /\ hook[h].pc = "release"
          /\ h \in Running /\ reports[h] = <<st>> /\ slots' = slots - 1
          /\ UNCHANGED <<reports, received>>
      BY <1>0, <1>6, <2>1, <2>2 DEF Release, HookAt, AHook, HookPcs
    <2>4. st = "ok" => h \in received
      BY <2>1, <2>3 DEF HooksInv
    <2>5. QED
      BY <1>0, <2>3, <2>4, HookMoves
  <1>7. QED
    BY <1>1, <1>2, <1>3, <1>4, <1>5, <1>6 DEF HookStep

----------------------------------------------------------------------------
(* The rules.                                                              *)

\* What the goroutine of a report keeps.
IsJob(w) == w = [pc |-> w.pc, event |-> w.event, todo |-> w.todo,
                 attempt |-> w.attempt, status |-> w.status]

\* What is about to be logged as sent, and what is logged so, was received.
NotesInv ==
    /\ DOMAIN job = Jobs
    /\ job = [j \in Jobs |-> job[j]]
    /\ \A j \in Jobs :
          /\ IsJob(job[j])
          /\ job[j].pc = "record" /\ job[j].status = "sent" => <<j, Target(j)>> \in received
    /\ \A n \in notes : n.status = "sent" => <<n.job, n.rule>> \in received

\* A job that goes on, and adds no more to the log than it is entitled to.
LEMMA JobMoves ==
  ASSUME NotesInv, NEW j \in Jobs, NEW w, job' = [job EXCEPT ![j] = w], IsJob(w),
         received \subseteq received',
         w.pc = "record" /\ w.status = "sent" => <<j, Head(w.todo).id>> \in received',
         \A n \in notes' \ notes : n.status = "sent" => <<n.job, n.rule>> \in received'
  PROVE  NotesInv'
  <1>1. /\ DOMAIN job' = Jobs /\ job' = [i \in Jobs |-> job'[i]] /\ job'[j] = w
        /\ \A i \in Jobs : i # j => job'[i] = job[i]
    BY DEF NotesInv
  <1>2. ASSUME NEW i \in Jobs
        PROVE  /\ IsJob(job'[i])
               /\ job'[i].pc = "record" /\ job'[i].status = "sent"
                     => <<i, Head(job'[i].todo).id>> \in received'
    <2>1. CASE i = j
      BY <1>1, <2>1
    <2>2. CASE i # j
      BY <1>1, <2>2 DEF NotesInv, Target, Rest
    <2>3. QED
      BY <2>1, <2>2
  <1>3. \A n \in notes' : n.status = "sent" => <<n.job, n.rule>> \in received'
    BY DEF NotesInv
  <1>4. QED
    BY <1>1, <1>2, <1>3 DEF NotesInv, Target, Rest

\* Every step of a report's goroutine.
LEMMA JobStepKeeps ==
  ASSUME NotesInv, NEW j \in Jobs, StartJob(j) \/ DeadlinePasses(j) \/ JobStep(j)
  PROVE  NotesInv'
  <1> DEFINE o == job[j]
  <1>0. IsJob(o) /\ (o.pc = "record" /\ o.status = "sent" => <<j, Head(o.todo).id>> \in received)
    BY DEF NotesInv, Target, Rest
  <1> HIDE DEF o
  \* The events of a job that come next, when no rules of this one are left.
  <1>e. ASSUME EventDone(j), UNCHANGED received,
               \A n \in notes' \ notes : n.status = "sent" => <<n.job, n.rule>> \in received
        PROVE  NotesInv'
    <2>1. PICK w : w = IF o.event = "scan.completed"
                       THEN [o EXCEPT !.pc = "fetch", !.event = "scan.failed", !.todo = <<>>]
                       ELSE [o EXCEPT !.pc = "done", !.todo = <<>>]
      OBVIOUS
    <2>2. IsJob(w) /\ w.pc # "record"
      BY <1>0, <2>1 DEF IsJob
    <2>3. job' = [job EXCEPT ![j] = w]
      BY <1>e, <2>1 DEF EventDone, PutJob, o
    <2>4. QED
      BY <1>e, <2>2, <2>3, JobMoves
  <1>1. CASE StartJob(j)
    <2>1. PICK w : w = [NoRulesJob EXCEPT !.pc = "fetch"]
      OBVIOUS
    <2>2. IsJob(w) /\ w.pc = "fetch"
      BY <2>1 DEF IsJob, NoRulesJob
    <2>3. job' = [job EXCEPT ![j] = w] /\ UNCHANGED <<notes, received>>
      BY <1>1, <2>1 DEF StartJob, PutJob
    <2>4. QED
      BY <2>2, <2>3, JobMoves
  <1>2. CASE DeadlinePasses(j)
    BY <1>2 DEF DeadlinePasses, NotesInv, Target, Rest
  <1>3. CASE FetchRules(j)
    <2>1. UNCHANGED <<notes, received>>
      BY <1>3 DEF FetchRules
    <2>2. CASE j \in expired \/ Due(job[j].event) = {}
      BY <1>3, <1>e, <2>1, <2>2 DEF FetchRules
    <2>3. CASE ~(j \in expired \/ Due(job[j].event) = {})
      <3>1. PICK todo : PutJob(j, [job[j] EXCEPT !.pc = "next", !.todo = todo])
        BY <1>3, <2>3 DEF FetchRules
      <3>2. PICK w : w = [o EXCEPT !.pc = "next", !.todo = todo]
        OBVIOUS
      <3>3. IsJob(w) /\ w.pc = "next"
        BY <1>0, <3>2 DEF IsJob
      <3>4. job' = [job EXCEPT ![j] = w]
        BY <3>1, <3>2 DEF PutJob, o
      <3>5. QED
        BY <2>1, <3>3, <3>4, JobMoves
    <2>4. QED
      BY <2>2, <2>3
  <1>4. CASE Dispatch(j)
    <2>1. PICK w : w = IF Channel(j) = "log"
                       THEN [o EXCEPT !.pc = "record", !.status = "sent"]
                       ELSE [o EXCEPT !.pc = "attempt", !.attempt = 1]
      OBVIOUS
    <2>2. IsJob(w) /\ w.todo = o.todo /\ (Channel(j) # "log" => w.pc = "attempt")
      BY <1>0, <2>1 DEF IsJob
    <2>3. /\ job' = [job EXCEPT ![j] = w] /\ notes' = notes
          /\ received' = IF Channel(j) = "log" THEN received \cup {<<j, Head(o.todo).id>>}
                         ELSE received
      BY <1>4, <2>1 DEF Dispatch, PutJob, Finish, Target, Rest, o
    <2>4. QED
      BY <2>2, <2>3, JobMoves
  <1>5. CASE Delivered(j)
    <2>1. PICK w : w = [o EXCEPT !.pc = "record", !.status = "sent"]
      OBVIOUS
    <2>2. IsJob(w) /\ w.todo = o.todo
      BY <1>0, <2>1 DEF IsJob
    <2>3. /\ job' = [job EXCEPT ![j] = w] /\ notes' = notes
          /\ received' = received \cup {<<j, Head(o.todo).id>>}
      BY <1>5, <2>1 DEF Delivered, PutJob, Finish, Target, Rest, o
    <2>4. QED
      BY <2>2, <2>3, JobMoves
  <1>6. CASE NotDelivered(j) \/ Refused(j)
    <2>1. \E w : /\ (w = [o EXCEPT !.attempt = o.attempt + 1] /\ o.pc = "attempt")
                   \/ w = [o EXCEPT !.pc = "record", !.status = "failed"]
                 /\ job' = [job EXCEPT ![j] = w]
      BY <1>6 DEF NotDelivered, Refused, PutJob, Finish, o
    <2>2. PICK w : /\ \/ (w = [o EXCEPT !.attempt = o.attempt + 1] /\ o.pc = "attempt")
                      \/ w = [o EXCEPT !.pc = "record", !.status = "failed"]
                   /\ job' = [job EXCEPT ![j] = w]
      BY <2>1
    <2>3. IsJob(w) /\ (w.pc = "attempt" \/ w.status = "failed")
      BY <1>0, <2>2 DEF IsJob
    <2>4. UNCHANGED <<notes, received>>
      BY <1>6 DEF NotDelivered, Refused
    <2>5. QED
      BY <2>2, <2>3, <2>4, JobMoves
  <1>7. CASE RecordNotificationLog(j)
    <2>1. received' = received
      BY <1>7 DEF RecordNotificationLog
    <2>2. PICK n : n = [job |-> j, rule |-> Head(o.todo).id, status |-> o.status]
      OBVIOUS
    <2>3. o.pc = "record" /\ notes' \ notes \subseteq {n}
      BY <1>7, <2>2 DEF RecordNotificationLog, Target, Rest, o
    <2>4. n.status = "sent" => <<n.job, n.rule>> \in received
      BY <1>0, <2>2, <2>3
    <2>5. CASE EventDone(j)
      BY <1>e, <2>1, <2>3, <2>4, <2>5
    <2>6. CASE ~EventDone(j)
      <3>1. PICK w : w = [o EXCEPT !.pc = "next", !.todo = Tail(o.todo)]
        OBVIOUS
      <3>2. IsJob(w) /\ w.pc = "next"
        BY <1>0, <3>1 DEF IsJob
      <3>3. job' = [job EXCEPT ![j] = w]
        BY <1>7, <2>6, <3>1 DEF RecordNotificationLog, PutJob, o
      <3>4. QED
        BY <2>1, <2>3, <2>4, <3>2, <3>3, JobMoves
    <2>7. QED
      BY <2>5, <2>6
  <1>8. QED
    BY <1>1, <1>2, <1>3, <1>4, <1>5, <1>6, <1>7 DEF JobStep

\* Every step of the notifiers.
LEMMA NotificationsStep ==
  HooksInv /\ NotesInv /\ [NextNotifications]_notifyVars => HooksInv' /\ NotesInv'
  <1> SUFFICES ASSUME HooksInv, NotesInv, [NextNotifications]_notifyVars
               PROVE  HooksInv' /\ NotesInv'
    OBVIOUS
  <1>1. ASSUME NEW h \in Hooks, HookStep(h) PROVE HooksInv' /\ NotesInv'
    <2>1. UNCHANGED ruleVars /\ received \subseteq received'
      BY <1>1 DEF HookStep, Send, SendDropped, PostAccepted, PostUnanswered, PostRefused,
                  Report, Release
    <2>2. NotesInv'
      BY <2>1 DEF ruleVars, NotesInv, Target, Rest
    <2>3. QED
      BY <1>1, <2>2, HooksStepKeeps
  <1>2. ASSUME NEW j \in Jobs, StartJob(j) \/ DeadlinePasses(j) \/ JobStep(j)
        PROVE  HooksInv' /\ NotesInv'
    <2>1. UNCHANGED hookVars /\ received \subseteq received'
      BY <1>2 DEF JobStep, StartJob, DeadlinePasses, FetchRules, Dispatch, Delivered,
                  NotDelivered, Refused, RecordNotificationLog
    <2>2. HooksInv'
      BY <2>1 DEF hookVars, HooksInv, Running
    <2>3. QED
      BY <1>2, <2>2, JobStepKeeps
  <1>3. CASE EditRules
    <2>1. UNCHANGED <<hookVars, job, received>> /\ notes' \subseteq notes
      BY <1>3 DEF EditRules, CreateRule, ReadRule, UpdateRule, DeleteRule
    <2>2. HooksInv'
      BY <2>1 DEF hookVars, HooksInv, Running
    <2>3. NotesInv'
      BY <2>1 DEF NotesInv, Target, Rest
    <2>4. QED
      BY <2>2, <2>3
  <1>4. CASE UNCHANGED notifyVars
    BY <1>4 DEF notifyVars, hookVars, ruleVars, HooksInv, Running, NotesInv, Target, Rest
  <1>5. QED
    BY <1>1, <1>2, <1>3, <1>4 DEF NextNotifications

\* Nothing has been sent at first.
LEMMA NotificationsInit == InitNotifications => HooksInv /\ NotesInv
  <1> SUFFICES ASSUME InitNotifications PROVE HooksInv /\ NotesInv
    OBVIOUS
  <1>1. HooksInv
    <2>1. Running = {} /\ slots = 0
      BY DEF InitNotifications, Running
    <2>2. Cardinality({}) = 0
      BY FS_EmptySet
    <2>3. QED
      BY <2>1, <2>2 DEF InitNotifications, HooksInv, AHook, HookPcs
  <1>2. NotesInv
    BY DEF InitNotifications, NotesInv, NoRulesJob, IsJob
  <1>3. QED
    BY <1>1, <1>2

\* SentMeansReceived of every behaviour: whatever receivers do not answer, and
\* whichever rules are edited and deadlines pass while messages are under way,
\* each event is reported once and nothing is called sent that did not arrive.
THEOREM SentIsReceived == NotificationsSpec => []SentMeansReceived
  <1>1. NotificationsSpec => InitNotifications /\ [][NextNotifications]_notifyVars
    BY PTL DEF NotificationsSpec
  <1>2. HooksInv /\ NotesInv => SentMeansReceived
    <2> SUFFICES ASSUME HooksInv, NotesInv PROVE SentMeansReceived
      OBVIOUS
    <2>1. ASSUME NEW h \in Hooks
          PROVE  /\ Len(reports[h]) = IF hook[h].pc \in {"release", "done"} THEN 1 ELSE 0
                 /\ reports[h] = <<"ok">> => h \in received
      <3>1. CASE hook[h].pc \in {"release", "done"}
        <4>1. PICK st : st = hook[h].status
          OBVIOUS
        <4>2. reports[h] = <<st>> /\ (st = "ok" => h \in received)
          BY <3>1, <4>1 DEF HooksInv
        <4>3. QED
          BY <3>1, <4>2
      <3>2. CASE hook[h].pc \notin {"release", "done"}
        BY <3>2 DEF HooksInv
      <3>3. QED
        BY <3>1, <3>2
    <2>2. QED
      BY <2>1 DEF HooksInv, NotesInv, Running, SentMeansReceived
  <1>3. QED
    BY <1>1, <1>2, NotificationsInit, NotificationsStep, PTL
==============================================================================

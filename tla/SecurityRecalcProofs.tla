------------------------ MODULE SecurityRecalcProofs ------------------------
(***************************************************************************)
(* Proofs about SecurityRecalc, for any number of writers and goroutines   *)
(* and any budget of faults: the passes are serialised, a pass audited as  *)
(* ok is complete, no request for a recalculation is lost, and the whole   *)
(* implements module Recalculation.                                        *)
(***************************************************************************)
EXTENDS SecurityRecalc, TLAPS

\* What the tuple of step names amounts to.
LEMMA StepFacts ==
    /\ Len(PassSteps) = 4 /\ AfterSteps = 5 /\ Deciding = 6
    /\ PassSteps[1] = "revision" /\ PassSteps[2] = "scores"
    /\ PassSteps[3] = "findings" /\ PassSteps[4] = "summaries"
    /\ StepNames = {"revision", "scores", "findings", "summaries"}
<1>1. Len(PassSteps) = 4
  BY DEF PassSteps
<1>2. /\ PassSteps[1] = "revision" /\ PassSteps[2] = "scores"
      /\ PassSteps[3] = "findings" /\ PassSteps[4] = "summaries"
  BY DEF PassSteps
<1>3. 1..4 = {1, 2, 3, 4}
  OBVIOUS
<1>4. StepNames = {"revision", "scores", "findings", "summaries"}
  BY <1>1, <1>2, <1>3 DEF StepNames
<1> QED
  BY <1>1, <1>2, <1>4 DEF AfterSteps, Deciding

----------------------------------------------------------------------------
(* Type correctness.                                                       *)

\* The database and its writers.
WriterType ==
    /\ cveRev \in Revisions
    /\ writer \in [Writers -> {"idle", "bundle", "sync", "notify"}]
    /\ requested \in Revisions
    /\ left \in Nat

\* The worker, its flags and its results.
PassType ==
    /\ running \in BOOLEAN /\ pending \in BOOLEAN
    /\ worker \in [Goroutines -> Worker]
    /\ applied \in [StepNames -> Revisions]
    /\ outcome \in {"none", "ok", "error"}

\* The rescans.
RescanType ==
    /\ rescan \in [Goroutines -> Rescan]
    /\ stamp \in Revisions \cup {NoRescan}

\* The three parts make up TypeOK.
LEMMA TypeParts == TypeOK <=> WriterType /\ PassType /\ RescanType
  BY DEF TypeOK, WriterType, PassType, RescanType

\* A fault leaves a count of those left.
LEMMA FaultType ==
    ASSUME NEW kind, left \in Nat, Fault(kind)
    PROVE  left' \in Nat
  BY DEF Fault

\* The records a goroutine starts from are well typed.
LEMMA StartTypes == NoPass \in Worker /\ NewPass \in Worker /\ NoJob \in Rescan
<1>1. 0 \in Revisions
  BY SecurityRecalcAssumption DEF Revisions
<1> QED
  BY <1>1, StepFacts DEF NoPass, NewPass, NoJob, Worker, Rescan

\* The initial state is well typed.
LEMMA TypeInit == Init => TypeOK
<1>1. 0 \in Revisions
  BY SecurityRecalcAssumption DEF Revisions
<1> QED
  BY <1>1, StartTypes, SecurityRecalcAssumption DEF Init, TypeOK

\* A writer's steps, its notification included, keep the writers' types.
LEMMA WriterKeepsType ==
    ASSUME TypeOK, NEW w \in Writers, WriterStep(w) \/ ImportDeferred
    PROVE  WriterType'
<1> USE DEF WriterType, Becomes
<1>1. ChangeCVEs => cveRev' \in Revisions
  BY SecurityRecalcAssumption DEF TypeOK, ChangeCVEs, Revisions
<1>2. CASE HandleCveDbImport(w) \/ ApplySecurityDBBundle(w) \/ ImportDeferred
  BY <1>1, <1>2 DEF TypeOK, HandleCveDbImport, ApplySecurityDBBundle, ImportDeferred
<1>3. CASE HandleTrivyDBUpload(w) \/ BundleTrivyLoaded(w) \/ UpdateNowWithReason(w)
             \/ SyncSucceeds(w)
  BY <1>3 DEF TypeOK, HandleTrivyDBUpload, BundleTrivyLoaded, UpdateNowWithReason, SyncSucceeds
<1>4. CASE BundleTrivyFails(w) \/ SyncFails(w)
  <2>1. left' \in Nat
    BY <1>4, FaultType DEF TypeOK, BundleTrivyFails, SyncFails
  <2> QED
    BY <1>4, <2>1 DEF TypeOK, BundleTrivyFails, SyncFails
<1>5. CASE SecurityDatabaseUpdated(w)
  BY <1>5 DEF TypeOK, SecurityDatabaseUpdated, Recalculate
<1> QED
  BY <1>2, <1>3, <1>4, <1>5 DEF WriterStep

\* The writers' steps before the notification, and those on the rescans,
\* leave the worker alone.
Elsewhere ==
    /\ cveRev' >= cveRev
    /\ UNCHANGED <<lockVars, passVars, requested>>

\* Every step of a writer but its notification is elsewhere.
LEMMA WriterElsewhere ==
    ASSUME TypeOK, NEW w \in Writers, WriterStep(w), ~SecurityDatabaseUpdated(w)
    PROVE  Elsewhere /\ UNCHANGED rescanVars
<1>1. cveRev \in Int /\ (ChangeCVEs => cveRev' >= cveRev)
  BY SecurityRecalcAssumption DEF TypeOK, ChangeCVEs, Revisions
<1> QED
  BY <1>1 DEF WriterStep, HandleCveDbImport, HandleTrivyDBUpload, ApplySecurityDBBundle,
        BundleTrivyLoaded, BundleTrivyFails, UpdateNowWithReason, SyncSucceeds, SyncFails, Elsewhere

\* So is a deferred import.
LEMMA DeferredElsewhere ==
    ASSUME TypeOK, ImportDeferred
    PROVE  Elsewhere /\ UNCHANGED rescanVars
  BY SecurityRecalcAssumption DEF TypeOK, ImportDeferred, ChangeCVEs, Revisions, Elsewhere

\* And every step of a rescan, and its claim.
LEMMA RescanElsewhere ==
    ASSUME TypeOK, (\E q \in Goroutines : RescanStep(q)) \/ ClaimRescan
    PROVE  Elsewhere
  BY SecurityRecalcAssumption DEF TypeOK, RescanStep, RescanReadsRevision,
        QueueSecurityDBRescans, RescanFails, ClaimRescan, Revisions, Elsewhere

\* The steps of the rescans keep the types.
LEMMA RescanKeepsType ==
    ASSUME TypeOK, NEW q \in Goroutines, RescanStep(q) \/ ClaimRescan
    PROVE  WriterType' /\ RescanType'
<1> USE DEF WriterType, RescanType
<1>1. CASE RescanReadsRevision(q)
  <2>1. [pc |-> "read", rev |-> cveRev] \in Rescan
    BY DEF TypeOK, Rescan
  <2> QED
    BY <1>1, <2>1 DEF TypeOK, RescanReadsRevision
<1>2. CASE QueueSecurityDBRescans(q)
  <2>1. rescan[q].rev \in Revisions
    BY DEF TypeOK, Rescan
  <2> QED
    BY <1>2, <2>1, StartTypes DEF TypeOK, QueueSecurityDBRescans
<1>3. CASE RescanFails(q)
  <2>1. left' \in Nat
    BY <1>3, FaultType DEF TypeOK, RescanFails
  <2> QED
    BY <1>3, <2>1, StartTypes DEF TypeOK, RescanFails
<1>4. CASE ClaimRescan
  BY <1>4 DEF TypeOK, ClaimRescan
<1> QED
  BY <1>1, <1>2, <1>3, <1>4 DEF RescanStep

\* The critical section of recalculateSecurityFindings keeps the types.
LEMMA RecalculateKeepsType ==
    ASSUME TypeOK, Recalculate, UNCHANGED <<applied, outcome>>
    PROVE  PassType'
  BY StartTypes DEF TypeOK, Recalculate, StartWorker, PassType

\* A goroutine that goes on stays a goroutine until it decides.
LEMMA AdvanceType ==
    ASSUME TypeOK, NEW g \in Goroutines, worker[g].step < Deciding,
           NEW f \in BOOLEAN, NEW r \in Revisions, Advance(g, f, r)
    PROVE  worker' \in [Goroutines -> Worker]
<1>1. worker[g].step + 1 \in 0..Deciding
  BY StepFacts DEF TypeOK, Worker
<1>2. [step |-> worker[g].step + 1, failed |-> f, read |-> r] \in Worker
  BY <1>1 DEF Worker
<1> QED
  BY <1>2 DEF TypeOK, Advance

\* The steps of a pass keep the types.
LEMMA PassKeepsType ==
    ASSUME TypeOK, NEW g \in Goroutines, PassStep(g)
    PROVE  TypeOK'
<1> USE DEF lockVars, rescanVars
<1>w. worker[g].failed \in BOOLEAN /\ worker[g].read \in Revisions /\ cveRev \in Revisions
  BY DEF TypeOK, Worker
<1>1. CASE RunStep(g)
  <2>1. worker[g].step \in 1..4 /\ worker[g].step < Deciding /\ Step(g) \in StepNames
    BY <1>1, StepFacts DEF RunStep, InPass, Step, StepNames
  <2>2. Reflects(Step(g)) \in Revisions
    BY <1>w, StepFacts DEF Reflects, TypeOK
  <2>3. applied' \in [StepNames -> Revisions]
    BY <1>1, <2>1, <2>2 DEF TypeOK, RunStep
  <2>4. worker' \in [Goroutines -> Worker]
    <3> DEFINE r == IF Step(g) = "revision" THEN cveRev ELSE worker[g].read
    <3>1. r \in Revisions
      BY <1>w
    <3>2. Advance(g, worker[g].failed, r)
      BY <1>1 DEF RunStep
    <3> HIDE DEF r
    <3> QED
      BY <1>w, <2>1, <3>1, <3>2, AdvanceType
  <2> QED
    BY <1>1, <2>3, <2>4 DEF TypeOK, RunStep
<1>2. CASE StepFails(g)
  <2>1. left' \in Nat
    BY <1>2, FaultType DEF TypeOK, StepFails
  <2>2. worker[g].step < Deciding
    BY <1>2, StepFacts DEF StepFails, InPass
  <2>3. worker' \in [Goroutines -> Worker]
    BY <1>2, <1>w, <2>2, AdvanceType DEF StepFails
  <2> QED
    BY <1>2, <2>1, <2>3 DEF TypeOK, StepFails
<1>3. CASE FinishPass(g)
  <2>1. worker' \in [Goroutines -> Worker]
    BY <1>3, <1>w, StepFacts, AdvanceType DEF FinishPass
  <2>2. rescan' \in [Goroutines -> Rescan]
    BY <1>3 DEF TypeOK, FinishPass, SpawnRescan, Rescan
  <2> QED
    BY <1>3, <2>1, <2>2 DEF TypeOK, FinishPass
<1>4. CASE StopOrGoOn(g)
  BY <1>4, StartTypes DEF TypeOK, StopOrGoOn
<1> QED
  BY <1>1, <1>2, <1>3, <1>4 DEF PassStep

\* A crash keeps the types.
LEMMA CrashKeepsType ==
    ASSUME TypeOK, ServerCrash
    PROVE  TypeOK'
<1>1. left' \in Nat
  BY FaultType DEF TypeOK, ServerCrash
<1> QED
  BY <1>1, StartTypes DEF TypeOK, ServerCrash

\* Every step keeps the types.
LEMMA TypeStep == TypeOK /\ [Next]_vars => TypeOK'
<1> SUFFICES ASSUME TypeOK, [Next]_vars PROVE TypeOK'
  OBVIOUS
<1> USE DEF WriterType, PassType, RescanType
<1>1. CASE \E w \in Writers : WriterStep(w)
  <2> PICK w \in Writers : WriterStep(w)
    BY <1>1
  <2>1. WriterType'
    BY WriterKeepsType
  <2>2. CASE SecurityDatabaseUpdated(w)
    <3>1. PassType'
      BY <2>2, RecalculateKeepsType DEF SecurityDatabaseUpdated
    <3>2. RescanType'
      BY <2>2 DEF SecurityDatabaseUpdated, TypeOK, rescanVars
    <3> QED
      BY <2>1, <3>1, <3>2 DEF TypeOK
  <2>3. CASE ~SecurityDatabaseUpdated(w)
    BY <2>1, <2>3, WriterElsewhere DEF TypeOK, Elsewhere, lockVars, passVars, rescanVars
  <2> QED
    BY <2>2, <2>3
<1>2. CASE ImportDeferred
  <2>1. cveRev' \in Revisions
    BY <1>2, SecurityRecalcAssumption DEF TypeOK, ImportDeferred, ChangeCVEs, Revisions
  <2> QED
    BY <1>2, <2>1 DEF TypeOK, ImportDeferred, lockVars, passVars, rescanVars
<1>3. CASE HandleSecurityDbRecalculate
  <2>1. PassType'
    BY <1>3, RecalculateKeepsType DEF HandleSecurityDbRecalculate
  <2> QED
    BY <1>3, <2>1 DEF TypeOK, HandleSecurityDbRecalculate, Recalculate, rescanVars
<1>4. CASE \E g \in Goroutines : PassStep(g)
  BY <1>4, PassKeepsType
<1>5. CASE (\E q \in Goroutines : RescanStep(q)) \/ ClaimRescan
  <2>1. WriterType' /\ RescanType'
    BY <1>5, RescanKeepsType, SecurityRecalcAssumption
  <2>2. PassType'
    BY <1>5, RescanElsewhere DEF TypeOK, Elsewhere, lockVars, passVars
  <2> QED
    BY <2>1, <2>2 DEF TypeOK
<1>6. CASE ServerCrash
  BY <1>6, CrashKeepsType
<1>7. CASE UNCHANGED vars
  BY <1>7 DEF TypeOK, vars, lockVars, passVars, rescanVars
<1> QED
  BY <1>1, <1>2, <1>3, <1>4, <1>5, <1>6, <1>7 DEF Next

\* In every reachable state of the recalculation machinery each variable has
\* its type; in particular no pass runs past its last step.
THEOREM TypeCorrect == Spec => []TypeOK
  BY TypeInit, TypeStep, PTL DEF Spec

----------------------------------------------------------------------------
(* The invariant behind the safety properties.                             *)

\* History never runs ahead of the database.
HistoryBounded ==
    /\ requested <= cveRev
    /\ \A g \in Goroutines : worker[g].read <= cveRev

\* A pass without a failure has done the steps behind it from the revision
\* it read or a newer one.
DoneBefore(i, g) == worker[g].step > i => applied[PassSteps[i]] >= worker[g].read

PassProgress ==
    \A g \in Goroutines :
        Active(g) /\ ~worker[g].failed => \A i \in 1..4 : DoneBefore(i, g)

\* Unless one more pass is pending, the running one covers every request.
RequestCovered ==
    ~pending => \A g \in Goroutines :
                   worker[g].step > 1 /\ ~worker[g].failed => worker[g].read >= requested

\* A worker about to decide has had its pass audited.
OutcomeRecorded ==
    \A g \in Goroutines :
        worker[g].step = Deciding => (outcome = "ok" <=> ~worker[g].failed)

PassInv ==
    /\ TypeOK
    /\ OnePassAtATime
    /\ HistoryBounded
    /\ PassProgress
    /\ RequestCovered
    /\ OutcomeRecorded
    /\ NoRequestLost

\* Arithmetic needs to know what is a number.
LEMMA Numbers ==
    ASSUME TypeOK
    PROVE  /\ cveRev \in Int /\ requested \in Int
           /\ \A s \in StepNames : applied[s] \in Int
           /\ \A g \in Goroutines : /\ worker[g].step \in 0..6
                                    /\ worker[g].read \in Int
                                    /\ worker[g].failed \in BOOLEAN
  BY StepFacts, SecurityRecalcAssumption DEF TypeOK, Revisions, Worker

\* The initial state satisfies the invariant.
LEMMA PassInvInit == Init => PassInv
<1> SUFFICES ASSUME Init PROVE PassInv
  OBVIOUS
<1>1. TypeOK
  BY TypeInit
<1>2. \A g \in Goroutines : worker[g].step = 0 /\ worker[g].read = 0
  BY DEF Init, NoPass
<1>3. cveRev = 0 /\ requested = 0 /\ ~running /\ ~pending /\ outcome = "none"
  BY DEF Init
<1> QED
  BY <1>1, <1>2, <1>3, StepFacts DEF PassInv, OnePassAtATime, HistoryBounded, PassProgress,
        RequestCovered, OutcomeRecorded, NoRequestLost, Active

\* Steps elsewhere preserve the invariant.
LEMMA ElsewhereKeeps ==
    ASSUME PassInv, TypeOK', Elsewhere
    PROVE  PassInv'
<1> USE DEF PassInv, Elsewhere, lockVars, passVars
<1>1. OnePassAtATime' /\ PassProgress' /\ RequestCovered' /\ OutcomeRecorded' /\ NoRequestLost'
  BY DEF OnePassAtATime, PassProgress, DoneBefore, RequestCovered, OutcomeRecorded,
         NoRequestLost, Active
<1>2. cveRev' \in Int
  BY SecurityRecalcAssumption DEF TypeOK, Revisions
<1>3. HistoryBounded'
  BY <1>2, Numbers DEF HistoryBounded
<1> QED
  BY <1>1, <1>3

\* A request preserves it: it starts the one worker or leaves word with it.
LEMMA RecalculateKeeps ==
    ASSUME PassInv, TypeOK', Recalculate, UNCHANGED <<cveRev, applied, outcome>>
    PROVE  PassInv'
<1> USE DEF PassInv
<1>1. CASE ~running /\ StartWorker
  <2>1. PICK h \in Goroutines : worker' = [worker EXCEPT ![h] = NewPass]
    BY <1>1 DEF StartWorker
  <2>2. \A g \in Goroutines : worker[g].step = 0
    BY <1>1 DEF OnePassAtATime, Active
  <2>3. \A g \in Goroutines : IF g = h THEN worker'[g] = NewPass ELSE worker'[g] = worker[g]
    BY <2>1 DEF TypeOK
  <2>4. \A g \in Goroutines : worker'[g].step = (IF g = h THEN 1 ELSE 0)
    BY <2>2, <2>3 DEF NewPass
  <2>5. running' /\ ~pending' /\ requested' = cveRev
    BY <1>1 DEF StartWorker, Recalculate, OnePassAtATime
  <2>6. OnePassAtATime'
    BY <2>4, <2>5 DEF OnePassAtATime, Active
  <2>7. HistoryBounded'
    BY <2>3, <2>5, Numbers, SecurityRecalcAssumption DEF HistoryBounded, NewPass, TypeOK, Revisions
  <2>8. PassProgress'
    BY <2>4 DEF PassProgress, DoneBefore, Active
  <2>9. RequestCovered' /\ OutcomeRecorded' /\ NoRequestLost'
    BY <2>4, <2>5, StepFacts DEF RequestCovered, OutcomeRecorded, NoRequestLost
  <2> QED
    BY <2>6, <2>7, <2>8, <2>9
<1>2. CASE running /\ pending' = TRUE /\ UNCHANGED <<running, worker>>
  <2>1. requested' = cveRev
    BY DEF Recalculate
  <2>2. OnePassAtATime' /\ PassProgress' /\ OutcomeRecorded'
    BY <1>2 DEF OnePassAtATime, PassProgress, DoneBefore, OutcomeRecorded, Active
  <2>3. HistoryBounded'
    BY <1>2, <2>1, Numbers DEF HistoryBounded
  <2>4. RequestCovered' /\ NoRequestLost'
    BY <1>2 DEF RequestCovered, NoRequestLost
  <2> QED
    BY <2>2, <2>3, <2>4
<1> QED
  BY <1>1, <1>2 DEF Recalculate

\* A goroutine that goes on stays the only one.
LEMMA AdvanceKeepsOne ==
    ASSUME PassInv, NEW g \in Goroutines, Active(g), worker[g].step < Deciding,
           NEW f \in BOOLEAN, NEW r \in Revisions, Advance(g, f, r),
           UNCHANGED <<running, pending>>
    PROVE  /\ OnePassAtATime'
           /\ running' /\ Active(g)'
           /\ worker'[g] = [step |-> worker[g].step + 1, failed |-> f, read |-> r]
           /\ \A h \in Goroutines : h # g => ~Active(h) /\ worker'[h] = worker[h]
<1>1. worker'[g] = [step |-> worker[g].step + 1, failed |-> f, read |-> r]
  BY DEF PassInv, TypeOK, Advance
<1>2. \A h \in Goroutines : h # g => ~Active(h) /\ worker'[h] = worker[h]
  BY DEF PassInv, TypeOK, Advance, OnePassAtATime
<1>3. Active(g)'
  BY <1>1, Numbers DEF PassInv, Active
<1>4. \A h \in Goroutines : h # g => ~Active(h)'
  BY <1>2 DEF Active
<1> QED
  BY <1>1, <1>2, <1>3, <1>4 DEF PassInv, OnePassAtATime

\* A step of a pass that succeeds preserves the invariant: its result
\* reflects a revision no older than the one the pass has read.
LEMMA RunStepKeeps ==
    ASSUME PassInv, TypeOK', NEW g \in Goroutines, RunStep(g)
    PROVE  PassInv'
<1> USE DEF PassInv
<1> DEFINE k == worker[g].step
           s == PassSteps[k]
           r == IF s = "revision" THEN cveRev ELSE worker[g].read
<1>1. k \in 1..4 /\ k < Deciding /\ Active(g)
  BY StepFacts DEF RunStep, InPass, Active
<1>2. /\ r \in Revisions /\ r \in Int /\ r <= cveRev /\ (k = 1 => r = cveRev)
      /\ (k # 1 => r = worker[g].read) /\ worker[g].failed \in BOOLEAN
  BY <1>1, StepFacts, SecurityRecalcAssumption DEF TypeOK, Worker, Revisions, HistoryBounded
<1>3. Advance(g, worker[g].failed, r) /\ UNCHANGED <<cveRev, running, pending, outcome, requested>>
  BY DEF RunStep, Step, lockVars
<1>4. applied' = [applied EXCEPT ![s] = Reflects(s)]
  BY DEF RunStep, Step
<1> HIDE DEF r
<1>5. /\ OnePassAtATime' /\ running' /\ Active(g)'
      /\ worker'[g] = [step |-> k + 1, failed |-> worker[g].failed, read |-> r]
      /\ \A h \in Goroutines : h # g => ~Active(h) /\ worker'[h] = worker[h]
  BY <1>1, <1>2, <1>3, AdvanceKeepsOne
<1>6. HistoryBounded'
  BY <1>2, <1>3, <1>5, Numbers DEF HistoryBounded
<1>7. ~worker[g].failed => \A i \in 1..4 : DoneBefore(i, g)'
  <2> SUFFICES ASSUME ~worker[g].failed, NEW i \in 1..4, i <= k
               PROVE  applied'[PassSteps[i]] >= r
    BY <1>1, <1>5 DEF DoneBefore
  <2>1. \A j \in 1..4 : j < k => applied[PassSteps[j]] >= r
    BY <1>1, <1>2, Numbers DEF PassProgress, DoneBefore
  <2>2. CASE i = k
    <3>1. applied'[PassSteps[i]] = Reflects(s)
      BY <1>1, <1>4, <2>2, StepFacts DEF TypeOK
    <3>2. Reflects(s) >= r
      BY <1>1, <1>2, <2>1, StepFacts DEF Reflects, TypeOK, Revisions
    <3> QED
      BY <3>1, <3>2
  <2>3. CASE i < k
    <3>1. PassSteps[i] # s
      BY <1>1, <2>3, StepFacts
    <3>2. applied'[PassSteps[i]] = applied[PassSteps[i]]
      BY <1>4, <3>1, StepFacts DEF TypeOK
    <3> QED
      BY <2>1, <2>3, <3>2
  <2> QED
    BY <1>1, <2>2, <2>3
<1>8. PassProgress'
  BY <1>5, <1>7 DEF PassProgress, Active
<1>9. RequestCovered'
  <2> SUFFICES ASSUME ~pending, ~worker[g].failed PROVE r >= requested
    BY <1>3, <1>5, Numbers DEF RequestCovered, Active
  <2>1. CASE k = 1
    BY <1>2, <2>1 DEF HistoryBounded
  <2>2. CASE k # 1
    BY <1>1, <1>2, <2>2 DEF RequestCovered
  <2> QED
    BY <2>1, <2>2
<1>10. OutcomeRecorded'
  BY <1>1, <1>3, <1>5, StepFacts DEF OutcomeRecorded, Active
<1>11. NoRequestLost'
  BY <1>5 DEF NoRequestLost
<1> QED
  BY <1>5, <1>6, <1>8, <1>9, <1>10, <1>11

\* A step that fails preserves it: the pass no longer counts as ok.
LEMMA StepFailsKeeps ==
    ASSUME PassInv, TypeOK', NEW g \in Goroutines, StepFails(g)
    PROVE  PassInv'
<1> USE DEF PassInv
<1>1. worker[g].step \in 1..4 /\ worker[g].step < Deciding /\ Active(g)
  BY StepFacts DEF StepFails, InPass, Active
<1>2. worker[g].read \in Revisions
  BY DEF TypeOK, Worker
<1>3. Advance(g, TRUE, worker[g].read)
      /\ UNCHANGED <<cveRev, running, pending, applied, outcome, requested>>
  BY DEF StepFails, lockVars
<1>4. /\ OnePassAtATime' /\ running' /\ Active(g)'
      /\ worker'[g] = [step |-> worker[g].step + 1, failed |-> TRUE, read |-> worker[g].read]
      /\ \A h \in Goroutines : h # g => ~Active(h) /\ worker'[h] = worker[h]
  BY <1>1, <1>2, <1>3, AdvanceKeepsOne
<1>5. HistoryBounded'
  BY <1>3, <1>4 DEF HistoryBounded
<1>6. PassProgress' /\ RequestCovered'
  BY <1>3, <1>4, Numbers DEF PassProgress, RequestCovered, Active
<1>7. OutcomeRecorded' /\ NoRequestLost'
  BY <1>1, <1>4, StepFacts DEF OutcomeRecorded, NoRequestLost, Active
<1> QED
  BY <1>4, <1>5, <1>6, <1>7

\* The end of a pass preserves it: the audit tells whether a step failed.
LEMMA FinishPassKeeps ==
    ASSUME PassInv, TypeOK', NEW g \in Goroutines, FinishPass(g)
    PROVE  PassInv'
<1> USE DEF PassInv
<1>1. worker[g].step = 5 /\ worker[g].step < Deciding /\ Active(g)
  BY StepFacts DEF FinishPass, Active
<1>2. worker[g].read \in Revisions /\ worker[g].failed \in BOOLEAN
  BY DEF TypeOK, Worker
<1>3. /\ Advance(g, worker[g].failed, worker[g].read)
      /\ UNCHANGED <<cveRev, running, pending, applied, requested>>
      /\ outcome' = IF worker[g].failed THEN "error" ELSE "ok"
  BY DEF FinishPass, lockVars
<1>4. /\ OnePassAtATime' /\ running' /\ Active(g)'
      /\ worker'[g] = [step |-> 6, failed |-> worker[g].failed, read |-> worker[g].read]
      /\ \A h \in Goroutines : h # g => ~Active(h) /\ worker'[h] = worker[h]
  BY <1>1, <1>2, <1>3, AdvanceKeepsOne
<1>5. HistoryBounded'
  BY <1>3, <1>4 DEF HistoryBounded
<1>6. PassProgress'
  BY <1>1, <1>3, <1>4 DEF PassProgress, DoneBefore, Active
<1>7. RequestCovered' /\ NoRequestLost'
  BY <1>1, <1>3, <1>4, Numbers DEF RequestCovered, NoRequestLost, Active
<1>8. OutcomeRecorded'
  BY <1>3, <1>4, StepFacts DEF OutcomeRecorded, Active
<1> QED
  BY <1>4, <1>5, <1>6, <1>7, <1>8

\* The decision under the lock preserves it: a worker stops only when its
\* own pass covered the last request, or had failed.
LEMMA StopOrGoOnKeeps ==
    ASSUME PassInv, TypeOK', NEW g \in Goroutines, StopOrGoOn(g)
    PROVE  PassInv'
<1> USE DEF PassInv
<1>1. worker[g].step = 6 /\ Active(g) /\ running
  BY StepFacts DEF StopOrGoOn, Active, OnePassAtATime
<1>2. UNCHANGED <<cveRev, applied, outcome, requested>>
  BY DEF StopOrGoOn
<1>3. \A h \in Goroutines : h # g => ~Active(h) /\ worker'[h] = worker[h]
  BY <1>1 DEF StopOrGoOn, OnePassAtATime, TypeOK
<1>4. CASE ~pending /\ ~running' /\ ~pending' /\ worker' = [worker EXCEPT ![g] = NoPass]
  <2>1. worker'[g] = NoPass /\ \A h \in Goroutines : worker'[h].step = 0
    BY <1>3, <1>4 DEF TypeOK, NoPass, Active
  <2>2. OnePassAtATime'
    BY <1>4, <2>1 DEF OnePassAtATime, Active
  <2>3. HistoryBounded'
    BY <1>2, <1>3, <2>1, SecurityRecalcAssumption DEF HistoryBounded, NoPass, TypeOK, Revisions
  <2>4. PassProgress' /\ RequestCovered' /\ OutcomeRecorded'
    BY <2>1, StepFacts DEF PassProgress, RequestCovered, OutcomeRecorded, Active
  <2>5. NoRequestLost'
    <3> SUFFICES ASSUME outcome = "ok", NEW s \in StepNames PROVE applied[s] >= requested
      BY <1>2 DEF NoRequestLost
    <3>1. ~worker[g].failed
      BY <1>1, StepFacts DEF OutcomeRecorded
    <3>2. worker[g].read >= requested
      BY <1>1, <1>4, <3>1 DEF RequestCovered
    <3>3. \A i \in 1..4 : applied[PassSteps[i]] >= worker[g].read
      BY <1>1, <3>1 DEF PassProgress, DoneBefore
    <3>4. applied[s] >= worker[g].read
      BY <3>3, StepFacts
    <3> QED
      BY <3>2, <3>4, Numbers
  <2> QED
    BY <2>2, <2>3, <2>4, <2>5
<1>5. CASE pending /\ running' /\ ~pending' /\ worker' = [worker EXCEPT ![g] = NewPass]
  <2>1. worker'[g] = NewPass /\ worker'[g].step = 1 /\ worker'[g].read = 0
    BY <1>5 DEF TypeOK, NewPass
  <2>2. OnePassAtATime'
    BY <1>3, <1>5, <2>1 DEF OnePassAtATime, Active
  <2>3. HistoryBounded'
    BY <1>2, <1>3, <2>1, SecurityRecalcAssumption DEF HistoryBounded, TypeOK, Revisions
  <2>4. PassProgress'
    BY <1>3, <2>1 DEF PassProgress, DoneBefore, Active
  <2>5. RequestCovered' /\ OutcomeRecorded' /\ NoRequestLost'
    BY <1>3, <1>5, <2>1, StepFacts DEF RequestCovered, OutcomeRecorded, NoRequestLost, Active
  <2> QED
    BY <2>2, <2>3, <2>4, <2>5
<1>6. CASE ~pending /\ running' = FALSE /\ UNCHANGED pending /\ worker' = [worker EXCEPT ![g] = NoPass]
  <2>1. ~running' /\ ~pending'
    BY <1>6
  <2> QED
    BY <1>4, <1>6, <2>1
<1>7. CASE pending /\ pending' = FALSE /\ UNCHANGED running /\ worker' = [worker EXCEPT ![g] = NewPass]
  <2>1. running' /\ ~pending'
    BY <1>1, <1>7
  <2> QED
    BY <1>5, <1>7, <2>1
<1> QED
  BY <1>6, <1>7, Zenon DEF StopOrGoOn

\* A crash preserves it: it leaves neither a worker nor an outcome behind.
LEMMA CrashKeeps ==
    ASSUME PassInv, TypeOK', ServerCrash
    PROVE  PassInv'
<1>1. \A g \in Goroutines : worker'[g].step = 0 /\ worker'[g].read = 0
  BY DEF ServerCrash, NoPass
<1>2. ~running' /\ ~pending' /\ outcome' = "none" /\ UNCHANGED <<cveRev, requested>>
  BY DEF ServerCrash
<1>3. HistoryBounded'
  BY <1>1, <1>2, SecurityRecalcAssumption DEF PassInv, HistoryBounded, TypeOK, Revisions
<1> QED
  BY <1>1, <1>2, <1>3, StepFacts DEF PassInv, OnePassAtATime, PassProgress, RequestCovered,
        OutcomeRecorded, NoRequestLost, Active

\* Every step preserves the invariant.
LEMMA PassInvStep == PassInv /\ [Next]_vars => PassInv'
<1> SUFFICES ASSUME PassInv, [Next]_vars PROVE PassInv'
  OBVIOUS
<1>0. TypeOK /\ TypeOK'
  BY TypeStep DEF PassInv
<1>1. CASE \E w \in Writers : WriterStep(w)
  <2> PICK w \in Writers : WriterStep(w)
    BY <1>1
  <2>1. CASE SecurityDatabaseUpdated(w)
    BY <1>0, <2>1, RecalculateKeeps DEF SecurityDatabaseUpdated
  <2>2. CASE ~SecurityDatabaseUpdated(w)
    BY <1>0, <2>2, WriterElsewhere, ElsewhereKeeps
  <2> QED
    BY <2>1, <2>2
<1>2. CASE ImportDeferred
  BY <1>0, <1>2, DeferredElsewhere, ElsewhereKeeps
<1>3. CASE HandleSecurityDbRecalculate
  BY <1>0, <1>3, RecalculateKeeps DEF HandleSecurityDbRecalculate
<1>4. CASE \E g \in Goroutines : PassStep(g)
  BY <1>0, <1>4, RunStepKeeps, StepFailsKeeps, FinishPassKeeps, StopOrGoOnKeeps DEF PassStep
<1>5. CASE (\E q \in Goroutines : RescanStep(q)) \/ ClaimRescan
  BY <1>0, <1>5, RescanElsewhere, ElsewhereKeeps
<1>6. CASE ServerCrash
  BY <1>0, <1>6, CrashKeeps
<1>7. CASE UNCHANGED vars
  <2>1. Elsewhere
    BY <1>0, <1>7, Numbers DEF vars, Elsewhere
  <2> QED
    BY <1>0, <2>1, ElsewhereKeeps
<1> QED
  BY <1>1, <1>2, <1>3, <1>4, <1>5, <1>6, <1>7 DEF Next

\* A pass that has done its steps without a failure is complete.
LEMMA ProgressCompletes == PassInv => OkPassIsComplete
<1> SUFFICES ASSUME PassInv, NEW g \in Goroutines, worker[g].step >= 5, ~worker[g].failed,
                    NEW s \in StepNames
             PROVE  applied[s] >= worker[g].read
  BY StepFacts DEF OkPassIsComplete
<1>1. Active(g)
  BY Numbers DEF PassInv, Active
<1>2. \A i \in 1..4 : applied[PassSteps[i]] >= worker[g].read
  BY <1>1, Numbers DEF PassInv, PassProgress, DoneBefore
<1> QED
  BY <1>2, StepFacts

\* recalculateSecurityFindings serialises the passes, and its running flag is
\* set exactly while a worker lives.
THEOREM PassesAreSerialized == Spec => []OnePassAtATime
<1>1. PassInv => OnePassAtATime
  BY DEF PassInv
<1> QED
  BY <1>1, PassInvInit, PassInvStep, PTL DEF Spec

\* The status of a pass is honest: without a failure everything has been
\* recomputed from the revision the pass read, or a newer one.
THEOREM OkPassesAreComplete == Spec => []OkPassIsComplete
  BY ProgressCompletes, PassInvInit, PassInvStep, PTL DEF Spec

\* No request slips between the worker that stops and the caller that finds
\* it running.
THEOREM RequestsAreNotLost == Spec => []NoRequestLost
<1>1. PassInv => NoRequestLost
  BY DEF PassInv
<1> QED
  BY <1>1, PassInvInit, PassInvStep, PTL DEF Spec

-----------------------------------------------------------------------------
(* The refinement.  SecurityRecalc implements Recalculation, for any number *)
(* of writers and goroutines and any budget of faults: its initial states  *)
(* are initial states of the promise, and every step is one of the         *)
(* promise's or stutters.  That a rest is clean only when the last request *)
(* is reflected comes from the invariant behind NoRequestLost; that work   *)
(* already reflected is never undone needs the order of the results too.   *)

\* No result is ahead of the database, and the summaries none of the findings
\* they are built from.
ResultsInOrder ==
    /\ \A s \in StepNames : applied[s] <= cveRev
    /\ applied["summaries"] <= applied["findings"]

RefinementInv == PassInv /\ ResultsInOrder

\* What a step that runs does to the results: one of them grows.
Grows ==
    /\ \A s \in StepNames : applied'[s] >= applied[s]
    /\ \A s \in StepNames : applied'[s] <= cveRev
    /\ applied'["summaries"] <= applied'["findings"]

\* A step of a pass that succeeds undoes nothing.
LEMMA RunStepGrows ==
    ASSUME RefinementInv, TypeOK', NEW g \in Goroutines, RunStep(g)
    PROVE  Grows /\ cveRev' = cveRev /\ requested' = requested /\ running /\ running'
<1> USE DEF RefinementInv, PassInv, ResultsInOrder
<1>1. worker[g].step \in 1..4 /\ Active(g) /\ running
  BY StepFacts DEF RunStep, InPass, Active, OnePassAtATime
<1>2. /\ applied' = [applied EXCEPT ![Step(g)] = Reflects(Step(g))]
      /\ UNCHANGED <<cveRev, requested, running>>
  BY DEF RunStep, lockVars
<1>3. Step(g) \in StepNames
  BY <1>1, StepFacts DEF Step
<1>4. /\ Step(g) = "summaries" => Reflects(Step(g)) = applied["findings"]
      /\ Step(g) # "summaries" => Reflects(Step(g)) = cveRev
  BY DEF Reflects
<1>5. applied \in [StepNames -> Revisions] /\ cveRev \in Int
  BY Numbers DEF TypeOK
<1>6. \A s \in StepNames : applied[s] \in Int /\ applied[s] <= cveRev
  BY Numbers
<1>7. CASE Step(g) = "summaries"
  <2>1. /\ applied'["summaries"] = applied["findings"]
        /\ \A s \in StepNames : s # "summaries" => applied'[s] = applied[s]
    BY <1>2, <1>4, <1>5, <1>7, StepFacts
  <2> QED
    BY <1>1, <1>2, <1>6, <2>1, StepFacts DEF Grows
<1>8. CASE Step(g) # "summaries"
  <2>1. /\ applied'[Step(g)] = cveRev
        /\ \A s \in StepNames : s # Step(g) => applied'[s] = applied[s]
    BY <1>2, <1>3, <1>4, <1>5, <1>8
  <2>2. applied'["summaries"] = applied["summaries"]
    BY <1>8, <2>1, StepFacts
  <2>3. applied'["findings"] = applied["findings"] \/ applied'["findings"] = cveRev
    BY <2>1, StepFacts
  <2> QED
    BY <1>1, <1>2, <1>5, <1>6, <2>1, <2>2, <2>3, StepFacts DEF Grows
<1> QED
  BY <1>7, <1>8

\* Every other step leaves the results, and none takes the database back.
LEMMA ResultsElsewhere ==
    ASSUME TypeOK, [Next]_vars, ~\E g \in Goroutines : RunStep(g)
    PROVE  applied' = applied /\ cveRev' >= cveRev
<1>0. cveRev \in Int
  BY Numbers
<1>1. CASE \E w \in Writers : WriterStep(w)
  <2> PICK w \in Writers : WriterStep(w)
    BY <1>1
  <2>1. CASE SecurityDatabaseUpdated(w)
    BY <1>0, <2>1 DEF SecurityDatabaseUpdated
  <2>2. CASE ~SecurityDatabaseUpdated(w)
    BY <2>2, WriterElsewhere DEF Elsewhere, passVars
  <2> QED
    BY <2>1, <2>2
<1>2. CASE ImportDeferred
  BY <1>2, DeferredElsewhere DEF Elsewhere, passVars
<1>3. CASE HandleSecurityDbRecalculate
  BY <1>0, <1>3 DEF HandleSecurityDbRecalculate
<1>4. CASE \E g \in Goroutines : PassStep(g)
  <2> PICK g \in Goroutines : PassStep(g)
    BY <1>4
  <2>1. StepFails(g) \/ FinishPass(g) \/ StopOrGoOn(g)
    BY DEF PassStep
  <2>2. UNCHANGED <<cveRev, applied>>
    BY <2>1 DEF StepFails, FinishPass, StopOrGoOn
  <2> QED
    BY <1>0, <2>2
<1>5. CASE (\E q \in Goroutines : RescanStep(q)) \/ ClaimRescan
  BY <1>5, RescanElsewhere DEF Elsewhere, passVars
<1>6. CASE ServerCrash
  BY <1>0, <1>6 DEF ServerCrash
<1>7. CASE UNCHANGED vars
  BY <1>0, <1>7 DEF vars, passVars
<1> QED
  BY <1>1, <1>2, <1>3, <1>4, <1>5, <1>6, <1>7 DEF Next

\* The initial state satisfies the invariant.
LEMMA RefinementInvInit == Init => RefinementInv
<1> SUFFICES ASSUME Init PROVE RefinementInv
  OBVIOUS
<1>1. cveRev = 0 /\ \A s \in StepNames : applied[s] = 0
  BY DEF Init
<1> QED
  BY <1>1, PassInvInit, StepFacts DEF RefinementInv, ResultsInOrder

\* Every step preserves it.
LEMMA RefinementInvStep == RefinementInv /\ [Next]_vars => RefinementInv'
<1> SUFFICES ASSUME RefinementInv, [Next]_vars PROVE RefinementInv'
  OBVIOUS
<1>1. PassInv' /\ TypeOK /\ TypeOK'
  BY PassInvStep DEF RefinementInv, PassInv
<1>2. CASE \E g \in Goroutines : RunStep(g)
  BY <1>1, <1>2, RunStepGrows DEF RefinementInv, ResultsInOrder, Grows
<1>3. CASE ~\E g \in Goroutines : RunStep(g)
  <2>1. applied' = applied /\ cveRev' >= cveRev /\ cveRev \in Int /\ cveRev' \in Int
    BY <1>1, <1>3, ResultsElsewhere, SecurityRecalcAssumption DEF TypeOK, Revisions
  <2>2. \A s \in StepNames : applied[s] \in Int /\ applied[s] <= cveRev
    BY <1>1, Numbers DEF RefinementInv, ResultsInOrder
  <2>3. ResultsInOrder'
    BY <2>1, <2>2 DEF RefinementInv, ResultsInOrder
  <2> QED
    BY <1>1, <2>3 DEF RefinementInv
<1> QED
  BY <1>2, <1>3

----------------------------------------------------------------------------
(* The mapping.                                                            *)

\* Unchanged results reflect the same revisions.
LEMMA SameReflected == applied' = applied => Reflected' = Reflected
  BY DEF Reflected

\* Results that grow reflect what they did, and nothing ahead of the database.
LEMMA GrowingReflected ==
    ASSUME TypeOK, TypeOK', Grows
    PROVE  Reflected \subseteq Reflected' /\ Reflected' \subseteq 0..cveRev
<1>0. \A s \in StepNames : applied'[s] \in Int
  BY SecurityRecalcAssumption DEF TypeOK, Revisions
<1>1. \A s \in StepNames : applied[s] \in Int
  BY Numbers
<1>2. ASSUME NEW r \in Reflected PROVE r \in Reflected'
  <2>1. r \in Revisions /\ r \in Int /\ \A s \in StepNames : applied[s] >= r
    BY <1>2, SecurityRecalcAssumption DEF Reflected, Revisions
  <2>2. ASSUME NEW s \in StepNames PROVE applied'[s] >= r
    <3>1. applied[s] \in Int /\ applied[s] >= r /\ applied'[s] >= applied[s]
      BY <1>1, <2>1 DEF Grows
    <3> QED
      BY <1>0, <2>1, <3>1
  <2> QED
    BY <2>1, <2>2 DEF Reflected, Revisions
<1>3. ASSUME NEW r \in Reflected' PROVE r \in 0..cveRev
  <2>1. r \in Nat /\ applied'["findings"] >= r
    BY <1>3, StepFacts, SecurityRecalcAssumption DEF Reflected, Revisions
  <2>2. applied'["findings"] <= cveRev /\ applied'["findings"] \in Int /\ cveRev \in Int
    BY <1>0, StepFacts, Numbers DEF Grows
  <2> QED
    BY <2>1, <2>2
<1> QED
  BY <1>2, <1>3

\* What busy and clean are mapped to.
Clean == ~running /\ outcome = "ok"

\* The initial states are those of the promise.
LEMMA PromisedInit == Init => Promised!Init
<1> SUFFICES ASSUME Init PROVE Promised!Init
  OBVIOUS
<1>1. cveRev = 0 /\ requested = 0 /\ running = FALSE /\ outcome = "none"
  BY DEF Init
<1>2. \A s \in StepNames : applied[s] = 0
  BY DEF Init
<1>3. Reflected = {0}
  BY <1>2, StepFacts, SecurityRecalcAssumption DEF Reflected, Revisions
<1> QED
  BY <1>1, <1>3 DEF Promised!Init

\* A request is one of the promise's.
LEMMA PromisedAsk ==
    ASSUME PassInv, Recalculate, UNCHANGED <<cveRev, applied, outcome>>
    PROVE  Promised!Ask
<1>1. running' = TRUE
  BY DEF Recalculate, StartWorker, PassInv, TypeOK
<1>2. requested' = cveRev
  BY DEF Recalculate
<1>3. Reflected' = Reflected
  BY SameReflected
<1> QED
  BY <1>1, <1>2, <1>3 DEF Promised!Ask

\* A step of the writers and the rescans changes the database at most.
LEMMA PromisedElsewhere ==
    ASSUME PassInv, UNCHANGED <<lockVars, passVars, requested>>,
           cveRev' = cveRev \/ cveRev' = cveRev + 1
    PROVE  Promised!Change \/ UNCHANGED <<cveRev, requested, Reflected, running, Clean>>
<1>1. Reflected' = Reflected
  BY SameReflected DEF passVars
<1> QED
  BY <1>1 DEF Promised!Change, Clean, lockVars, passVars

\* The database moves one revision at a time.
LEMMA OneRevision ==
    ASSUME TypeOK, \/ ClaimRescan \/ ImportDeferred
                   \/ \E w \in Writers : WriterStep(w)
                   \/ \E q \in Goroutines : RescanStep(q)
    PROVE  cveRev' = cveRev \/ cveRev' = cveRev + 1
  BY DEF ClaimRescan, ImportDeferred, ChangeCVEs, WriterStep, HandleCveDbImport,
        HandleTrivyDBUpload, ApplySecurityDBBundle, BundleTrivyLoaded, BundleTrivyFails,
        UpdateNowWithReason, SyncSucceeds, SyncFails, SecurityDatabaseUpdated,
        RescanStep, RescanReadsRevision, QueueSecurityDBRescans, RescanFails

\* The end of the worker is the promise's rest: the invariant has the last
\* request reflected if the pass was ok.
LEMMA PromisedRest ==
    ASSUME RefinementInv, TypeOK', NoRequestLost', NEW g \in Goroutines, StopOrGoOn(g)
    PROVE  Promised!Rest \/ UNCHANGED <<cveRev, requested, Reflected, running, Clean>>
<1>1. UNCHANGED <<cveRev, applied, outcome, requested>>
  BY DEF StopOrGoOn
<1>2. Reflected' = Reflected
  BY <1>1, SameReflected
<1>3. running = TRUE
  BY StepFacts DEF StopOrGoOn, Active, RefinementInv, PassInv, OnePassAtATime, TypeOK
<1>4. CASE running' = FALSE
  <2>1. outcome = "ok" => \A s \in StepNames : applied[s] >= requested
    BY <1>1, <1>4 DEF NoRequestLost
  <2>2. outcome = "ok" => requested \in Reflected
    BY <2>1 DEF Reflected, RefinementInv, PassInv, TypeOK
  <2> QED
    BY <1>1, <1>2, <1>3, <1>4, <2>2 DEF Promised!Rest
<1>5. CASE running' = running
  BY <1>1, <1>2, <1>5 DEF Clean
<1> QED
  BY <1>4, <1>5 DEF StopOrGoOn

\* Every step maps to a step of the promise or to a stutter.
LEMMA PromisedStep ==
    ASSUME RefinementInv, RefinementInv', [Next]_vars
    PROVE  Promised!Next \/ UNCHANGED <<cveRev, requested, Reflected, running, Clean>>
<1>0. PassInv /\ TypeOK /\ TypeOK' /\ NoRequestLost'
  BY DEF RefinementInv, PassInv
<1>1. CASE \E w \in Writers : WriterStep(w)
  <2> PICK w \in Writers : WriterStep(w)
    BY <1>1
  <2>1. CASE SecurityDatabaseUpdated(w)
    <3>1. Recalculate /\ UNCHANGED <<cveRev, applied, outcome>>
      BY <2>1 DEF SecurityDatabaseUpdated
    <3> QED
      BY <1>0, <3>1, PromisedAsk DEF Promised!Next
  <2>2. CASE ~SecurityDatabaseUpdated(w)
    <3>1. UNCHANGED <<lockVars, passVars, requested>>
      BY <1>0, <2>2, WriterElsewhere DEF Elsewhere
    <3> QED
      BY <1>0, <1>1, <3>1, OneRevision, PromisedElsewhere DEF Promised!Next
  <2> QED
    BY <2>1, <2>2
<1>2. CASE ImportDeferred
  <2>1. UNCHANGED <<lockVars, passVars, requested>>
    BY <1>0, <1>2, DeferredElsewhere DEF Elsewhere
  <2> QED
    BY <1>0, <1>2, <2>1, OneRevision, PromisedElsewhere DEF Promised!Next
<1>3. CASE HandleSecurityDbRecalculate
  <2>1. Recalculate /\ UNCHANGED <<cveRev, applied, outcome>>
    BY <1>3 DEF HandleSecurityDbRecalculate
  <2> QED
    BY <1>0, <2>1, PromisedAsk DEF Promised!Next
<1>4. CASE \E g \in Goroutines : RunStep(g)
  <2> PICK g \in Goroutines : RunStep(g)
    BY <1>4
  <2>1. Grows /\ UNCHANGED <<cveRev, requested>> /\ running /\ running'
    BY <1>0, RunStepGrows
  <2>2. running = TRUE /\ running' = TRUE
    BY <1>0, <2>1 DEF TypeOK
  <2>3. Reflected \subseteq Reflected' /\ Reflected' \subseteq 0..cveRev
    BY <1>0, <2>1, GrowingReflected
  <2>4. Promised!Refresh
    BY <2>1, <2>2, <2>3 DEF Promised!Refresh
  <2> QED
    BY <2>4 DEF Promised!Next
<1>5. CASE \E g \in Goroutines : StepFails(g) \/ FinishPass(g)
  <2> PICK g \in Goroutines : StepFails(g) \/ FinishPass(g)
    BY <1>5
  <2>1. UNCHANGED <<cveRev, requested, running, applied>>
    BY DEF StepFails, FinishPass, lockVars
  <2>4. worker[g].step \in 1..4 \/ worker[g].step = 5
    BY StepFacts DEF StepFails, FinishPass, InPass
  <2>2. Active(g) /\ running
    BY <1>0, <2>4 DEF Active, PassInv, OnePassAtATime
  <2>3. UNCHANGED Clean
    BY <2>1, <2>2 DEF Clean
  <2> QED
    BY <2>1, <2>3, SameReflected
<1>6. CASE \E g \in Goroutines : StopOrGoOn(g)
  BY <1>0, <1>6, PromisedRest DEF Promised!Next
<1>7. CASE (\E q \in Goroutines : RescanStep(q)) \/ ClaimRescan
  <2>1. UNCHANGED <<lockVars, passVars, requested>>
    BY <1>0, <1>7, RescanElsewhere DEF Elsewhere
  <2> QED
    BY <1>0, <1>7, <2>1, OneRevision, PromisedElsewhere DEF Promised!Next
<1>8. CASE ServerCrash
  <2>1. UNCHANGED <<cveRev, requested, applied>> /\ running' = FALSE /\ outcome' = "none"
    BY <1>8 DEF ServerCrash
  <2>2. Promised!Forget
    BY <2>1, SameReflected DEF Promised!Forget
  <2> QED
    BY <2>2 DEF Promised!Next
<1>9. CASE UNCHANGED vars
  BY <1>9, SameReflected DEF vars, lockVars, passVars, Clean
<1> QED
  BY <1>1, <1>2, <1>3, <1>4, <1>5, <1>6, <1>7, <1>8, <1>9 DEF Next, PassStep

\* The coalescing worker of recalculateSecurityFindings keeps its promise: it
\* behaves like Recalculation whatever callers, failures and crashes do.
THEOREM RecalculationIsImplemented == Spec => PromiseKept
<1>1. RefinementInv /\ RefinementInv' /\ [Next]_vars
        => [Promised!Next]_<<cveRev, requested, Reflected, running, Clean>>
  BY PromisedStep
<1> QED
  BY <1>1, PromisedInit, RefinementInvInit, RefinementInvStep, PTL
     DEF Spec, PromiseKept, Promised!Spec, Clean
=============================================================================

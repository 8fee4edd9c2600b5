--------------------------- MODULE SecurityRecalc ---------------------------
(***************************************************************************)
(* What follows a change of the security database, of                      *)
(* internal/server/api/cvedb.go: the writers that change it, the           *)
(* coalescing worker of recalculateSecurityFindings, the pass it runs      *)
(* (runSecurityRecalculation), and the goroutines that queue the agents'   *)
(* rescans afterwards.                                                     *)
(*                                                                         *)
(* A revision is a number: GetSecurityDBRevision hashes the contents of    *)
(* the CVE tables, and every committed change gives a new one.             *)
(***************************************************************************)
EXTENDS Integers, Sequences, FiniteSets

CONSTANTS
    Writers,     \* the requests and background jobs that change the database
    Goroutines,  \* the goroutines there may be at once, of either kind
    MaxRevision, \* bound: the database changes while its revision is below it
    Faults,      \* the kinds of fault there may be
    MaxFaults    \* bound: how many faults, whatever their kind

ASSUME SecurityRecalcAssumption ==
    /\ Goroutines # {}
    /\ MaxRevision \in Nat
    /\ Faults \subseteq {"database", "writer", "crash"}
    /\ MaxFaults \in Nat

VARIABLES
    cveRev,    \* the revision of the CVE tables
    writer,    \* what each writer has still to do
    running,   \* securityRecalcRunning
    pending,   \* securityRecalcPending
    worker,    \* the recalculation goroutines
    applied,   \* per step, the revision its result reflects
    outcome,   \* the status the last pass was audited with
    requested, \* history: the revision at the latest recalculation request
    rescan,    \* the goroutines of queueSecurityDBRescans
    stamp,     \* the revision on the host's pending rescan, or NoRescan
    left       \* how many more faults there may be

lockVars   == <<running, pending>>
passVars   == <<worker, applied, outcome>>
rescanVars == <<rescan, stamp>>
vars == <<cveRev, writer, lockVars, passVars, requested, rescanVars, left>>

Revisions == 0..MaxRevision
NoRescan  == -1

\* The steps of a pass, in order: read the revision; merge EPSS and compute
\* CVSS; enrich, clean up, rematch and normalise the findings; rebuild the
\* summaries.  A step stands for calls of which each goes on after a failure
\* of another; it counts as failed if one of them fails.
PassSteps == <<"revision", "scores", "findings", "summaries">>
StepNames  == {PassSteps[i] : i \in 1..Len(PassSteps)}
AfterSteps == Len(PassSteps) + 1   \* the audit and the rescans are left
Deciding   == Len(PassSteps) + 2   \* about to take the lock again

\* step = 0: the goroutine does not exist.
Worker == [step: 0..Deciding, failed: BOOLEAN, read: Revisions]
NoPass == [step |-> 0, failed |-> FALSE, read |-> 0]
NewPass == [step |-> 1, failed |-> FALSE, read |-> 0]

Rescan == [pc: {"none", "started", "read"}, rev: Revisions]
NoJob  == [pc |-> "none", rev |-> 0]

TypeOK ==
    /\ cveRev \in Revisions
    /\ writer \in [Writers -> {"idle", "bundle", "sync", "notify"}]
    /\ running \in BOOLEAN /\ pending \in BOOLEAN
    /\ worker \in [Goroutines -> Worker]
    /\ applied \in [StepNames -> Revisions]
    /\ outcome \in {"none", "ok", "error"}
    /\ requested \in Revisions
    /\ rescan \in [Goroutines -> Rescan]
    /\ stamp \in Revisions \cup {NoRescan}
    /\ left \in Nat

Init ==
    /\ cveRev = 0 /\ requested = 0
    /\ writer = [w \in Writers |-> "idle"]
    /\ running = FALSE /\ pending = FALSE
    /\ worker = [g \in Goroutines |-> NoPass]
    /\ applied = [s \in StepNames |-> 0]
    /\ outcome = "none"
    /\ rescan = [g \in Goroutines |-> NoJob]
    /\ stamp = NoRescan
    /\ left = MaxFaults

Fault(kind) == kind \in Faults /\ left > 0 /\ left' = left - 1

----------------------------------------------------------------------------
(* The writers.                                                            *)

Becomes(w, from, to) == writer[w] = from /\ writer' = [writer EXCEPT ![w] = to]

ChangeCVEs == cveRev < MaxRevision /\ cveRev' = cveRev + 1

\* handleCveDbImport and handleCveDbPruneStaleSource with finalize: one
\* transaction, then the notification.
HandleCveDbImport(w) ==
    /\ Becomes(w, "idle", "notify")
    /\ ChangeCVEs
    /\ UNCHANGED <<lockVars, passVars, requested, rescanVars, left>>

\* handleTrivyDBUpload, handleTrivyDBUpdate and the periodic download: the
\* CVE tables stay as they are.
HandleTrivyDBUpload(w) ==
    /\ Becomes(w, "idle", "notify")
    /\ UNCHANGED <<cveRev, lockVars, passVars, requested, rescanVars, left>>

\* applySecurityDBBundle up to its commit; the bundle's Trivy DB is loaded after.
ApplySecurityDBBundle(w) ==
    /\ Becomes(w, "idle", "bundle")
    /\ ChangeCVEs
    /\ UNCHANGED <<lockVars, passVars, requested, rescanVars, left>>

BundleTrivyLoaded(w) ==
    /\ Becomes(w, "bundle", "notify")
    /\ UNCHANGED <<cveRev, lockVars, passVars, requested, rescanVars, left>>

\* LoadFromFile fails: the import returns its error, with the CVEs committed.
BundleTrivyFails(w) ==
    /\ Becomes(w, "bundle", "idle")
    /\ Fault("writer")
    /\ UNCHANGED <<cveRev, lockVars, passVars, requested, rescanVars>>

\* secdb.Manager.UpdateNowWithReason: a second sync is refused.
UpdateNowWithReason(w) ==
    /\ \A v \in Writers : writer[v] # "sync"
    /\ Becomes(w, "idle", "sync")
    /\ UNCHANGED <<cveRev, lockVars, passVars, requested, rescanVars, left>>

\* The sync command imports with finalize=false: no notification.
ImportDeferred ==
    /\ \E w \in Writers : writer[w] = "sync"
    /\ ChangeCVEs
    /\ UNCHANGED <<writer, lockVars, passVars, requested, rescanVars, left>>

SyncSucceeds(w) ==
    /\ Becomes(w, "sync", "notify")
    /\ UNCHANGED <<cveRev, lockVars, passVars, requested, rescanVars, left>>

SyncFails(w) ==
    /\ Becomes(w, "sync", "idle")
    /\ Fault("writer")
    /\ UNCHANGED <<cveRev, lockVars, passVars, requested, rescanVars>>

----------------------------------------------------------------------------
(* recalculateSecurityFindings and its goroutine.                          *)

StartWorker ==
    /\ running' = TRUE
    /\ \E g \in Goroutines : worker[g] = NoPass /\ worker' = [worker EXCEPT ![g] = NewPass]
    /\ UNCHANGED pending

\* The critical section: start a worker, or leave it word that one more pass
\* is due.
Recalculate ==
    /\ requested' = cveRev
    /\ \/ ~running /\ StartWorker
       \/ running /\ pending' = TRUE /\ UNCHANGED <<running, worker>>

SecurityDatabaseUpdated(w) ==
    /\ Becomes(w, "notify", "idle")
    /\ Recalculate
    /\ UNCHANGED <<cveRev, applied, outcome, rescanVars, left>>

HandleSecurityDbRecalculate ==
    /\ Recalculate
    /\ UNCHANGED <<cveRev, writer, applied, outcome, rescanVars, left>>

InPass(g) == worker[g].step \in 1..Len(PassSteps)
Step(g)   == PassSteps[worker[g].step]

\* The goroutine goes on, with a failure on its list or not.
Advance(g, failed, read) ==
    worker' = [worker EXCEPT ![g] = [step |-> @.step + 1, failed |-> failed, read |-> read]]

\* The revision that the result of step s reflects when it runs now: the
\* summaries are built from the findings.
Reflects(s) == IF s = "summaries" THEN applied["findings"] ELSE cveRev

\* A step of runSecurityRecalculation succeeds.
RunStep(g) ==
    /\ InPass(g)
    /\ applied' = [applied EXCEPT ![Step(g)] = Reflects(Step(g))]
    /\ Advance(g, worker[g].failed, IF Step(g) = "revision" THEN cveRev ELSE worker[g].read)
    /\ UNCHANGED <<cveRev, writer, lockVars, outcome, requested, rescanVars, left>>

\* Mutant: a failure is logged and left out of the list of failures.
StepFailureDropped(g) ==
    /\ InPass(g)
    /\ Fault("database")
    /\ Advance(g, worker[g].failed, worker[g].read)
    /\ UNCHANGED <<cveRev, writer, lockVars, applied, outcome, requested, rescanVars>>

\* A step fails (an error, or the two hours are over): the pass goes on.
StepFails(g) ==
    /\ InPass(g)
    /\ Fault("database")
    /\ Advance(g, TRUE, worker[g].read)
    /\ UNCHANGED <<cveRev, writer, lockVars, applied, outcome, requested, rescanVars>>

\* Mutant: no second rescan goroutine while one is under way.
SpawnSingleRescan ==
    IF \E q \in Goroutines : rescan[q].pc # "none"
    THEN UNCHANGED rescan
    ELSE \E q \in Goroutines : rescan' = [rescan EXCEPT ![q].pc = "started"]

\* queueSecurityDBRescans, up to its go statement.
SpawnRescan ==
    \E q \in Goroutines : /\ rescan[q].pc = "none"
                          /\ rescan' = [rescan EXCEPT ![q].pc = "started"]

\* The end of runSecurityRecalculation: the audit, and rescans whatever the status.
FinishPass(g) ==
    /\ worker[g].step = AfterSteps
    /\ Advance(g, worker[g].failed, worker[g].read)
    /\ outcome' = IF worker[g].failed THEN "error" ELSE "ok"
    /\ SpawnRescan
    /\ UNCHANGED <<cveRev, writer, lockVars, applied, requested, stamp, left>>

\* Mutant: the worker stops without looking for a pending pass.
StopRegardless(g) ==
    /\ worker[g].step = Deciding
    /\ running' = FALSE /\ pending' = FALSE
    /\ worker' = [worker EXCEPT ![g] = NoPass]
    /\ UNCHANGED <<cveRev, writer, applied, outcome, requested, rescanVars, left>>

\* Under the lock again: stop, or take the pending pass.
StopOrGoOn(g) ==
    /\ worker[g].step = Deciding
    /\ \/ /\ ~pending
          /\ running' = FALSE /\ UNCHANGED pending
          /\ worker' = [worker EXCEPT ![g] = NoPass]
       \/ /\ pending
          /\ pending' = FALSE /\ UNCHANGED running
          /\ worker' = [worker EXCEPT ![g] = NewPass]
    /\ UNCHANGED <<cveRev, writer, applied, outcome, requested, rescanVars, left>>

----------------------------------------------------------------------------
(* The goroutine of queueSecurityDBRescans.                                *)

RescanReadsRevision(q) ==
    /\ rescan[q].pc = "started"
    /\ rescan' = [rescan EXCEPT ![q] = [pc |-> "read", rev |-> cveRev]]
    /\ UNCHANGED <<cveRev, writer, lockVars, passVars, requested, stamp, left>>

\* The pending rescan of a host takes over the revision of the latest call.
QueueSecurityDBRescans(q) ==
    /\ rescan[q].pc = "read"
    /\ stamp' = rescan[q].rev
    /\ rescan' = [rescan EXCEPT ![q] = NoJob]
    /\ UNCHANGED <<cveRev, writer, lockVars, passVars, requested, left>>

\* The revision or the queueing fails: audited, never retried.
RescanFails(q) ==
    /\ rescan[q].pc # "none"
    /\ Fault("database")
    /\ rescan' = [rescan EXCEPT ![q] = NoJob]
    /\ UNCHANGED <<cveRev, writer, lockVars, passVars, requested, stamp>>

\* The host's agent claims the pending rescan.
ClaimRescan ==
    /\ stamp # NoRescan
    /\ stamp' = NoRescan
    /\ UNCHANGED <<cveRev, writer, lockVars, passVars, requested, rescan, left>>

\* The server stops and starts again: flags and goroutines are gone, and no
\* recalculation is requested at the start.
ServerCrash ==
    /\ Fault("crash")
    /\ writer' = [w \in Writers |-> "idle"]
    /\ running' = FALSE /\ pending' = FALSE
    /\ worker' = [g \in Goroutines |-> NoPass]
    /\ rescan' = [g \in Goroutines |-> NoJob]
    /\ outcome' = "none"
    /\ UNCHANGED <<cveRev, applied, requested, stamp>>

----------------------------------------------------------------------------
WriterStep(w) ==
    \/ HandleCveDbImport(w) \/ HandleTrivyDBUpload(w)
    \/ ApplySecurityDBBundle(w) \/ BundleTrivyLoaded(w) \/ BundleTrivyFails(w)
    \/ UpdateNowWithReason(w) \/ SyncSucceeds(w) \/ SyncFails(w)
    \/ SecurityDatabaseUpdated(w)

PassStep(g) == RunStep(g) \/ StepFails(g) \/ FinishPass(g) \/ StopOrGoOn(g)

RescanStep(q) == RescanReadsRevision(q) \/ QueueSecurityDBRescans(q) \/ RescanFails(q)

Next ==
    \/ \E w \in Writers : WriterStep(w)
    \/ ImportDeferred
    \/ HandleSecurityDbRecalculate
    \/ \E g \in Goroutines : PassStep(g) \/ RescanStep(g)
    \/ ClaimRescan
    \/ ServerCrash

Spec == Init /\ [][Next]_vars

----------------------------------------------------------------------------
(* Safety.                                                                 *)

Active(g) == worker[g].step # 0

\* docs/architecture.md:164, "a serialized background worker": no two passes
\* overlap, and the flag that keeps them apart is never left set without a
\* worker, which would end all recalculation until a restart.
OnePassAtATime ==
    /\ \A g, h \in Goroutines : Active(g) /\ Active(h) => g = h
    /\ running <=> \E g \in Goroutines : Active(g)
    /\ pending => running

\* A pass audited as ok has recomputed everything from the database it names
\* or a newer one, whatever failed in the passes before it.
OkPassIsComplete ==
    \A g \in Goroutines :
        worker[g].step >= AfterSteps /\ ~worker[g].failed
            => \A s \in StepNames : applied[s] >= worker[g].read

\* No request for a recalculation is lost between a worker that is about to
\* stop and a caller that finds it running: when none is running and the last
\* pass was ok, everything reflects the database of the last request.
NoRequestLost ==
    ~running /\ outcome = "ok" => \A s \in StepNames : applied[s] >= requested

\* All of the above as one promise to the callers: Recalculation, with a state
\* of its variables for every state of the worker.
Reflected == {r \in Revisions : \A s \in StepNames : applied[s] >= r}

Promised == INSTANCE Recalculation WITH
                db <- cveRev, asked <- requested, reflected <- Reflected,
                busy <- running, clean <- (~running /\ outcome = "ok")

\* However callers, passes, failures and crashes interleave, the worker under
\* its lock behaves like that (api/cvedb.go:1236-1271).
PromiseKept == Promised!Spec

----------------------------------------------------------------------------
(* Liveness.  A writer that has committed goes on to its notification, and *)
(* goroutines are scheduled; how often anybody writes is left open.        *)

Fairness ==
    /\ \A w \in Writers : WF_vars(BundleTrivyLoaded(w) \/ BundleTrivyFails(w)
                                    \/ SyncSucceeds(w) \/ SyncFails(w)
                                    \/ SecurityDatabaseUpdated(w))
    /\ \A g \in Goroutines : WF_vars(PassStep(g)) /\ WF_vars(RescanStep(g))

LiveSpec == Spec /\ Fairness

Recalculated(r) == \A s \in StepNames : applied[s] >= r

\* Every revision is followed by a pass that has recomputed everything from it
\* or a later one, however the requests and the passes fall; a failure on the
\* way is the only excuse.
EveryChangeIsRecalculated ==
    \A r \in Revisions : (cveRev = r) ~> (Recalculated(r) \/ left # MaxFaults)

\* docs/operations-runbook.md:621: a recalculation is "queued automatically
\* after a CVE DB update".  A writer that fails after it has committed CVEs is
\* no excuse.
EveryCommitIsRecalculated == \A r \in Revisions : (cveRev = r) ~> Recalculated(r)

\* Every pass that starts or is left pending ends with the agents being asked
\* to rescan at the revision it started from or a later one, unless something
\* fails.
RescansFollow ==
    \A r \in 1..MaxRevision :
        (cveRev = r /\ (pending \/ \E g \in Goroutines : worker[g].step = 1))
            ~> (stamp >= r \/ left # MaxFaults)
=============================================================================

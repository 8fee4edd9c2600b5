----------------------------- MODULE SyncManager -----------------------------
(***************************************************************************)
(* The manager of the security database's source sync (internal/server/    *)
(* secdb/manager.go): the periodic loop with its retries, and the syncs    *)
(* that administrators start beside it.                                    *)
(*                                                                         *)
(* Time is counted in the units of RetryBase: how long until the timer     *)
(* fires, and how long ago the last sync was.                              *)
(***************************************************************************)
EXTENDS Integers

CONSTANTS
    Interval,  \* the regular interval
    RetryBase, \* BONGSU_SECURITY_DB_RETRY_BASE_MINUTES
    RetryMax,  \* BONGSU_SECURITY_DB_RETRY_MAX_MINUTES
    MaxStreak  \* bound: failures are counted up to it

ASSUME SyncManagerAssumption ==
    /\ Interval \in Nat \ {0} /\ RetryBase \in Nat \ {0} /\ RetryMax \in Nat \ {0}
    /\ MaxStreak \in Nat \ {0}

VARIABLES
    syncing,  \* Manager.running
    call,     \* who has the flag, and how far the call is
    loop,     \* the goroutine of Start
    streak,   \* failureStreak
    status,   \* lastStatus
    since,    \* the time since lastSync (or the persisted hint), or Never
    wait,     \* the time until the timer of the loop fires
    retrying  \* history: the loop's last attempt failed

syncVars == <<syncing, call, loop, streak, status, since, wait, retrying>>

Never == -1
NoCall == [by |-> "nobody", ok |-> FALSE, pc |-> "command"]

SyncManagerTypeOK ==
    /\ syncing \in BOOLEAN /\ retrying \in BOOLEAN
    /\ call \in [by: {"nobody", "loop", "request"}, ok: BOOLEAN, pc: {"command", "hook"}]
    /\ loop \in {"waiting", "running", "schedule", "retry"}
    /\ streak \in 0..MaxStreak
    /\ status \in {"never", "running", "ok", "failed"}
    /\ since \in {Never} \cup 0..Interval
    /\ wait \in Nat

Smaller(a, b) == IF a < b THEN a ELSE b

\* scheduleNextPeriodicSync: an interval after the last sync, or now.
PeriodicWait == IF since = Never THEN Interval ELSE Interval - since

\* The server has just started: the persisted time of the last sync, if there
\* is one, is the hint.
InitSyncManager ==
    /\ syncing = FALSE /\ call = NoCall
    /\ streak = 0 /\ status = "never"
    /\ since \in {Never} \cup 0..Interval
    /\ wait = PeriodicWait /\ loop = "waiting"
    /\ retrying = FALSE

\* scheduleRetrySync: RetryBase, doubled for each failure after the first, up
\* to the smaller of RetryMax and the interval.
RetryDelay ==
    Smaller(RetryBase * 2 ^ (IF streak > 1 THEN streak - 1 ELSE 0), Smaller(RetryMax, Interval))

----------------------------------------------------------------------------
TimePasses ==
    /\ wait > 0
    /\ wait' = wait - 1
    /\ since' = IF since = Never THEN Never ELSE Smaller(since + 1, Interval)
    /\ UNCHANGED <<syncing, call, loop, streak, status, retrying>>

\* UpdateNowWithReason, the first critical section.
Takes(who) ==
    /\ ~syncing /\ syncing' = TRUE
    /\ call' = [by |-> who, ok |-> FALSE, pc |-> "command"]
    /\ status' = "running"

\* The timer fires, and no sync is running.
LoopSyncs ==
    /\ loop = "waiting" /\ wait = 0
    /\ Takes("loop")
    /\ loop' = "running"
    /\ UNCHANGED <<streak, since, wait, retrying>>

\* The timer fires during an administrator's sync: refused, and to be retried.
LoopRefused ==
    /\ loop = "waiting" /\ wait = 0
    /\ syncing
    /\ loop' = "retry"
    /\ UNCHANGED <<syncing, call, streak, status, since, wait, retrying>>

\* handleCveDbSync; while another one is running it is refused.
RequestSyncs ==
    /\ Takes("request")
    /\ UNCHANGED <<loop, streak, since, wait, retrying>>

\* The command ends, or its two hours are over.
CommandFails ==
    /\ call.by # "nobody" /\ call.pc = "command"
    /\ status' = "failed" /\ streak' = Smaller(streak + 1, MaxStreak)
    /\ call' = [call EXCEPT !.pc = "hook"]
    /\ UNCHANGED <<syncing, loop, since, wait, retrying>>

CommandSucceeds ==
    /\ call.by # "nobody" /\ call.pc = "command"
    /\ status' = "ok" /\ streak' = 0 /\ since' = 0
    /\ call' = [call EXCEPT !.pc = "hook", !.ok = TRUE]
    /\ UNCHANGED <<syncing, loop, wait, retrying>>

\* Mutant: the flag is cleared on success only.
ReturnKeepsFlag ==
    /\ call.pc = "hook"
    /\ syncing' = ~call.ok
    /\ loop' = IF call.by # "loop" THEN loop ELSE IF call.ok THEN "schedule" ELSE "retry"
    /\ call' = NoCall
    /\ UNCHANGED <<streak, status, since, wait, retrying>>

\* The hook has been called; the deferred function clears the flag.
Return ==
    /\ call.pc = "hook"
    /\ syncing' = FALSE
    /\ loop' = IF call.by # "loop" THEN loop ELSE IF call.ok THEN "schedule" ELSE "retry"
    /\ call' = NoCall
    /\ UNCHANGED <<streak, status, since, wait, retrying>>

ScheduleNextPeriodicSync ==
    /\ loop = "schedule"
    /\ wait' = PeriodicWait /\ retrying' = FALSE
    /\ loop' = "waiting"
    /\ UNCHANGED <<syncing, call, streak, status, since>>

ScheduleRetrySync ==
    /\ loop = "retry"
    /\ wait' = RetryDelay /\ retrying' = TRUE
    /\ loop' = "waiting"
    /\ UNCHANGED <<syncing, call, streak, status, since>>

NextSyncManager ==
    \/ TimePasses
    \/ LoopSyncs \/ LoopRefused \/ RequestSyncs
    \/ CommandFails \/ CommandSucceeds \/ Return
    \/ ScheduleNextPeriodicSync \/ ScheduleRetrySync

\* Time passes, the command ends within its time limit, and goroutines are
\* scheduled; requests come or not.
FairSyncManager ==
    /\ WF_syncVars(TimePasses) /\ WF_syncVars(LoopSyncs \/ LoopRefused)
    /\ WF_syncVars(CommandFails \/ CommandSucceeds) /\ WF_syncVars(Return)
    /\ WF_syncVars(ScheduleNextPeriodicSync \/ ScheduleRetrySync)

SyncManagerSpec == InitSyncManager /\ [][NextSyncManager]_syncVars /\ FairSyncManager

----------------------------------------------------------------------------
\* manager.go:99-101: after a failed sync the next one comes sooner than a full
\* interval, with a delay that never grows beyond the retry maximum, also when
\* the failure was a refusal or an administrator's sync in between changed the
\* count; and it is never further away than the interval.
RetriesAreSoon ==
    loop = "waiting" => wait <= IF retrying THEN Smaller(RetryMax, Interval) ELSE Interval

\* Whatever fails or is refused, syncs are attempted again and again.
SyncsGoOn == []<>(call.by # "nobody")
=============================================================================

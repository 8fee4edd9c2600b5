------------------------------ MODULE Scheduler ------------------------------
(***************************************************************************)
(* The scan scheduler: runSchedulerTick of internal/server/api/scheduler.go*)
(* in its single goroutine, the handlers of schedule_handlers.go, and the  *)
(* statements of db/schedule.go on the table scheduled_scans.              *)
(*                                                                         *)
(* Every database call is a step of its own.  A tick works on the rows it  *)
(* read at its start, and an update of a schedule is a read, a computation *)
(* of its next run and a write.  The clock counts minutes.                 *)
(***************************************************************************)
EXTENDS Cron, FiniteSets

CONSTANTS
    Schedules, \* the ids that schedules will get
    Hosts,     \* the registered hosts
    Admins,    \* the administrators' requests under way at once
    Hour,      \* the minutes until a schedule without a next time is tried again
    MaxClock,  \* bound: the time goes on while it is below
    MaxEdits,  \* bound: how many updates and deletions
    MaxFaults  \* bound: how many database calls fail or ticks run out of time

ASSUME SchedulerAssumption ==
    /\ Hour \in Nat \ {0}
    /\ MaxClock \in Nat /\ MaxEdits \in Nat /\ MaxFaults \in Nat

VARIABLES
    now,     \* the clock
    rows,    \* the table scheduled_scans
    tick,    \* the tick under way
    edit,    \* per administrator, the update under way
    queued,  \* history: the scan requests created
    twice,   \* history: those that were created once more
    dropped, \* history: those whose INSERT failed, or whose host was not listed
    edited,  \* history: the schedules that were updated or deleted
    blurred, \* history: the schedules whose run times were not recorded, or
             \* not those of their expression: a failing UPDATE, or a tick and
             \* an update that overlapped
    left     \* how many more edits and faults

history == <<queued, twice, dropped, edited, blurred>>
vars == <<now, rows, tick, edit, history, left>>

Times   == DOMAIN Calendar
Filters == SUBSET Hosts  \* the hosts that host_filter selects; without one, all of them

Row == [status: {"none", "present", "deleted"}, enabled: BOOLEAN,
        expr: Expressions, filter: Filters, last: Times \cup {Never}, next: Times]
Job == [sched: Schedules, expr: Expressions, filter: Filters, due: Times]
Scan == [sched: Schedules, host: Hosts, due: Times, expr: Expressions]

NoRow == [status |-> "none", enabled |-> FALSE, expr |-> CHOOSE e \in Expressions : TRUE,
          filter |-> {}, last |-> Never, next |-> 0]

TypeOK ==
    /\ now \in 0..MaxClock
    /\ rows \in [Schedules -> Row]
    /\ tick \in [at: Times, due: SUBSET Job, job: SUBSET Job, hosts: SUBSET Hosts,
                 expired: BOOLEAN]
    /\ Cardinality(tick.job) <= 1
    /\ edit \in [Admins -> [pc: {"idle", "read", "computed"}, sched: Schedules, row: Row]]
    /\ queued \subseteq Scan /\ twice \subseteq queued /\ dropped \subseteq Scan
    /\ edited \subseteq Schedules /\ blurred \subseteq Schedules
    /\ left \in [edits: Nat, faults: Nat]

NoTick == [at |-> 0, due |-> {}, job |-> {}, hosts |-> {}, expired |-> FALSE]
NoEdit == [pc |-> "idle", sched |-> CHOOSE s \in Schedules : TRUE, row |-> NoRow]

Init ==
    /\ now = 0
    /\ rows = [s \in Schedules |-> NoRow]
    /\ tick = NoTick
    /\ edit = [a \in Admins |-> NoEdit]
    /\ queued = {} /\ twice = {} /\ dropped = {} /\ edited = {} /\ blurred = {}
    /\ left = [edits |-> MaxEdits, faults |-> MaxFaults]

Fault == left.faults > 0 /\ left' = [left EXCEPT !.faults = @ - 1]
Edit  == left.edits > 0 /\ left' = [left EXCEPT !.edits = @ - 1]

TimePasses ==
    /\ now < MaxClock
    /\ now' = now + 1
    /\ UNCHANGED <<rows, tick, edit, history, left>>

----------------------------------------------------------------------------
(* runSchedulerTick.                                                       *)

\* GetDueScheduledScans.
DueAt(t) ==
    {[sched |-> s, expr |-> rows[s].expr, filter |-> rows[s].filter, due |-> rows[s].next] :
        s \in {r \in Schedules : /\ rows[r].status = "present" /\ rows[r].enabled
                                 /\ rows[r].next <= t}}

\* The ticks follow one another in one goroutine.
StartTick ==
    /\ tick.due = {} /\ tick.job = {}
    /\ DueAt(now) # {}
    /\ tick' = [NoTick EXCEPT !.at = now, !.due = DueAt(now)]
    /\ UNCHANGED <<now, rows, edit, history, left>>

First(j) == j \in tick.due /\ \A k \in tick.due : j.due <= k.due

\* The request a schedule's job makes for a host.
ScanOf(j, h) == [sched |-> j.sched, host |-> h, due |-> j.due, expr |-> j.expr]

\* expandHostFilter succeeds.
ExpandHostFilter(j) ==
    /\ First(j) /\ tick.job = {} /\ ~tick.expired
    /\ tick' = [tick EXCEPT !.due = @ \ {j}, !.job = {j}, !.hosts = j.filter]
    /\ UNCHANGED <<now, rows, edit, history, left>>

\* The next run after this tick; an hour from now when there is none.
NextRun(j) ==
    LET next == ComputeNextRun(j.expr, tick.at)
    IN  IF next = Never THEN tick.at + Hour ELSE next

\* Mutant: a schedule whose hosts could not be listed is moved on all the same.
ExpandHostFilterSkips(j) ==
    /\ First(j) /\ tick.job = {}
    /\ IF tick.expired THEN UNCHANGED left ELSE Fault
    /\ tick' = [tick EXCEPT !.due = @ \ {j}]
    /\ rows' = [rows EXCEPT ![j.sched].next = NextRun(j)]
    /\ UNCHANGED <<now, edit, history>>

\* ListHosts fails: the schedule stays due.
ExpandHostFilterFails(j) ==
    /\ First(j) /\ tick.job = {}
    /\ IF tick.expired THEN UNCHANGED left ELSE Fault
    /\ tick' = [tick EXCEPT !.due = @ \ {j}]
    /\ UNCHANGED <<now, rows, edit, history>>

\* ListHosts does not ask rows.Err(): a result that breaks off looks complete.
\* The hosts it did not get to are left out of this run.
ListHostsBreaksOff(j) ==
    /\ First(j) /\ tick.job = {} /\ ~tick.expired
    /\ Fault
    /\ \E S \in SUBSET Hosts :
          /\ tick' = [tick EXCEPT !.due = @ \ {j}, !.job = {j}, !.hosts = j.filter \cap S]
          /\ dropped' = dropped \cup {ScanOf(j, h) : h \in j.filter \ S}
    /\ UNCHANGED <<now, rows, edit, queued, twice, edited, blurred>>

\* Scans of the same host for the same occurrence.
SameRun(q, r) == q.sched = r.sched /\ q.host = r.host /\ q.due = r.due

CreateScanRequest(j, h) ==
    /\ j \in tick.job /\ h \in tick.hosts /\ ~tick.expired
    /\ tick' = [tick EXCEPT !.hosts = @ \ {h}]
    /\ queued' = queued \cup {ScanOf(j, h)}
    /\ twice' = twice \cup {q \in queued : SameRun(q, ScanOf(j, h))}
    /\ UNCHANGED <<now, rows, edit, dropped, edited, blurred, left>>

\* A failing INSERT is logged; the other hosts are served.
CreateScanRequestFails(j, h) ==
    /\ j \in tick.job /\ h \in tick.hosts
    /\ IF tick.expired THEN UNCHANGED left ELSE Fault
    /\ tick' = [tick EXCEPT !.hosts = @ \ {h}]
    /\ dropped' = dropped \cup {ScanOf(j, h)}
    /\ UNCHANGED <<now, rows, edit, queued, twice, edited, blurred>>

\* Mutant: the run is recorded, the next one is not.
RecordLastRunOnly(j) ==
    /\ j \in tick.job /\ tick.hosts = {} /\ ~tick.expired
    /\ tick' = [tick EXCEPT !.job = {}]
    /\ rows' = [rows EXCEPT ![j.sched].last = tick.at]
    /\ UNCHANGED <<now, edit, queued, twice, dropped, edited, blurred, left>>

\* The UPDATE finds the schedule by its id, whatever has become of it.
UpdateScheduledScanRunTimes(j) ==
    /\ j \in tick.job /\ tick.hosts = {} /\ ~tick.expired
    /\ tick' = [tick EXCEPT !.job = {}]
    /\ rows' = IF rows[j.sched].status = "present"
               THEN [rows EXCEPT ![j.sched].last = tick.at, ![j.sched].next = NextRun(j)]
               ELSE rows
    /\ blurred' = IF rows[j.sched].expr = j.expr THEN blurred ELSE blurred \cup {j.sched}
    /\ UNCHANGED <<now, edit, queued, twice, dropped, edited, left>>

UpdateScheduledScanRunTimesFails(j) ==
    /\ j \in tick.job /\ tick.hosts = {}
    /\ IF tick.expired THEN UNCHANGED left ELSE Fault
    /\ tick' = [tick EXCEPT !.job = {}]
    /\ blurred' = blurred \cup {j.sched}
    /\ UNCHANGED <<now, rows, edit, queued, twice, dropped, edited>>

\* The 30 seconds of the tick's context are over: every further call fails.
TickExpires ==
    /\ tick.due # {} \/ tick.job # {}
    /\ ~tick.expired
    /\ Fault
    /\ tick' = [tick EXCEPT !.expired = TRUE]
    /\ UNCHANGED <<now, rows, edit, history>>

----------------------------------------------------------------------------
(* The administrators.                                                     *)

\* An expression without a next run within MaxIter minutes is refused.
HandleCreateScheduledScan(s, expr, filter) ==
    /\ rows[s].status = "none"
    /\ ComputeNextRun(expr, now) # Never
    /\ rows' = [rows EXCEPT ![s] =
                  [status |-> "present", enabled |-> TRUE, expr |-> expr, filter |-> filter,
                   last |-> Never, next |-> ComputeNextRun(expr, now)]]
    /\ UNCHANGED <<now, tick, edit, history, left>>

\* handleUpdateScheduledScan: GetScheduledScan.
HandleUpdateReads(a, s) ==
    /\ edit[a].pc = "idle" /\ rows[s].status = "present"
    /\ Edit
    /\ edit' = [edit EXCEPT ![a] = [pc |-> "read", sched |-> s, row |-> rows[s]]]
    /\ UNCHANGED <<now, rows, tick, history>>

\* The new values, and the next run from time.Now(); an expression without one
\* is refused.
HandleUpdateComputes(a, expr, enabled) ==
    /\ edit[a].pc = "read"
    /\ LET next == ComputeNextRun(expr, now)
       IN  edit' = [edit EXCEPT ![a] =
               IF next = Never THEN NoEdit
               ELSE [@ EXCEPT !.pc = "computed", !.row.expr = expr,
                              !.row.enabled = enabled, !.row.next = next]]
    /\ UNCHANGED <<now, rows, tick, history, left>>

\* Mutant: the next run is left as it was.
UpdateKeepsNextRun(a) ==
    LET s == edit[a].sched
    IN  /\ edit[a].pc = "computed"
        /\ edit' = [edit EXCEPT ![a] = NoEdit]
        /\ rows' = [rows EXCEPT ![s].expr = edit[a].row.expr]
        /\ UNCHANGED <<now, tick, history, left>>

\* UpdateScheduledScan writes every column but last_run; no row, an error.
HandleUpdateWrites(a) ==
    LET s == edit[a].sched
    IN  /\ edit[a].pc = "computed"
        /\ edit' = [edit EXCEPT ![a] = NoEdit]
        /\ IF rows[s].status = "present"
           THEN /\ rows' = [rows EXCEPT ![s] = [edit[a].row EXCEPT !.last = rows[s].last]]
                /\ edited' = edited \cup {s}
                /\ blurred' = IF rows[s].last = edit[a].row.last
                              THEN blurred ELSE blurred \cup {s}
           ELSE UNCHANGED <<rows, edited, blurred>>
        /\ UNCHANGED <<now, tick, queued, twice, dropped, left>>

HandleDeleteScheduledScan(s) ==
    /\ rows[s].status = "present"
    /\ Edit
    /\ rows' = [rows EXCEPT ![s].status = "deleted"]
    /\ edited' = edited \cup {s}
    /\ UNCHANGED <<now, tick, edit, queued, twice, dropped, blurred>>

----------------------------------------------------------------------------
TickStep ==
    \/ StartTick
    \/ \E j \in tick.due : ExpandHostFilter(j) \/ ListHostsBreaksOff(j) \/ ExpandHostFilterFails(j)
    \/ \E j \in tick.job :
          \/ \E h \in tick.hosts : CreateScanRequest(j, h) \/ CreateScanRequestFails(j, h)
          \/ UpdateScheduledScanRunTimes(j) \/ UpdateScheduledScanRunTimesFails(j)

AdminStep ==
    \/ \E s \in Schedules, expr \in Expressions, filter \in Filters :
          HandleCreateScheduledScan(s, expr, filter)
    \/ \E a \in Admins, s \in Schedules : HandleUpdateReads(a, s)
    \/ \E a \in Admins, expr \in Expressions, enabled \in BOOLEAN :
          HandleUpdateComputes(a, expr, enabled)
    \/ \E a \in Admins : HandleUpdateWrites(a)
    \/ \E s \in Schedules : HandleDeleteScheduledScan(s)

Next == TimePasses \/ TickStep \/ TickExpires \/ AdminStep

\* The ticks go on; a call that fails is not for ever.
Spec == Init /\ [][Next]_vars /\ WF_vars(TickStep)

----------------------------------------------------------------------------
(* Properties.                                                             *)

\* A schedule scans a host once for every time that was due, although the tick
\* works on old rows and its requests and its UPDATE are not one transaction.
OncePerOccurrence == \A q \in twice : q.sched \in blurred

\* Every scan of a schedule is for a minute its cron expression names.
ScansAreDue == \A q \in queued : q.due \in Occurrences[q.expr] \/ q.sched \in blurred

Served(s, h, d) == \E q \in queued \cup dropped : q.sched = s /\ q.host = h /\ q.due = d

\* An enabled schedule whose time has come is run for every host it names,
\* in spite of ticks that fail or run out of time in the middle, unless an
\* administrator changes it, or the host's own INSERT or listing fails.
DueSchedulesRun ==
    \A s \in Schedules, h \in Hosts, d \in 1..MaxClock :
        (/\ rows[s].status = "present" /\ rows[s].enabled
         /\ rows[s].next = d /\ d <= now /\ h \in rows[s].filter)
            ~> (Served(s, h, d) \/ s \in edited)
=============================================================================

--------------------------- MODULE SchedulerProofs ---------------------------
(***************************************************************************)
(* Proofs about Scheduler, for any calendar, expressions, schedules, hosts *)
(* and administrators, and any budget of edits and faults: no host is      *)
(* scanned twice for an occurrence, and, when the search for the next      *)
(* occurrence does not give up, every scan is for one.  Both but for the   *)
(* schedules whose run times were not recorded, or raced with an update.   *)
(***************************************************************************)
EXTENDS Scheduler, FiniteSetTheorems, WellFoundedInduction, TLAPS

USE SchedulerAssumption

----------------------------------------------------------------------------
(* The next run.                                                           *)

\* A set of natural numbers that is not empty has a smallest element.
LEMMA SmallestIn ==
  ASSUME NEW S \in SUBSET Nat, S # {}
  PROVE  \E m \in S : \A k \in S : m <= k
  <1> DEFINE Below(k) == 0..(k - 1)
             T == {Below(k) : k \in S}
  <1>1. T \subseteq FiniteSubsetsOf(Nat)
    <2> SUFFICES ASSUME NEW k \in S PROVE Below(k) \in FiniteSubsetsOf(Nat)
      OBVIOUS
    <2>1. IsFiniteSet(Below(k)) BY FS_Interval
    <2> QED BY <2>1 DEF FiniteSubsetsOf
  <1>2. PICK x \in T : \A y \in T : <<y, x>> \notin StrictSubsetOrdering(Nat)
    <2>1. T # {}
      OBVIOUS
    <2>2. IsWellFoundedOn(StrictSubsetOrdering(Nat), FiniteSubsetsOf(Nat))
      BY FS_StrictSubsetOrderingWellFounded
    <2> HIDE DEF T
    <2> QED BY <1>1, <2>1, <2>2, WFMin
  <1>3. PICK m \in S : x = Below(m)
    OBVIOUS
  <1>4. ASSUME NEW k \in S PROVE m <= k
    <2>1. <<Below(k), Below(m)>> \notin StrictSubsetOrdering(Nat)
      BY <1>2, <1>3
    <2>2. CASE k < m
      <3>1. k \in Below(m) /\ k \notin Below(k) /\ Below(k) \subseteq Below(m)
        BY <2>2
      <3>2. Below(k) \in SUBSET Nat /\ Below(m) \in SUBSET Nat
        OBVIOUS
      <3> QED BY <2>1, <3>1, <3>2 DEF StrictSubsetOrdering
    <2> QED BY <2>2
  <1> QED BY <1>4

\* nextCronTime finds an occurrence later than the given minute, or none.
LEMMA NextRunIsLater ==
  ASSUME NEW e \in Expressions, NEW t \in Nat
  PROVE  \/ ComputeNextRun(e, t) = Never
         \/ /\ ComputeNextRun(e, t) \in Occurrences[e]
            /\ ComputeNextRun(e, t) \in Nat /\ ComputeNextRun(e, t) > t
  <1>1. PICK hits : hits = {u \in Occurrences[e] : t < u /\ u <= t + MaxIter}
    OBVIOUS
  <1>2. Occurrences[e] \in SUBSET Nat
    BY CronAssumption DEF Occurrences
  <1>3. hits \subseteq Occurrences[e] /\ hits \in SUBSET Nat /\ \A u \in hits : u > t
    BY <1>1, <1>2
  <1>4. CASE hits = {}
    BY <1>1, <1>4 DEF ComputeNextRun
  <1>5. CASE hits # {}
    <2>1. \E u \in hits : \A v \in hits : u <= v
      BY <1>3, <1>5, SmallestIn
    <2>2. ComputeNextRun(e, t) = CHOOSE u \in hits : \A v \in hits : u <= v
      BY <1>1, <1>5 DEF ComputeNextRun
    <2>3. ComputeNextRun(e, t) \in hits
      BY <2>1, <2>2
    <2>4. QED
      BY <1>3, <2>3
  <1>6. QED
    BY <1>4, <1>5

----------------------------------------------------------------------------
(* The types, as far as they go: a schedule without a next occurrence gets  *)
(* a next time that may lie beyond the calendar, and the row of an id not   *)
(* in use has an expression that need not be one.                           *)

Exprs  == Expressions \cup {NoRow.expr}
SomeRow == [status: {"none", "present", "deleted"}, enabled: BOOLEAN, expr: Exprs,
            filter: Filters, last: Int, next: Nat]
SomeJob == [sched: Schedules, expr: Expressions, filter: Filters, due: Nat]
SomeScan == [sched: Schedules, host: Hosts, due: Nat, expr: Expressions]
Tick == [at: Nat, due: SUBSET SomeJob, job: SUBSET SomeJob, hosts: SUBSET Hosts,
         expired: BOOLEAN]
AnEdit == [pc: {"idle", "read", "computed"}, sched: Schedules \cup {NoEdit.sched}, row: SomeRow]

Types ==
    /\ now \in 0..MaxClock
    /\ rows \in [Schedules -> SomeRow]
    /\ tick \in Tick
    /\ edit \in [Admins -> AnEdit]
    /\ queued \in SUBSET SomeScan

\* The jobs of the tick under way.
Underway == tick.due \cup tick.job

\* A schedule never ran in the future, and runs next later than it last did.
RowsInv ==
    \A s \in Schedules :
        /\ rows[s].last <= now
        /\ rows[s].status # "none" => rows[s].expr \in Expressions
        /\ rows[s].status = "present" /\ s \notin blurred => rows[s].next > rows[s].last

\* The tick has one job per schedule, for a time that had come and that the
\* schedule has not been run for.
TickInv ==
    /\ tick.at <= now
    /\ \A j \in Underway :
          /\ rows[j.sched].status # "none"
          /\ j.due <= tick.at
          /\ j.sched \notin blurred => j.due > rows[j.sched].last
    /\ \A j, k \in Underway : j.sched = k.sched => j = k
    /\ tick.due \cap tick.job = {}
    /\ \A j, k \in tick.job : j = k

\* An update carries a row that was read, and a next run later than its last.
EditInv ==
    \A a \in Admins : edit[a].pc # "idle" =>
        /\ edit[a].sched \in Schedules
        /\ edit[a].row.status = "present"
        /\ edit[a].row.expr \in Expressions
        /\ edit[a].row.last <= now
        /\ edit[a].pc = "computed" => edit[a].row.next > edit[a].row.last

\* A request is for a time that is behind its schedule, or for the job in
\* hand, which is done with its host; or its schedule is gone for good.
Settled(q) ==
    \/ q.due <= rows[q.sched].last
    \/ \E j \in tick.job : j.sched = q.sched /\ j.due = q.due /\ q.host \notin tick.hosts
    \/ rows[q.sched].status = "deleted" /\ \A j \in Underway : j.sched # q.sched

QueuedInv ==
    \A q \in queued :
        /\ rows[q.sched].status # "none"
        /\ q.sched \notin blurred => Settled(q)

OnceInv ==
    /\ Types /\ RowsInv /\ TickInv /\ EditInv /\ QueuedInv
    /\ OncePerOccurrence

\* Steps that leave the tick, the rows and the requests alone.
LEMMA OnceFrame ==
  ASSUME OnceInv, UNCHANGED <<rows, tick, queued, twice, blurred>>,
         now' \in 0..MaxClock, now <= now', edit' \in [Admins -> AnEdit], EditInv'
  PROVE  OnceInv'
  <1>1. Types'
    BY DEF OnceInv, Types
  <1>2. now \in Nat /\ now' \in Nat /\ tick.at \in Nat /\ \A s \in Schedules : rows[s].last \in Int
    BY DEF OnceInv, Types, Tick, SomeRow
  <1>3. RowsInv'
    BY <1>2 DEF OnceInv, RowsInv
  <1>4. TickInv'
    BY <1>2 DEF OnceInv, TickInv, Underway
  <1>5. QueuedInv' /\ OncePerOccurrence'
    BY DEF OnceInv, QueuedInv, OncePerOccurrence, Settled, Underway
  <1>6. QED
    BY <1>1, <1>3, <1>4, <1>5 DEF OnceInv

\* Steps of the tick that leave the rows alone, take up no job that was not
\* under way, and put none aside whose hosts were not all dealt with.
LEMMA TickFrame ==
  ASSUME OnceInv, UNCHANGED <<now, rows, edit, queued, twice, blurred>>,
         tick' \in Tick, tick'.at = tick.at,
         Underway' \subseteq Underway,
         tick'.due \cap tick'.job = {},
         \A j, k \in tick'.job : j = k,
         \A j \in tick.job : j \in tick'.job /\ tick'.hosts \subseteq tick.hosts
  PROVE  OnceInv'
  <1>1. Types' /\ EditInv' /\ RowsInv' /\ OncePerOccurrence'
    BY DEF OnceInv, Types, EditInv, RowsInv, OncePerOccurrence
  <1>2. TickInv'
    BY DEF OnceInv, TickInv
  <1>3. QueuedInv'
    <2> SUFFICES ASSUME NEW q \in queued, q.sched \notin blurred
                 PROVE  Settled(q)'
      BY DEF OnceInv, QueuedInv
    <2>1. Settled(q)
      BY DEF OnceInv, QueuedInv
    <2>2. QED
      BY <2>1 DEF Settled
  <1>4. QED
    BY <1>1, <1>2, <1>3 DEF OnceInv

\* The tick reads the schedules that are due.
LEMMA StartKeeps ==
  ASSUME OnceInv, StartTick
  PROVE  OnceInv'
  <1>t. now \in Nat /\ \A s \in Schedules : rows[s] \in SomeRow
    BY DEF OnceInv, Types
  <1>0. tick.due = {} /\ tick.job = {} /\ UNCHANGED <<now, rows, edit, queued, twice, blurred>>
    BY DEF StartTick, history
  <1>1. PICK D : D = DueAt(now)
    OBVIOUS
  <1>2. ASSUME NEW j \in D
        PROVE  /\ j \in SomeJob /\ j.due = rows[j.sched].next /\ j.due <= now
               /\ rows[j.sched].status = "present" /\ j.sched \in Schedules
               /\ j = [sched |-> j.sched, expr |-> rows[j.sched].expr,
                       filter |-> rows[j.sched].filter, due |-> rows[j.sched].next]
    <2>1. PICK s \in Schedules :
             /\ rows[s].status = "present" /\ rows[s].next <= now
             /\ j = [sched |-> s, expr |-> rows[s].expr, filter |-> rows[s].filter,
                     due |-> rows[s].next]
      BY <1>1 DEF DueAt
    <2>2. rows[s].expr \in Expressions /\ rows[s].filter \in Filters /\ rows[s].next \in Nat
      BY <1>t, <2>1 DEF OnceInv, RowsInv, SomeRow
    <2>3. j \in SomeJob /\ j.sched = s
      BY <2>1, <2>2 DEF SomeJob
    <2>4. QED
      BY <2>1, <2>3
  <1>3. /\ tick' = [at |-> now, due |-> D, job |-> {}, hosts |-> {}, expired |-> FALSE]
    BY <1>1 DEF StartTick, NoTick
  <1>4. /\ tick' \in Tick /\ tick'.at = now /\ tick'.due = D /\ tick'.job = {} /\ Underway' = D
    BY <1>t, <1>2, <1>3 DEF Tick, Underway
  <1>5. Types' /\ EditInv' /\ RowsInv' /\ OncePerOccurrence'
    BY <1>0, <1>4 DEF OnceInv, Types, EditInv, RowsInv, OncePerOccurrence
  <1>6. TickInv'
    <2>1. ASSUME NEW j \in D
          PROVE  /\ rows[j.sched].status # "none" /\ j.due <= now
                 /\ j.sched \notin blurred => j.due > rows[j.sched].last
      BY <1>2 DEF OnceInv, RowsInv
    <2>2. ASSUME NEW j \in D, NEW k \in D, j.sched = k.sched PROVE j = k
      BY <1>2, <2>2
    <2>3. QED
      BY <1>0, <1>4, <1>t, <2>1, <2>2 DEF TickInv
  <1>7. QueuedInv'
    <2> SUFFICES ASSUME NEW q \in queued, q.sched \notin blurred
                 PROVE  Settled(q)'
      BY <1>0 DEF OnceInv, QueuedInv
    <2>1. Settled(q)
      BY DEF OnceInv, QueuedInv
    <2>2. CASE q.due <= rows[q.sched].last
      BY <1>0, <2>2 DEF Settled
    <2>3. CASE rows[q.sched].status = "deleted"
      <3>1. \A j \in D : j.sched # q.sched
        BY <1>2, <2>3
      <3>2. QED
        BY <1>0, <1>4, <2>3, <3>1 DEF Settled
    <2>4. QED
      BY <1>0, <2>1, <2>2, <2>3 DEF Settled
  <1>8. QED
    BY <1>5, <1>6, <1>7 DEF OnceInv

\* A job is taken up, with some of its hosts.
LEMMA TakeUpKeeps ==
  ASSUME OnceInv, NEW j \in tick.due, tick.job = {}, NEW H \in SUBSET Hosts,
         tick' = [tick EXCEPT !.due = tick.due \ {j}, !.job = {j}, !.hosts = H],
         UNCHANGED <<now, rows, edit, queued, twice, blurred>>
  PROVE  OnceInv'
  <1>0. tick \in Tick /\ j \in SomeJob
    BY DEF OnceInv, Types, Tick
  <1>1. /\ tick' \in Tick /\ tick'.at = tick.at /\ tick'.due = tick.due \ {j}
        /\ tick'.job = {j} /\ tick'.hosts = H
    BY <1>0 DEF Tick
  <1>2. Underway' = Underway
    BY <1>1 DEF Underway
  <1>3. QED
    BY <1>1, <1>2, TickFrame

\* A job is left for a later tick.
LEMMA PutOffKeeps ==
  ASSUME OnceInv, NEW j \in tick.due, tick.job = {},
         tick' = [tick EXCEPT !.due = tick.due \ {j}],
         UNCHANGED <<now, rows, edit, queued, twice, blurred>>
  PROVE  OnceInv'
  <1>0. tick \in Tick
    BY DEF OnceInv, Types
  <1>1. /\ tick' \in Tick /\ tick'.at = tick.at /\ tick'.due = tick.due \ {j}
        /\ tick'.job = {}
    BY <1>0 DEF Tick
  <1>2. Underway' \subseteq Underway
    BY <1>1 DEF Underway
  <1>3. QED
    BY <1>1, <1>2, TickFrame

\* A request is created: the host was not done with for this job, and every
\* older request of the schedule is for an earlier time.
LEMMA RequestKeeps ==
  ASSUME OnceInv, NEW j \in tick.job, NEW h \in tick.hosts, CreateScanRequest(j, h)
  PROVE  OnceInv'
  <1>0. /\ tick \in Tick /\ j \in SomeJob /\ h \in Hosts /\ j \in Underway
        /\ j.sched \in Schedules
    BY DEF OnceInv, Types, Tick, Underway, SomeJob
  <1>1. tick' = [tick EXCEPT !.hosts = tick.hosts \ {h}]
          /\ UNCHANGED <<now, rows, edit, blurred>>
    BY DEF CreateScanRequest
  <1>2. /\ tick' \in Tick /\ tick'.at = tick.at /\ tick'.due = tick.due
        /\ tick'.job = tick.job /\ tick'.hosts = tick.hosts \ {h}
    BY <1>0, <1>1 DEF Tick
  <1>3. Underway' = Underway
    BY <1>2 DEF Underway
  <1>4. PICK n : n = ScanOf(j, h)
    OBVIOUS
  <1>5. n \in SomeScan /\ n.sched = j.sched /\ n.host = h /\ n.due = j.due
    BY <1>0, <1>4 DEF ScanOf, SomeScan, SomeJob
  <1>6. /\ queued' = queued \cup {n}
        /\ twice' = twice \cup {q \in queued : SameRun(q, n)}
    BY <1>4 DEF CreateScanRequest
  <1>7. Types' /\ EditInv' /\ RowsInv'
    BY <1>1, <1>2, <1>5, <1>6 DEF OnceInv, Types, EditInv, RowsInv
  <1>8. TickInv'
    BY <1>1, <1>2, <1>3 DEF OnceInv, TickInv
  <1>9. QueuedInv'
    <2> SUFFICES ASSUME NEW q \in queued'
                 PROVE  /\ rows[q.sched].status # "none"
                        /\ q.sched \notin blurred => Settled(q)'
      BY <1>1 DEF QueuedInv
    <2>1. CASE q = n
      <3>1. rows[q.sched].status # "none"
        BY <1>0, <1>5, <2>1 DEF OnceInv, TickInv
      <3>2. Settled(q)'
        BY <1>2, <1>5, <2>1 DEF Settled
      <3>3. QED
        BY <3>1, <3>2
    <2>2. CASE q # n
      <3>1. q \in queued
        BY <1>6, <2>2
      <3>2. rows[q.sched].status # "none" /\ (q.sched \notin blurred => Settled(q))
        BY <3>1 DEF OnceInv, QueuedInv
      <3>3. Settled(q) => Settled(q)'
        BY <1>1, <1>2, <1>3 DEF Settled
      <3>4. QED
        BY <3>2, <3>3
    <2>3. QED
      BY <2>1, <2>2
  <1>10. ASSUME NEW q \in queued, SameRun(q, n), q.sched \notin blurred PROVE FALSE
    <2>1. q.sched = j.sched /\ q.host = h /\ q.due = j.due
      BY <1>5, <1>10 DEF SameRun
    <2>2. Settled(q)
      BY <1>10 DEF OnceInv, QueuedInv
    <2>3. j.due > rows[j.sched].last /\ j.due \in Nat /\ rows[j.sched].last \in Int
      BY <1>0, <1>10, <2>1 DEF OnceInv, TickInv, SomeJob, Types, SomeRow
    <2>4. ~(q.due <= rows[q.sched].last)
      BY <2>1, <2>3
    <2>5. q.host \in tick.hosts
      BY <2>1
    <2>6. QED
      BY <1>0, <2>1, <2>2, <2>4, <2>5 DEF Settled
  <1>11. OncePerOccurrence'
    BY <1>1, <1>6, <1>10 DEF OnceInv, OncePerOccurrence
  <1>12. QED
    BY <1>7, <1>8, <1>9, <1>11 DEF OnceInv

\* A job is over: its schedule goes on as row r, or is deleted or blurred.
LEMMA FinishKeeps ==
  ASSUME OnceInv, NEW j \in tick.job, tick' = [tick EXCEPT !.job = {}],
         UNCHANGED <<now, edit, queued, twice>>,
         blurred \subseteq blurred', NEW r \in SomeRow,
         rows' = [rows EXCEPT ![j.sched] = r],
         r.status = rows[j.sched].status, r.expr = rows[j.sched].expr,
         r.last <= now,
         j.sched \notin blurred' /\ r.status = "present" =>
             r.next > r.last /\ r.last >= tick.at,
         r.status # "present" => r.last = rows[j.sched].last
  PROVE  OnceInv'
  <1>0. /\ tick \in Tick /\ j \in SomeJob /\ j \in Underway /\ j.sched \in Schedules
        /\ rows \in [Schedules -> SomeRow] /\ rows[j.sched] \in SomeRow
        /\ tick.at \in Nat /\ now \in Nat /\ j.due \in Nat
        /\ r.last \in Int /\ rows[j.sched].last \in Int
    BY DEF OnceInv, Types, Tick, Underway, SomeJob, SomeRow
  <1>1. /\ tick' \in Tick /\ tick'.at = tick.at /\ tick'.due = tick.due
        /\ tick'.job = {} /\ tick'.hosts = tick.hosts
    BY <1>0 DEF Tick
  <1>2. Underway' = tick.due /\ tick.due \subseteq Underway /\ j \notin tick.due
    BY <1>1 DEF Underway, OnceInv, TickInv
  <1>3. \A k \in tick.due : k.sched # j.sched
    BY <1>0, <1>2 DEF OnceInv, TickInv
  <1>4. /\ rows' \in [Schedules -> SomeRow] /\ rows'[j.sched] = r
        /\ \A s \in Schedules : s # j.sched => rows'[s] = rows[s]
    BY <1>0
  <1>5. Types' /\ EditInv' /\ OncePerOccurrence'
    BY <1>1, <1>4 DEF OnceInv, Types, EditInv, OncePerOccurrence
  <1>6. RowsInv'
    <2> SUFFICES ASSUME NEW s \in Schedules
                 PROVE  /\ rows'[s].last <= now
                        /\ rows'[s].status # "none" => rows'[s].expr \in Expressions
                        /\ rows'[s].status = "present" /\ s \notin blurred'
                              => rows'[s].next > rows'[s].last
      BY DEF RowsInv
    <2>1. CASE s = j.sched
      BY <1>0, <1>4, <2>1 DEF OnceInv, RowsInv
    <2>2. CASE s # j.sched
      BY <1>4, <2>2 DEF OnceInv, RowsInv
    <2>3. QED
      BY <2>1, <2>2
  <1>7. TickInv'
    <2>1. ASSUME NEW k \in tick.due
          PROVE  /\ rows'[k.sched].status # "none" /\ k.due <= tick.at
                 /\ k.sched \notin blurred' => k.due > rows'[k.sched].last
      <3>1. k \in SomeJob /\ k.sched \in Schedules /\ k.sched # j.sched /\ k \in Underway
        BY <1>0, <1>2, <1>3 DEF Tick, SomeJob
      <3>2. rows'[k.sched] = rows[k.sched]
        BY <1>4, <3>1
      <3>3. QED
        BY <3>1, <3>2 DEF OnceInv, TickInv
    <2>2. \A k, l \in tick.due : k.sched = l.sched => k = l
      BY <1>2 DEF OnceInv, TickInv
    <2>3. tick.at <= now
      BY DEF OnceInv, TickInv
    <2>4. QED
      BY <1>1, <1>2, <2>1, <2>2, <2>3 DEF TickInv
  <1>8. QueuedInv'
    <2> SUFFICES ASSUME NEW q \in queued
                 PROVE  /\ rows'[q.sched].status # "none"
                        /\ q.sched \notin blurred' => Settled(q)'
      BY DEF QueuedInv
    <2>0. q \in SomeScan /\ q.sched \in Schedules /\ q.due \in Nat
      BY DEF OnceInv, Types, SomeScan
    <2>1. rows[q.sched].status # "none" /\ (q.sched \notin blurred' => Settled(q))
      BY DEF OnceInv, QueuedInv
    <2>2. rows'[q.sched].status # "none"
      BY <1>4, <2>0, <2>1
    <2>3. ASSUME q.sched = j.sched, q.sched \notin blurred', Settled(q) PROVE Settled(q)'
      <3>1. j.due > rows[j.sched].last /\ j.due <= tick.at
        BY <1>0, <2>3 DEF OnceInv, TickInv
      <3>2. CASE r.status = "present"
        <4>1. r.last >= tick.at
          BY <2>3, <3>2
        <4>2. q.due <= rows[j.sched].last \/ q.due = j.due
          BY <1>0, <2>3, <3>2 DEF Settled, OnceInv, TickInv
        <4>3. q.due <= r.last
          BY <1>0, <2>0, <3>1, <4>1, <4>2
        <4>4. QED
          BY <1>4, <2>3, <4>3 DEF Settled
      <3>3. CASE r.status # "present"
        <4>1. r.status = "deleted"
          BY <2>1, <2>3, <3>3, <1>0 DEF SomeRow
        <4>2. \A k \in Underway' : k.sched # q.sched
          BY <1>2, <1>3, <2>3
        <4>3. QED
          BY <1>4, <2>3, <4>1, <4>2 DEF Settled
      <3>4. QED
        BY <3>2, <3>3
    <2>4. ASSUME q.sched # j.sched, Settled(q) PROVE Settled(q)'
      <3>1. rows'[q.sched] = rows[q.sched]
        BY <1>4, <2>0, <2>4
      <3>2. \A k \in tick.job : k.sched # q.sched
        BY <2>4 DEF OnceInv, TickInv
      <3>3. QED
        BY <1>2, <2>4, <3>1, <3>2 DEF Settled
    <2>5. QED
      BY <2>1, <2>2, <2>3, <2>4
  <1>9. QED
    BY <1>5, <1>6, <1>7, <1>8 DEF OnceInv

\* An administrator writes row r of a schedule: what it ran last stays, and
\* nothing comes back.
LEMMA RowKeeps ==
  ASSUME OnceInv, NEW s \in Schedules, NEW r \in SomeRow, rows' = [rows EXCEPT ![s] = r],
         UNCHANGED <<now, tick, queued, twice>>, blurred \subseteq blurred',
         edit' \in [Admins -> AnEdit], EditInv',
         r.status # "none", r.expr \in Expressions, r.last <= now,
         r.status = "present" /\ s \notin blurred' => r.next > r.last,
         rows[s].status # "none" => r.last = rows[s].last,
         rows[s].status # "deleted"
  PROVE  OnceInv'
  <1>0. rows \in [Schedules -> SomeRow] /\ tick \in Tick
    BY DEF OnceInv, Types
  <1>1. /\ rows' \in [Schedules -> SomeRow] /\ rows'[s] = r
        /\ \A t \in Schedules : t # s => rows'[t] = rows[t]
    BY <1>0
  <1>2. Types' /\ OncePerOccurrence'
    BY <1>1 DEF OnceInv, Types, OncePerOccurrence
  <1>3. RowsInv'
    <2> SUFFICES ASSUME NEW t \in Schedules
                 PROVE  /\ rows'[t].last <= now
                        /\ rows'[t].status # "none" => rows'[t].expr \in Expressions
                        /\ rows'[t].status = "present" /\ t \notin blurred'
                              => rows'[t].next > rows'[t].last
      BY DEF RowsInv
    <2>1. CASE t = s
      BY <1>1, <2>1
    <2>2. CASE t # s
      BY <1>1, <2>2 DEF OnceInv, RowsInv
    <2>3. QED
      BY <2>1, <2>2
  <1>4. Underway' = Underway
    BY DEF Underway
  <1>5. TickInv'
    <2>1. ASSUME NEW k \in Underway
          PROVE  /\ rows'[k.sched].status # "none" /\ k.due <= tick.at
                 /\ k.sched \notin blurred' => k.due > rows'[k.sched].last
      <3>1. k.sched \in Schedules
        BY <1>0 DEF Tick, SomeJob, Underway
      <3>2. rows[k.sched].status # "none" /\ k.due <= tick.at
              /\ (k.sched \notin blurred => k.due > rows[k.sched].last)
        BY DEF OnceInv, TickInv
      <3>3. CASE k.sched = s
        BY <1>1, <3>2, <3>3
      <3>4. CASE k.sched # s
        BY <1>1, <3>1, <3>2, <3>4
      <3>5. QED
        BY <3>3, <3>4
    <2>2. QED
      BY <1>4, <2>1 DEF OnceInv, TickInv
  <1>6. QueuedInv'
    <2> SUFFICES ASSUME NEW q \in queued
                 PROVE  /\ rows'[q.sched].status # "none"
                        /\ q.sched \notin blurred' => Settled(q)'
      BY DEF QueuedInv
    <2>0. q.sched \in Schedules
      BY DEF OnceInv, Types, SomeScan
    <2>1. rows[q.sched].status # "none" /\ (q.sched \notin blurred' => Settled(q))
      BY DEF OnceInv, QueuedInv
    <2>2. CASE q.sched = s
      <3>1. Settled(q) => Settled(q)'
        BY <1>1, <2>1, <2>2 DEF Settled
      <3>2. QED
        BY <1>1, <2>1, <2>2, <3>1
    <2>3. CASE q.sched # s
      <3>1. rows'[q.sched] = rows[q.sched]
        BY <1>1, <2>0, <2>3
      <3>2. Settled(q) => Settled(q)'
        BY <1>4, <3>1 DEF Settled
      <3>3. QED
        BY <2>1, <3>1, <3>2
    <2>4. QED
      BY <2>2, <2>3
  <1>7. QED
    BY <1>2, <1>3, <1>5, <1>6 DEF OnceInv

\* The update that administrator a has under way becomes e.
LEMMA EditMoves ==
  ASSUME OnceInv, NEW a \in Admins, NEW e \in AnEdit, edit' = [edit EXCEPT ![a] = e],
         now' = now,
         e.pc # "idle" =>
            /\ e.sched \in Schedules /\ e.row.status = "present"
            /\ e.row.expr \in Expressions /\ e.row.last <= now
            /\ e.pc = "computed" => e.row.next > e.row.last
  PROVE  edit' \in [Admins -> AnEdit] /\ EditInv'
  <1>1. /\ edit' \in [Admins -> AnEdit] /\ edit'[a] = e
        /\ \A b \in Admins : b # a => edit'[b] = edit[b]
    BY DEF OnceInv, Types
  <1>2. ASSUME NEW b \in Admins
        PROVE  edit'[b].pc # "idle" =>
                  /\ edit'[b].sched \in Schedules /\ edit'[b].row.status = "present"
                  /\ edit'[b].row.expr \in Expressions /\ edit'[b].row.last <= now
                  /\ edit'[b].pc = "computed" => edit'[b].row.next > edit'[b].row.last
    <2>1. CASE b = a
      BY <1>1, <2>1
    <2>2. CASE b # a
      BY <1>1, <2>2 DEF OnceInv, EditInv
    <2>3. QED
      BY <2>1, <2>2
  <1>3. QED
    BY <1>1, <1>2 DEF EditInv

\* The rows of ids not in use, and the updates not under way.
LEMMA NothingTypes ==
  /\ NoRow \in SomeRow /\ NoRow.status = "none" /\ NoRow.last = -1
  /\ NoEdit \in AnEdit /\ NoEdit.pc = "idle"
  <1>1. NoRow \in SomeRow /\ NoRow.status = "none" /\ NoRow.last = -1
    BY DEF NoRow, SomeRow, Exprs, Filters, Never
  <1>2. NoEdit.pc = "idle" /\ NoEdit.row = NoRow /\ NoEdit.sched \in Schedules \cup {NoEdit.sched}
    BY DEF NoEdit
  <1>3. NoEdit = [pc |-> NoEdit.pc, sched |-> NoEdit.sched, row |-> NoEdit.row]
    BY DEF NoEdit
  <1>4. QED
    BY <1>1, <1>2, <1>3 DEF AnEdit

\* Every step of the scheduler's goroutine.
LEMMA OnceTickStep ==
  ASSUME OnceInv, TickStep
  PROVE  OnceInv'
  <1>0. /\ tick \in Tick /\ tick.at \in Nat /\ now \in Nat /\ tick.at <= now
        /\ rows \in [Schedules -> SomeRow]
    BY DEF OnceInv, Types, Tick, TickInv
  <1>1. CASE StartTick
    BY <1>1, StartKeeps
  <1>2. ASSUME NEW j \in tick.due,
               ExpandHostFilter(j) \/ ListHostsBreaksOff(j) \/ ExpandHostFilterFails(j)
        PROVE  OnceInv'
    <2>0. j.filter \in SUBSET Hosts
      BY <1>0 DEF Tick, SomeJob, Filters
    <2>1. CASE ExpandHostFilter(j)
      BY <2>0, <2>1, TakeUpKeeps DEF ExpandHostFilter, history
    <2>2. CASE ListHostsBreaksOff(j)
      <3>1. PICK S \in SUBSET Hosts :
              tick' = [tick EXCEPT !.due = tick.due \ {j}, !.job = {j}, !.hosts = j.filter \cap S]
        BY <2>2 DEF ListHostsBreaksOff
      <3>2. j.filter \cap S \in SUBSET Hosts
        BY <2>0
      <3>3. tick.job = {} /\ UNCHANGED <<now, rows, edit, queued, twice, blurred>>
        BY <2>2 DEF ListHostsBreaksOff
      <3>4. QED
        BY <3>1, <3>2, <3>3, TakeUpKeeps
    <2>3. CASE ExpandHostFilterFails(j)
      BY <2>3, PutOffKeeps DEF ExpandHostFilterFails, history
    <2>4. QED
      BY <1>2, <2>1, <2>2, <2>3
  <1>3. ASSUME NEW j \in tick.job, NEW h \in tick.hosts, CreateScanRequest(j, h) PROVE OnceInv'
    BY <1>3, RequestKeeps
  <1>4. ASSUME NEW j \in tick.job, NEW h \in tick.hosts, CreateScanRequestFails(j, h)
        PROVE  OnceInv'
    <2>1. tick' = [tick EXCEPT !.hosts = tick.hosts \ {h}]
            /\ UNCHANGED <<now, rows, edit, queued, twice, blurred>>
      BY <1>4 DEF CreateScanRequestFails
    <2>2. /\ tick' \in Tick /\ tick'.at = tick.at /\ tick'.due = tick.due
          /\ tick'.job = tick.job /\ tick'.hosts = tick.hosts \ {h}
      BY <1>0, <2>1 DEF Tick
    <2>3. Underway' \subseteq Underway
      BY <2>2 DEF Underway
    <2>4. tick.due \cap tick.job = {} /\ \A k, l \in tick.job : k = l
      BY DEF OnceInv, TickInv
    <2>5. QED
      BY <2>1, <2>2, <2>3, <2>4, TickFrame
  <1>5. ASSUME NEW j \in tick.job,
               UpdateScheduledScanRunTimes(j) \/ UpdateScheduledScanRunTimesFails(j)
        PROVE  OnceInv'
    <2>0. /\ j \in SomeJob /\ j.sched \in Schedules /\ j.expr \in Expressions
          /\ rows[j.sched] \in SomeRow
      BY <1>0 DEF Tick, SomeJob
    <2>1. /\ tick' = [tick EXCEPT !.job = {}] /\ UNCHANGED <<now, edit, queued, twice>>
          /\ blurred \subseteq blurred'
      BY <1>5 DEF UpdateScheduledScanRunTimes, UpdateScheduledScanRunTimesFails
    <2>2. rows[j.sched].last <= now
      BY <2>0 DEF OnceInv, RowsInv
    <2>3. CASE UpdateScheduledScanRunTimes(j) /\ rows[j.sched].status = "present"
      <3>1. PICK n : n = NextRun(j)
        OBVIOUS
      <3>2. n \in Nat /\ n > tick.at
        BY <1>0, <2>0, <3>1, NextRunIsLater DEF NextRun
      <3>3. PICK r : r = [rows[j.sched] EXCEPT !.last = tick.at, !.next = n]
        OBVIOUS
      <3>4. /\ r \in SomeRow /\ r.last = tick.at /\ r.next = n
            /\ r.status = rows[j.sched].status /\ r.expr = rows[j.sched].expr
        <4>1. PICK o \in SomeRow : o = rows[j.sched]
          BY <2>0
        <4>2. PICK t \in Nat : t = tick.at
          BY <1>0
        <4>3. r = [o EXCEPT !.last = t, !.next = n] /\ t \in Int
          BY <3>3, <4>1, <4>2
        <4>4. /\ r \in SomeRow /\ r.last = t /\ r.next = n
              /\ r.status = o.status /\ r.expr = o.expr
          BY <3>2, <4>3 DEF SomeRow
        <4>5. QED
          BY <4>1, <4>2, <4>4
      <3>5. rows' = [rows EXCEPT ![j.sched] = r]
        BY <1>0, <2>0, <2>3, <3>1, <3>3 DEF UpdateScheduledScanRunTimes
      <3>6. r.status = "present" /\ r.last <= now /\ r.last >= tick.at /\ r.next > r.last
        BY <1>0, <2>3, <3>2, <3>4
      <3>7. QED
        BY <2>1, <3>4, <3>5, <3>6, FinishKeeps
    <2>4. CASE \/ UpdateScheduledScanRunTimesFails(j)
               \/ UpdateScheduledScanRunTimes(j) /\ rows[j.sched].status # "present"
      <3>1. rows' = rows
        BY <2>4 DEF UpdateScheduledScanRunTimes, UpdateScheduledScanRunTimesFails
      <3>2. rows[j.sched].status # "present" \/ j.sched \in blurred'
        BY <2>4 DEF UpdateScheduledScanRunTimesFails
      <3>3. PICK r \in SomeRow : r = rows[j.sched]
        BY <2>0
      <3>4. rows' = [rows EXCEPT ![j.sched] = r]
        BY <1>0, <2>0, <3>1, <3>3
      <3>5. QED
        BY <2>1, <2>2, <3>2, <3>3, <3>4, FinishKeeps
    <2>5. QED
      BY <1>5, <2>3, <2>4
  <1>6. QED
    BY <1>1, <1>2, <1>3, <1>4, <1>5 DEF TickStep

\* Every request of an administrator.
LEMMA OnceAdminStep ==
  ASSUME OnceInv, AdminStep
  PROVE  OnceInv'
  <1>0. /\ now \in Nat /\ rows \in [Schedules -> SomeRow] /\ edit \in [Admins -> AnEdit]
        /\ now \in 0..MaxClock /\ EditInv
    BY DEF OnceInv, Types
  <1>1. ASSUME NEW s \in Schedules, NEW expr \in Expressions, NEW filter \in Filters,
               HandleCreateScheduledScan(s, expr, filter)
        PROVE  OnceInv'
    <2>1. PICK n : n = ComputeNextRun(expr, now)
      OBVIOUS
    <2>2. n \in Nat
      BY <1>0, <1>1, <2>1, NextRunIsLater DEF HandleCreateScheduledScan
    <2>3. PICK r : r = [status |-> "present", enabled |-> TRUE, expr |-> expr,
                        filter |-> filter, last |-> -1, next |-> n]
      OBVIOUS
    <2>4. /\ r \in SomeRow /\ r.status = "present" /\ r.expr = expr /\ r.last = -1
          /\ r.next = n
      BY <2>2, <2>3 DEF SomeRow, Exprs
    <2>5. rows' = [rows EXCEPT ![s] = r] /\ rows[s].status = "none"
            /\ UNCHANGED <<now, tick, edit, queued, twice, blurred>>
      BY <1>1, <2>1, <2>3 DEF HandleCreateScheduledScan, history, Never
    <2>6. EditInv'
      BY <1>0, <2>5 DEF EditInv
    <2>7. r.last <= now /\ r.next > r.last
      BY <1>0, <2>2, <2>4
    <2>8. QED
      BY <1>0, <2>4, <2>5, <2>6, <2>7, RowKeeps
  <1>2. ASSUME NEW a \in Admins, NEW s \in Schedules, HandleUpdateReads(a, s) PROVE OnceInv'
    <2>1. PICK e : e = [pc |-> "read", sched |-> s, row |-> rows[s]]
      OBVIOUS
    <2>2. /\ edit' = [edit EXCEPT ![a] = e] /\ rows[s].status = "present"
          /\ UNCHANGED <<now, rows, tick, queued, twice, blurred>>
      BY <1>2, <2>1 DEF HandleUpdateReads, history
    <2>3. e \in AnEdit /\ e.pc = "read" /\ e.sched = s /\ e.row = rows[s]
      BY <1>0, <2>1 DEF AnEdit
    <2>4. rows[s].expr \in Expressions /\ rows[s].last <= now
      BY <2>2 DEF OnceInv, RowsInv
    <2>5. edit' \in [Admins -> AnEdit] /\ EditInv'
      BY <2>2, <2>3, <2>4, EditMoves
    <2>6. QED
      BY <1>0, <2>2, <2>5, OnceFrame
  <1>3. ASSUME NEW a \in Admins, NEW expr \in Expressions, NEW enabled \in BOOLEAN,
               HandleUpdateComputes(a, expr, enabled)
        PROVE  OnceInv'
    <2>1. PICK n : n = ComputeNextRun(expr, now)
      OBVIOUS
    <2>2. n = Never \/ (n \in Nat /\ n > now /\ n # Never)
      BY <1>0, <2>1, NextRunIsLater DEF Never
    <2>3. /\ edit[a].pc = "read" /\ UNCHANGED <<now, rows, tick, queued, twice, blurred>>
          /\ edit' = [edit EXCEPT ![a] =
                IF n = Never THEN NoEdit
                ELSE [edit[a] EXCEPT !.pc = "computed", !.row.expr = expr,
                                     !.row.enabled = enabled, !.row.next = n]]
      BY <1>3, <2>1, <1>0 DEF HandleUpdateComputes, history
    <2>4. /\ edit[a] \in AnEdit /\ edit[a].row \in SomeRow /\ edit[a].row.last \in Int
          /\ edit[a].sched \in Schedules /\ edit[a].row.status = "present"
          /\ edit[a].row.last <= now
      BY <1>0, <2>3 DEF AnEdit, SomeRow, EditInv
    <2>5. PICK r : r = [edit[a].row EXCEPT !.expr = expr, !.enabled = enabled, !.next = n]
      OBVIOUS
    <2>6. CASE n = Never
      <3>1. PICK e : e = NoEdit
        OBVIOUS
      <3>2. e \in AnEdit /\ e.pc = "idle" /\ edit' = [edit EXCEPT ![a] = e]
        BY <2>3, <2>6, <3>1, NothingTypes
      <3>3. edit' \in [Admins -> AnEdit] /\ EditInv'
        BY <2>3, <3>2, EditMoves
      <3>4. QED
        BY <1>0, <2>3, <3>3, OnceFrame
    <2>7. CASE n # Never
      <3>1. /\ r \in SomeRow /\ r.status = "present" /\ r.expr = expr /\ r.next = n
            /\ r.last = edit[a].row.last
        BY <2>2, <2>4, <2>5, <2>7 DEF SomeRow, Exprs
      <3>2. PICK e : e = [edit[a] EXCEPT !.pc = "computed", !.row = r]
        OBVIOUS
      <3>3. e \in AnEdit /\ e.pc = "computed" /\ e.sched = edit[a].sched /\ e.row = r
        BY <2>4, <3>1, <3>2 DEF AnEdit
      <3>4. edit' = [edit EXCEPT ![a] = e]
        BY <2>3, <2>4, <2>5, <2>7, <3>2 DEF AnEdit, SomeRow
      <3>5. /\ e.sched \in Schedules /\ e.row.status = "present"
            /\ e.row.expr \in Expressions /\ e.row.last <= now
            /\ e.row.next > e.row.last
        <4>1. n > now /\ n \in Int /\ edit[a].row.last \in Int /\ edit[a].row.last <= now
          BY <2>2, <2>4, <2>7
        <4>2. n > edit[a].row.last
          BY <1>0, <4>1
        <4>3. QED
          BY <2>4, <3>1, <3>3, <4>2
      <3>6. edit' \in [Admins -> AnEdit] /\ EditInv'
        <4>1. now' = now
          BY <2>3
        <4>2. QED
          BY <3>3, <3>4, <3>5, <4>1, EditMoves
      <3>7. QED
        BY <1>0, <2>3, <3>6, OnceFrame
    <2>8. QED
      BY <2>6, <2>7
  <1>4. ASSUME NEW a \in Admins, HandleUpdateWrites(a) PROVE OnceInv'
    <2>1. PICK s : s = edit[a].sched
      OBVIOUS
    <2>2. /\ edit[a].pc = "computed" /\ edit' = [edit EXCEPT ![a] = NoEdit]
          /\ UNCHANGED <<now, tick, queued, twice>>
      BY <1>4 DEF HandleUpdateWrites
    <2>3. /\ s \in Schedules /\ edit[a] \in AnEdit /\ edit[a].row \in SomeRow
          /\ edit[a].row.status = "present" /\ edit[a].row.expr \in Expressions
          /\ edit[a].row.next > edit[a].row.last /\ rows[s] \in SomeRow
      BY <1>0, <2>1, <2>2 DEF AnEdit, EditInv
    <2>4. PICK e : e = NoEdit
      OBVIOUS
    <2>5. edit' \in [Admins -> AnEdit] /\ EditInv'
      BY <2>2, <2>4, NothingTypes, EditMoves
    <2>6. CASE rows[s].status = "present"
      <3>1. PICK r : r = [edit[a].row EXCEPT !.last = rows[s].last]
        OBVIOUS
      <3>2. /\ r \in SomeRow /\ r.last = rows[s].last /\ r.status = "present"
            /\ r.expr \in Expressions /\ r.next = edit[a].row.next
        BY <2>3, <3>1 DEF SomeRow
      <3>3. /\ rows' = [rows EXCEPT ![s] = r]
            /\ blurred' = IF rows[s].last = edit[a].row.last
                          THEN blurred ELSE blurred \cup {s}
        BY <1>4, <2>1, <2>6, <3>1 DEF HandleUpdateWrites
      <3>4. r.last <= now
        BY <2>3, <3>2 DEF OnceInv, RowsInv
      <3>5. s \notin blurred' => r.next > r.last
        BY <2>3, <3>2, <3>3
      <3>6. blurred \subseteq blurred'
        BY <3>3
      <3>7. QED
        BY <2>2, <2>3, <2>5, <2>6, <3>2, <3>3, <3>4, <3>5, <3>6, RowKeeps
    <2>7. CASE rows[s].status # "present"
      <3>1. UNCHANGED <<rows, blurred>>
        BY <1>4, <2>1, <2>7 DEF HandleUpdateWrites
      <3>2. QED
        BY <1>0, <2>2, <2>5, <3>1, OnceFrame
    <2>8. QED
      BY <2>6, <2>7
  <1>5. ASSUME NEW s \in Schedules, HandleDeleteScheduledScan(s) PROVE OnceInv'
    <2>1. PICK r : r = [rows[s] EXCEPT !.status = "deleted"]
      OBVIOUS
    <2>2. /\ r \in SomeRow /\ r.status = "deleted" /\ r.last = rows[s].last
          /\ r.expr = rows[s].expr
      BY <1>0, <2>1 DEF SomeRow
    <2>3. /\ rows' = [rows EXCEPT ![s] = r] /\ rows[s].status = "present"
          /\ UNCHANGED <<now, tick, edit, queued, twice, blurred>>
      BY <1>0, <1>5, <2>1 DEF HandleDeleteScheduledScan
    <2>4. rows[s].expr \in Expressions /\ rows[s].last <= now
      BY <2>3 DEF OnceInv, RowsInv
    <2>5. EditInv'
      BY <1>0, <2>3 DEF EditInv
    <2>6. QED
      BY <1>0, <2>2, <2>3, <2>4, <2>5, RowKeeps
  <1>6. QED
    BY <1>1, <1>2, <1>3, <1>4, <1>5 DEF AdminStep

\* Every step keeps the invariant.
LEMMA OnceStep == OnceInv /\ [Next]_vars => OnceInv'
  <1> SUFFICES ASSUME OnceInv, [Next]_vars PROVE OnceInv'
    OBVIOUS
  <1>0. now \in Nat /\ now \in 0..MaxClock /\ edit \in [Admins -> AnEdit] /\ EditInv
    BY DEF OnceInv, Types
  <1>1. CASE TimePasses \/ UNCHANGED vars
    <2>1. /\ now' \in 0..MaxClock /\ now <= now'
          /\ UNCHANGED <<rows, tick, edit, queued, twice, blurred>>
      BY <1>0, <1>1 DEF TimePasses, vars, history
    <2>2. \A a \in Admins : edit[a].row.last \in Int
      BY <1>0 DEF AnEdit, SomeRow
    <2>3. EditInv'
      BY <1>0, <2>1, <2>2 DEF EditInv
    <2>4. QED
      BY <1>0, <2>1, <2>3, OnceFrame
  <1>2. CASE TickExpires
    <2>0. tick \in Tick
      BY DEF OnceInv, Types
    <2>1. tick' = [tick EXCEPT !.expired = TRUE]
            /\ UNCHANGED <<now, rows, edit, queued, twice, blurred>>
      BY <1>2 DEF TickExpires, history
    <2>2. /\ tick' \in Tick /\ tick'.at = tick.at /\ tick'.due = tick.due
          /\ tick'.job = tick.job /\ tick'.hosts = tick.hosts
      BY <2>0, <2>1 DEF Tick
    <2>3. Underway' \subseteq Underway
      BY <2>2 DEF Underway
    <2>4. tick.due \cap tick.job = {} /\ \A k, l \in tick.job : k = l
      BY DEF OnceInv, TickInv
    <2>5. QED
      BY <2>1, <2>2, <2>3, <2>4, TickFrame
  <1>3. QED
    BY <1>1, <1>2, OnceTickStep, OnceAdminStep DEF Next

\* Nothing is scheduled or under way at first.
LEMMA OnceInit == Init => OnceInv
  <1> SUFFICES ASSUME Init PROVE OnceInv
    OBVIOUS
  <1>1. /\ now = 0 /\ rows = [s \in Schedules |-> NoRow] /\ tick = NoTick
        /\ edit = [a \in Admins |-> NoEdit] /\ queued = {} /\ twice = {}
    BY DEF Init
  <1>2. /\ tick \in Tick /\ tick.at = 0 /\ tick.due = {} /\ tick.job = {} /\ Underway = {}
    BY <1>1 DEF NoTick, Tick, Underway
  <1>3. Types
    BY <1>1, <1>2, NothingTypes DEF Types
  <1>4. RowsInv /\ EditInv
    BY <1>1, NothingTypes DEF RowsInv, EditInv
  <1>5. TickInv /\ QueuedInv /\ OncePerOccurrence
    BY <1>1, <1>2 DEF TickInv, QueuedInv, OncePerOccurrence
  <1>6. QED
    BY <1>3, <1>4, <1>5 DEF OnceInv

\* OncePerOccurrence of every behaviour: the rows a tick read may be changed
\* or deleted under it, its calls may fail and its time may run out, and yet
\* a host gets a second request for the same time only when the run was not
\* recorded, or was recorded over an update.
THEOREM SchedulesRunOnce == Spec => []OncePerOccurrence
  <1>1. Spec => Init /\ [][Next]_vars
    BY PTL DEF Spec
  <1>2. OnceInv => OncePerOccurrence
    BY DEF OnceInv
  <1>3. QED
    BY <1>1, <1>2, OnceInit, OnceStep, PTL

----------------------------------------------------------------------------
(* Every scan is for an occurrence of the expression.                      *)

\* An expression that came due comes again within the minutes that
\* nextCronTime looks ahead.  February 29th does not.
ComesAgain ==
    \A expr \in Expressions, t \in 0..MaxClock : \A u \in Occurrences[expr] :
        0 < u /\ u <= t => ComputeNextRun(expr, t) # Never

IsDue(expr, t) == t \in Occurrences[expr] /\ t > 0

\* What a request is made from is for an occurrence: the schedule's next time,
\* the jobs of the tick, and the next time an update computed.
DueInv ==
    /\ \A s \in Schedules :
          rows[s].status = "present" /\ s \notin blurred => IsDue(rows[s].expr, rows[s].next)
    /\ \A j \in Underway : j.sched \notin blurred => IsDue(j.expr, j.due)
    /\ \A a \in Admins :
          edit[a].pc = "computed" => IsDue(edit[a].row.expr, edit[a].row.next)
    /\ ScansAreDue

\* Steps that only use up the tick.
LEMMA DueFrame ==
  ASSUME DueInv, UNCHANGED <<rows, edit, queued>>, blurred \subseteq blurred',
         Underway' \subseteq Underway
  PROVE  DueInv'
  BY DEF DueInv, ScansAreDue, IsDue

\* One row is written, and no update begins.
LEMMA DueRow ==
  ASSUME DueInv, OnceInv, UNCHANGED queued, blurred \subseteq blurred',
         Underway' \subseteq Underway,
         NEW s \in Schedules, NEW r, rows' = [rows EXCEPT ![s] = r],
         r.status = "present" /\ s \notin blurred' => IsDue(r.expr, r.next),
         \A a \in Admins : edit'[a] = edit[a] \/ edit'[a].pc = "idle"
  PROVE  DueInv'
  <1>1. rows'[s] = r /\ \A t \in Schedules : t # s => rows'[t] = rows[t]
    BY DEF OnceInv, Types
  <1>2. ASSUME NEW t \in Schedules, rows'[t].status = "present", t \notin blurred'
        PROVE  IsDue(rows'[t].expr, rows'[t].next)
    BY <1>1, <1>2 DEF DueInv
  <1>3. ASSUME NEW a \in Admins, edit'[a].pc = "computed"
        PROVE  IsDue(edit'[a].row.expr, edit'[a].row.next)
    BY <1>3 DEF DueInv
  <1>4. QED
    BY <1>2, <1>3 DEF DueInv, ScansAreDue, IsDue

\* A request is for its job's time, and a run goes on to an occurrence.
LEMMA DueTickStep ==
  ASSUME ComesAgain, DueInv, OnceInv, TickStep
  PROVE  DueInv'
  <1>0. /\ tick \in Tick /\ tick.at \in Nat /\ now \in 0..MaxClock /\ tick.at <= now
        /\ rows \in [Schedules -> SomeRow]
    BY DEF OnceInv, Types, Tick, TickInv
  <1>1. CASE StartTick
    <2>1. tick'.due = DueAt(now) /\ tick'.job = {} /\ UNCHANGED <<rows, edit, queued, blurred>>
      BY <1>1 DEF StartTick, NoTick, history
    <2>2. ASSUME NEW j \in DueAt(now), j.sched \notin blurred PROVE IsDue(j.expr, j.due)
      BY <2>2 DEF DueAt, DueInv
    <2>3. QED
      BY <2>1, <2>2 DEF DueInv, Underway, ScansAreDue, IsDue
  <1>2. ASSUME NEW j \in tick.due,
               ExpandHostFilter(j) \/ ListHostsBreaksOff(j) \/ ExpandHostFilterFails(j)
        PROVE  DueInv'
    <2>1. /\ tick'.due = tick.due \ {j} /\ tick'.job \subseteq tick.job \cup {j}
      BY <1>0, <1>2 DEF ExpandHostFilter, ListHostsBreaksOff, ExpandHostFilterFails, Tick
    <2>2. UNCHANGED <<rows, edit, queued, blurred>>
      BY <1>2 DEF ExpandHostFilter, ListHostsBreaksOff, ExpandHostFilterFails, history
    <2>3. Underway' \subseteq Underway
      BY <2>1 DEF Underway
    <2>4. QED
      BY <2>2, <2>3, DueFrame
  <1>3. ASSUME NEW j \in tick.job, NEW h \in tick.hosts, CreateScanRequest(j, h)
        PROVE  DueInv'
    <2>1. /\ tick'.due = tick.due /\ tick'.job = tick.job
          /\ UNCHANGED <<rows, edit, blurred>>
          /\ queued' = queued \cup {ScanOf(j, h)}
      BY <1>0, <1>3 DEF CreateScanRequest, Tick
    <2>2. ScanOf(j, h).due \in Occurrences[ScanOf(j, h).expr] \/ ScanOf(j, h).sched \in blurred
      BY DEF ScanOf, DueInv, IsDue, Underway
    <2>3. ScansAreDue'
      BY <2>1, <2>2 DEF DueInv, ScansAreDue
    <2>4. Underway' = Underway
      BY <2>1 DEF Underway
    <2>5. QED
      BY <2>1, <2>3, <2>4 DEF DueInv, IsDue
  <1>4. ASSUME NEW j \in tick.job, NEW h \in tick.hosts, CreateScanRequestFails(j, h)
        PROVE  DueInv'
    <2>1. tick'.due = tick.due /\ tick'.job = tick.job /\ UNCHANGED <<rows, edit, queued, blurred>>
      BY <1>0, <1>4 DEF CreateScanRequestFails, Tick
    <2>2. Underway' = Underway
      BY <2>1 DEF Underway
    <2>3. QED
      BY <2>1, <2>2, DueFrame
  <1>5. ASSUME NEW j \in tick.job, UpdateScheduledScanRunTimesFails(j) PROVE DueInv'
    <2>1. /\ tick'.due = tick.due /\ tick'.job = {}
          /\ UNCHANGED <<rows, edit, queued>> /\ blurred \subseteq blurred'
      BY <1>0, <1>5 DEF UpdateScheduledScanRunTimesFails, Tick
    <2>2. Underway' \subseteq Underway
      BY <2>1 DEF Underway
    <2>3. QED
      BY <2>1, <2>2, DueFrame
  <1>6. ASSUME NEW j \in tick.job, UpdateScheduledScanRunTimes(j) PROVE DueInv'
    <2>1. /\ tick'.due = tick.due /\ tick'.job = {}
          /\ UNCHANGED <<edit, queued>> /\ blurred \subseteq blurred'
      BY <1>0, <1>6 DEF UpdateScheduledScanRunTimes, Tick
    <2>2. Underway' \subseteq Underway
      BY <2>1 DEF Underway
    <2>3. CASE rows[j.sched].status # "present"
      BY <1>6, <2>1, <2>2, <2>3, DueFrame DEF UpdateScheduledScanRunTimes
    <2>4. CASE rows[j.sched].status = "present"
      <3>0. /\ j.sched \in Schedules /\ j.expr \in Expressions /\ j.due \in Nat
            /\ j.due <= tick.at /\ j \in Underway
        BY <1>0 DEF Tick, SomeJob, OnceInv, TickInv, Underway
      <3>1. PICK n : n = NextRun(j)
        OBVIOUS
      <3>2. PICK r : r = [rows[j.sched] EXCEPT !.last = tick.at, !.next = n]
        OBVIOUS
      <3>3. rows' = [rows EXCEPT ![j.sched] = r]
        BY <1>0, <1>6, <2>4, <3>0, <3>1, <3>2 DEF UpdateScheduledScanRunTimes
      <3>4. r.next = n /\ r.expr = rows[j.sched].expr
        BY <1>0, <3>0, <3>2 DEF SomeRow
      <3>5. ASSUME j.sched \notin blurred' PROVE IsDue(r.expr, r.next)
        <4>1. r.expr = j.expr /\ j.sched \notin blurred
          BY <1>6, <3>4, <3>5 DEF UpdateScheduledScanRunTimes
        <4>2. j.due \in Occurrences[j.expr] /\ 0 < j.due
          BY <3>0, <4>1 DEF DueInv, IsDue
        <4>3. tick.at \in 0..MaxClock
          BY <1>0
        <4>4. ComputeNextRun(j.expr, tick.at) # Never
          BY <3>0, <4>2, <4>3 DEF ComesAgain
        <4>5. n = ComputeNextRun(j.expr, tick.at)
          BY <3>1, <4>4 DEF NextRun
        <4>6. n \in Occurrences[j.expr] /\ n \in Nat /\ n > tick.at
          BY <1>0, <3>0, <4>4, <4>5, NextRunIsLater
        <4>7. QED
          BY <1>0, <3>4, <4>1, <4>6 DEF IsDue
      <3>6. QED
        BY <2>1, <2>2, <3>0, <3>3, <3>5, DueRow
    <2>5. QED
      BY <2>3, <2>4
  <1>7. QED
    BY <1>1, <1>2, <1>3, <1>4, <1>5, <1>6 DEF TickStep

\* A schedule is created, and moved, to an occurrence of its expression.
LEMMA DueAdminStep ==
  ASSUME DueInv, OnceInv, AdminStep
  PROVE  DueInv'
  <1>0. /\ now \in Nat /\ rows \in [Schedules -> SomeRow] /\ edit \in [Admins -> AnEdit]
    BY DEF OnceInv, Types
  <1>1. ASSUME NEW s \in Schedules, NEW expr \in Expressions, NEW filter \in Filters,
               HandleCreateScheduledScan(s, expr, filter)
        PROVE  DueInv'
    <2>1. PICK n : n = ComputeNextRun(expr, now)
      OBVIOUS
    <2>2. n \in Occurrences[expr] /\ n > now /\ n \in Nat
      BY <1>0, <1>1, <2>1, NextRunIsLater DEF HandleCreateScheduledScan
    <2>3. PICK r : r = [status |-> "present", enabled |-> TRUE, expr |-> expr,
                        filter |-> filter, last |-> Never, next |-> n]
      OBVIOUS
    <2>4. IsDue(r.expr, r.next)
      BY <1>0, <2>2, <2>3 DEF IsDue
    <2>5. rows' = [rows EXCEPT ![s] = r] /\ UNCHANGED <<tick, edit, queued, blurred>>
      BY <1>1, <2>1, <2>3 DEF HandleCreateScheduledScan, history
    <2>6. Underway' = Underway
      BY <2>5 DEF Underway
    <2>7. QED
      BY <2>4, <2>5, <2>6, DueRow
  <1>2. ASSUME NEW a \in Admins, NEW s \in Schedules, HandleUpdateReads(a, s) PROVE DueInv'
    <2>1. /\ UNCHANGED <<tick, rows, queued, blurred>>
          /\ \A b \in Admins : edit'[b] = edit[b] \/ edit'[b].pc = "read"
      BY <1>0, <1>2 DEF HandleUpdateReads, history
    <2>2. QED
      BY <2>1 DEF DueInv, ScansAreDue, IsDue, Underway
  <1>3. ASSUME NEW a \in Admins, NEW expr \in Expressions, NEW enabled \in BOOLEAN,
               HandleUpdateComputes(a, expr, enabled)
        PROVE  DueInv'
    <2>1. PICK n : n = ComputeNextRun(expr, now)
      OBVIOUS
    <2>2. n = Never \/ (n \in Occurrences[expr] /\ n > now /\ n \in Nat)
      BY <1>0, <2>1, NextRunIsLater
    <2>3. PICK e : e = IF n = Never THEN NoEdit
                       ELSE [edit[a] EXCEPT !.pc = "computed", !.row.expr = expr,
                                            !.row.enabled = enabled, !.row.next = n]
      OBVIOUS
    <2>4. edit' = [edit EXCEPT ![a] = e] /\ UNCHANGED <<tick, rows, queued, blurred>>
      BY <1>0, <1>3, <2>1, <2>3 DEF HandleUpdateComputes, history
    <2>5. edit'[a] = e /\ \A b \in Admins : b # a => edit'[b] = edit[b]
      BY <1>0, <2>4
    <2>6. e.pc = "idle" \/ IsDue(e.row.expr, e.row.next)
      <3>1. CASE n = Never
        BY <2>3, <3>1, NothingTypes
      <3>2. CASE n # Never
        <4>1. edit[a] \in AnEdit /\ edit[a].row \in SomeRow
          BY <1>0 DEF AnEdit
        <4>2. e.row.expr = expr /\ e.row.next = n
          BY <2>3, <3>2, <4>1 DEF AnEdit, SomeRow
        <4>3. QED
          BY <1>0, <2>2, <3>2, <4>2 DEF IsDue
      <3>3. QED
        BY <3>1, <3>2
    <2>7. ASSUME NEW b \in Admins, edit'[b].pc = "computed"
          PROVE  IsDue(edit'[b].row.expr, edit'[b].row.next)
      BY <2>5, <2>6, <2>7 DEF DueInv
    <2>8. QED
      BY <2>4, <2>7 DEF DueInv, ScansAreDue, IsDue, Underway
  <1>4. ASSUME NEW a \in Admins, HandleUpdateWrites(a) PROVE DueInv'
    <2>1. PICK s : s = edit[a].sched
      OBVIOUS
    <2>2. /\ s \in Schedules /\ edit[a].pc = "computed" /\ edit[a].row \in SomeRow
          /\ edit' = [edit EXCEPT ![a] = NoEdit] /\ UNCHANGED <<tick, queued>>
          /\ blurred \subseteq blurred'
      BY <1>0, <1>4, <2>1 DEF HandleUpdateWrites, AnEdit, OnceInv, EditInv
    <2>3. \A b \in Admins : edit'[b] = edit[b] \/ edit'[b].pc = "idle"
      BY <1>0, <2>2, NothingTypes
    <2>4. Underway' = Underway
      BY <2>2 DEF Underway
    <2>5. CASE rows[s].status = "present"
      <3>1. PICK r : r = [edit[a].row EXCEPT !.last = rows[s].last]
        OBVIOUS
      <3>2. rows' = [rows EXCEPT ![s] = r]
        BY <1>4, <2>1, <2>5, <3>1 DEF HandleUpdateWrites
      <3>3. r.expr = edit[a].row.expr /\ r.next = edit[a].row.next
        BY <2>2, <3>1 DEF SomeRow
      <3>4. IsDue(r.expr, r.next)
        BY <2>2, <3>3 DEF DueInv
      <3>5. QED
        BY <2>2, <2>3, <2>4, <3>2, <3>4, DueRow
    <2>6. CASE rows[s].status # "present"
      <3>1. UNCHANGED <<rows, blurred>>
        BY <1>4, <2>1, <2>6 DEF HandleUpdateWrites
      <3>2. ASSUME NEW b \in Admins, edit'[b].pc = "computed"
            PROVE  IsDue(edit'[b].row.expr, edit'[b].row.next)
        BY <2>3, <3>2 DEF DueInv
      <3>3. QED
        BY <2>2, <2>4, <3>1, <3>2 DEF DueInv, ScansAreDue, IsDue
    <2>7. QED
      BY <2>5, <2>6
  <1>5. ASSUME NEW s \in Schedules, HandleDeleteScheduledScan(s) PROVE DueInv'
    <2>1. PICK r : r = [rows[s] EXCEPT !.status = "deleted"]
      OBVIOUS
    <2>2. /\ rows' = [rows EXCEPT ![s] = r] /\ r.status = "deleted"
          /\ UNCHANGED <<tick, edit, queued, blurred>>
      BY <1>0, <1>5, <2>1 DEF HandleDeleteScheduledScan, SomeRow
    <2>3. Underway' = Underway
      BY <2>2 DEF Underway
    <2>4. QED
      BY <2>2, <2>3, DueRow
  <1>6. QED
    BY <1>1, <1>2, <1>3, <1>4, <1>5 DEF AdminStep

\* Every step keeps the invariant.
LEMMA DueStep == ComesAgain /\ OnceInv /\ DueInv /\ [Next]_vars => DueInv'
  <1> SUFFICES ASSUME ComesAgain, OnceInv, DueInv, [Next]_vars PROVE DueInv'
    OBVIOUS
  <1>1. CASE TimePasses \/ TickExpires \/ UNCHANGED vars
    <2>0. tick \in Tick
      BY DEF OnceInv, Types
    <2>1. /\ UNCHANGED <<rows, edit, queued, blurred>>
          /\ tick'.due = tick.due /\ tick'.job = tick.job
      BY <1>1, <2>0 DEF TimePasses, TickExpires, vars, history, Tick
    <2>2. Underway' = Underway
      BY <2>1 DEF Underway
    <2>3. QED
      BY <2>1, <2>2, DueFrame
  <1>2. QED
    BY <1>1, DueTickStep, DueAdminStep DEF Next

\* ScansAreDue of every behaviour, when every expression that came due comes
\* again within a year: then the hour that a schedule without a next run is
\* put off by never makes a request, though updates and ticks overlap.
THEOREM SchedulesRunWhenDue ==
  ASSUME ComesAgain
  PROVE  Spec => []ScansAreDue
  <1>1. Spec => Init /\ [][Next]_vars
    BY PTL DEF Spec
  <1>2. Init => DueInv
    <2> SUFFICES ASSUME Init PROVE DueInv
      OBVIOUS
    <2>1. /\ rows = [s \in Schedules |-> NoRow] /\ tick.due = {} /\ tick.job = {}
          /\ edit = [a \in Admins |-> NoEdit] /\ queued = {}
      BY DEF Init, NoTick
    <2>2. QED
      BY <2>1, NothingTypes DEF DueInv, ScansAreDue, Underway
  <1>3. DueInv => ScansAreDue
    BY DEF DueInv
  <1>4. OnceInv /\ DueInv /\ [Next]_vars => OnceInv' /\ DueInv'
    BY OnceStep, DueStep
  <1>5. QED
    BY <1>1, <1>2, <1>3, <1>4, OnceInit, PTL
==============================================================================

--------------------------- MODULE ReportDelivery ---------------------------
(***************************************************************************)
(* How a scan report travels from an agent to the inventory tables: run    *)
(* of cmd/agent/main.go, the retries and the on-disk spool of              *)
(* internal/agent/reporter, handleReport of internal/server/api/report.go, *)
(* and the statements of db/scan.go and db/retention.go on the table scans.*)
(*                                                                         *)
(* One host and its agent (no statement here relates scans of two hosts).  *)
(* A scan id is a number that doubles as the report's timestamp: ids are   *)
(* drawn in increasing order.  handleReport is not one transaction; every  *)
(* database call of it is a step of its own.                               *)
(***************************************************************************)
EXTENDS Naturals, FiniteSets

CONSTANTS
    MaxScans,     \* bound: fresh reports are built while fewer were drawn
    NSections,    \* the stores handleReport makes between CreateScan and CompleteScan
    SpoolMax,     \* BONGSU_AGENT_SPOOL_MAX
    MaxAttempts,  \* BONGSU_AGENT_RETRY_ATTEMPTS
    Budget        \* bound: how many faults of each kind, and how many deletions

FaultKinds == {"outage", "cut", "dberror", "delete"}

ASSUME ReportDeliveryAssumption ==
    /\ MaxScans \in Nat
    /\ NSections \in Nat
    /\ SpoolMax \in Nat \ {0}
    /\ MaxAttempts \in Nat \ {0}
    /\ Budget \in [FaultKinds -> Nat]

ScanIds == 1..MaxScans
NoScan  == 0

VARIABLES
    scans,    \* the table scans with, per row, the sections stored for it
    clock,    \* the last created_at handed out
    handlers, \* the handleReport calls in progress
    pc,       \* where run() is
    files,    \* ReplaySpool: the listed spool files not handled yet
    cur,      \* the report in the agent's hands
    attempt,  \* doWithRetry: attempts made for cur
    waiting,  \* an attempt is under way
    drawn,    \* how many scan ids were drawn
    spool,    \* the reports in the spool directory
    evicted,  \* history: reports evicted for capacity
    lost,     \* history: reports that died with the agent or as a corrupt file
    removed,  \* history: scans an administrator deleted or retention pruned
    left      \* the budget left

agentVars  == <<pc, files, cur, attempt, waiting, drawn>>
diskVars   == <<spool, evicted, lost>>
serverVars == <<scans, clock, handlers, removed>>
vars       == <<serverVars, agentVars, diskVars, left>>

Usable == {"completed", "degraded"}

Scan == [status: {"absent", "running"} \cup Usable, createdAt: Nat,
         stored: SUBSET (1..NSections)]

\* next = 0: before CreateScan.  client: the agent still waits for the answer;
\* when it does not, the request context is cancelled.
Handler == [scan: ScanIds, next: 0..(NSections + 1), failed: BOOLEAN, client: BOOLEAN]

TypeOK ==
    /\ scans \in [ScanIds -> Scan]
    /\ clock \in Nat
    /\ handlers \subseteq Handler
    /\ pc \in {"idle", "replay", "resend", "resent", "collect", "send", "spool"}
    /\ files \subseteq ScanIds
    /\ cur \in ScanIds \cup {NoScan}
    /\ pc \in {"resend", "resent", "send", "spool"} => cur \in ScanIds
    /\ attempt \in 0..MaxAttempts
    /\ waiting \in BOOLEAN
    /\ drawn \in 0..MaxScans
    /\ spool \subseteq ScanIds
    /\ evicted \subseteq ScanIds
    /\ lost \subseteq ScanIds
    /\ removed \subseteq ScanIds
    /\ left \in [FaultKinds -> Nat]

NoRow == [status |-> "absent", createdAt |-> 0, stored |-> {}]

Init ==
    /\ scans = [s \in ScanIds |-> NoRow]
    /\ clock = 0
    /\ handlers = {}
    /\ pc = "idle" /\ files = {} /\ cur = NoScan
    /\ attempt = 0 /\ waiting = FALSE /\ drawn = 0
    /\ spool = {} /\ evicted = {} /\ lost = {} /\ removed = {}
    /\ left = Budget

Spend(kind) == left[kind] > 0 /\ left' = [left EXCEPT ![kind] = @ - 1]

----------------------------------------------------------------------------
(* The agent: ReplaySpool.                                                 *)

\* run() begins with ReplaySpool, which lists the spool once.
StartRun ==
    /\ pc = "idle"
    /\ pc' = "replay"
    /\ files' = spool
    /\ UNCHANGED <<serverVars, diskVars, cur, attempt, waiting, drawn, left>>

\* listSpoolFiles: names start with the report's timestamp, oldest first.
NextFile(s) == s \in files /\ \A t \in files : s <= t

\* Mutant: a spooled report is taken off the disk before it is sent.
ReplayTakesFile(s) ==
    /\ pc = "replay" /\ NextFile(s)
    /\ pc' = "resend"
    /\ cur' = s
    /\ spool' = spool \ {s}
    /\ attempt' = 0
    /\ UNCHANGED <<serverVars, files, waiting, drawn, evicted, lost, left>>

ReplayNext(s) ==
    /\ pc = "replay" /\ NextFile(s)
    /\ pc' = "resend"
    /\ cur' = s
    /\ attempt' = 0
    /\ UNCHANGED <<serverVars, diskVars, files, waiting, drawn, left>>

\* A file that cannot be read or parsed is dropped.
ReplayCorrupt(s) ==
    /\ pc = "replay" /\ NextFile(s)
    /\ Spend("cut")
    /\ spool' = spool \ {s}
    /\ lost' = lost \cup {s}
    /\ files' = files \ {s}
    /\ UNCHANGED <<serverVars, pc, cur, attempt, waiting, drawn, evicted>>

ReplayDone ==
    /\ pc = "replay" /\ files = {}
    /\ pc' = "collect"
    /\ UNCHANGED <<serverVars, diskVars, files, cur, attempt, waiting, drawn, left>>

\* Mutant: the file of a report the server took stays.
ReplayedStays ==
    /\ pc = "resent"
    /\ pc' = "replay"
    /\ files' = files \ {cur}
    /\ cur' = NoScan
    /\ UNCHANGED <<serverVars, diskVars, attempt, waiting, drawn, left>>

\* The server took the report: its file is removed, or cannot be.
RemoveReplayed ==
    /\ pc = "resent"
    /\ \/ spool' = spool \ {cur} /\ UNCHANGED left
       \/ Spend("cut") /\ UNCHANGED spool
    /\ pc' = "replay"
    /\ files' = files \ {cur}
    /\ cur' = NoScan
    /\ UNCHANGED <<serverVars, attempt, waiting, drawn, evicted, lost>>

----------------------------------------------------------------------------
(* The agent: the fresh report.                                            *)

\* CollectHostInfo fails: run() returns after the replay.
CollectFails ==
    /\ pc = "collect"
    /\ pc' = "idle"
    /\ UNCHANGED <<serverVars, diskVars, files, cur, attempt, waiting, drawn, left>>

\* Every other collection error only annotates the report.
Collect ==
    /\ pc = "collect"
    /\ drawn < MaxScans
    /\ drawn' = drawn + 1
    /\ cur' = drawn + 1
    /\ attempt' = 0
    /\ pc' = "send"
    /\ UNCHANGED <<serverVars, diskVars, files, waiting, left>>

\* The n newest reports of S.
Newest(S, n) == {s \in S : Cardinality({t \in S : t > s}) < n}

\* evictForCapacity: oldest first, until there is room for one more.
EvictForCapacity(S) == Newest(S, SpoolMax - 1)

\* Mutant: room is made after the write, from the newest files on.
SpoolThenEvict ==
    LET all  == spool \cup {cur}
        kept == {s \in all : Cardinality({t \in all : t < s}) < SpoolMax - 1}
    IN  /\ pc = "spool"
        /\ spool' = kept
        /\ evicted' = evicted \cup (all \ kept)
        /\ pc' = "idle"
        /\ cur' = NoScan
        /\ UNCHANGED <<serverVars, files, attempt, waiting, drawn, lost, left>>

\* SpoolReport after a failed Send.  The rename makes it one step.
SpoolReport ==
    /\ pc = "spool"
    /\ spool' = EvictForCapacity(spool) \cup {cur}
    /\ evicted' = evicted \cup (spool \ EvictForCapacity(spool))
    /\ pc' = "idle"
    /\ cur' = NoScan
    /\ UNCHANGED <<serverVars, files, attempt, waiting, drawn, lost, left>>

----------------------------------------------------------------------------
(* The agent: Send and doWithRetry.                                        *)

Sending == pc \in {"resend", "send"}

\* Send returned an error: the replay stops, a fresh report is spooled.
SendFails ==
    /\ waiting' = FALSE
    /\ IF pc = "resend"
       THEN pc' = "collect" /\ files' = {} /\ cur' = NoScan
       ELSE pc' = "spool" /\ UNCHANGED <<files, cur>>

SendSucceeds ==
    /\ waiting' = FALSE
    /\ IF pc = "resend"
       THEN pc' = "resent" /\ UNCHANGED cur
       ELSE pc' = "idle" /\ cur' = NoScan
    /\ UNCHANGED files

\* doWithRetry after n attempts, the last one a network error, a 429 or a 5xx.
RetryOrFail(n) ==
    IF n < MaxAttempts
    THEN waiting' = FALSE /\ UNCHANGED <<pc, files, cur>>
    ELSE SendFails

\* An attempt reaches the server.
SendAttempt ==
    /\ Sending /\ ~waiting
    /\ attempt < MaxAttempts
    /\ attempt' = attempt + 1
    /\ waiting' = TRUE
    /\ handlers' = handlers \cup
         {[scan |-> cur, next |-> 0, failed |-> FALSE, client |-> TRUE]}
    /\ UNCHANGED <<scans, clock, removed, diskVars, pc, files, cur, drawn, left>>

\* An attempt does not.
Unreachable ==
    /\ Sending /\ ~waiting
    /\ attempt < MaxAttempts
    /\ Spend("outage")
    /\ attempt' = attempt + 1
    /\ RetryOrFail(attempt + 1)
    /\ UNCHANGED <<serverVars, diskVars, drawn>>

Disconnected == {[h EXCEPT !.client = FALSE] : h \in handlers}

\* The client timeout, or a connection that breaks before the answer.
AnswerLost ==
    /\ waiting
    /\ Spend("cut")
    /\ handlers' = Disconnected
    /\ RetryOrFail(attempt)
    /\ UNCHANGED <<scans, clock, removed, diskVars, attempt, drawn>>

\* The agent dies in a run.  A fresh report not yet spooled dies with it.
AgentCrash ==
    /\ pc # "idle"
    /\ Spend("cut")
    /\ lost' = IF pc \in {"send", "spool"} THEN lost \cup {cur} ELSE lost
    /\ handlers' = Disconnected
    /\ pc' = "idle" /\ files' = {} /\ cur' = NoScan
    /\ waiting' = FALSE /\ attempt' = 0
    /\ UNCHANGED <<scans, clock, removed, drawn, spool, evicted>>

----------------------------------------------------------------------------
(* The server: handleReport.                                               *)

Answer(h, Result) ==
    IF h.client THEN Result ELSE UNCHANGED <<pc, files, cur, waiting>>

Becomes(h, g) == handlers' = (handlers \ {h}) \cup {g}
Returns(h)    == handlers' = handlers \ {h}

\* A database call fails because the database does, or because the agent is
\* gone and the request context is cancelled with it.
CallFails(h) == IF h.client THEN Spend("dberror") ELSE UNCHANGED left

\* The early returns: a report the server refuses (401, 403, 400, 413).
HandleReportRefuses(h) ==
    /\ h.next = 0
    /\ Spend("outage")
    /\ Returns(h)
    /\ Answer(h, SendFails)
    /\ UNCHANGED <<scans, clock, removed, diskVars, attempt, drawn>>

\* UpsertHostWithAgentToken or CreateScan fails, CreateScan on a scan id that
\* is taken: 500.
CreateScanFails(h) ==
    /\ h.next = 0
    /\ IF scans[h.scan].status # "absent" THEN UNCHANGED left ELSE CallFails(h)
    /\ Returns(h)
    /\ Answer(h, RetryOrFail(attempt))
    /\ UNCHANGED <<scans, clock, removed, diskVars, attempt, drawn>>

CreateScan(h) ==
    /\ h.next = 0
    /\ scans[h.scan].status = "absent"
    /\ scans' = [scans EXCEPT ![h.scan] =
                   [status |-> "running", createdAt |-> clock + 1, stored |-> {}]]
    /\ clock' = clock + 1
    /\ Becomes(h, [h EXCEPT !.next = 1])
    /\ UNCHANGED <<removed, agentVars, diskVars, left>>

\* One of InsertContainers, InsertPackages, InsertVulnerabilities, the
\* rematches, InsertUserAccounts, InsertProcessSnapshots, InsertPorts and
\* RebuildPackageVulnerabilitySummariesForScan, in this order.
StoreSection(h) ==
    /\ h.next \in 1..NSections
    /\ scans[h.scan].status # "absent"
    /\ scans' = [scans EXCEPT ![h.scan].stored = @ \cup {h.next}]
    /\ Becomes(h, [h EXCEPT !.next = @ + 1])
    /\ UNCHANGED <<clock, removed, agentVars, diskVars, left>>

\* Mutant: the error is logged and forgotten.
StoreSectionFailureDropped(h) ==
    /\ h.next \in 1..NSections
    /\ IF scans[h.scan].status = "absent" THEN UNCHANGED left ELSE CallFails(h)
    /\ Becomes(h, [h EXCEPT !.next = @ + 1])
    /\ UNCHANGED <<scans, clock, removed, agentVars, diskVars>>

\* The failure is noted in ingestErrors and the ingest goes on.  Once the
\* scan row is gone every insert fails on its foreign key.
StoreSectionFails(h) ==
    /\ h.next \in 1..NSections
    /\ IF scans[h.scan].status = "absent" THEN UNCHANGED left ELSE CallFails(h)
    /\ Becomes(h, [h EXCEPT !.next = @ + 1, !.failed = TRUE])
    /\ UNCHANGED <<scans, clock, removed, agentVars, diskVars>>

ReportScanStatus(failed) == IF failed THEN "degraded" ELSE "completed"

\* CompleteScan and the 200.  The UPDATE of a row that is gone is no error.
CompleteScan(h) ==
    /\ h.next = NSections + 1
    /\ scans' = IF scans[h.scan].status = "absent" THEN scans
                ELSE [scans EXCEPT ![h.scan].status = ReportScanStatus(h.failed)]
    /\ Returns(h)
    /\ Answer(h, SendSucceeds)
    /\ UNCHANGED <<clock, removed, attempt, drawn, diskVars, left>>

\* A failing CompleteScan is logged; the answer is still 200.
CompleteScanFails(h) ==
    /\ h.next = NSections + 1
    /\ CallFails(h)
    /\ Returns(h)
    /\ Answer(h, SendSucceeds)
    /\ UNCHANGED <<scans, clock, removed, attempt, drawn, diskVars>>

ServerCrash ==
    /\ handlers # {}
    /\ Spend("cut")
    /\ handlers' = {}
    /\ IF waiting THEN RetryOrFail(attempt) ELSE UNCHANGED <<pc, files, cur, waiting>>
    /\ UNCHANGED <<scans, clock, removed, diskVars, attempt, drawn>>

----------------------------------------------------------------------------
(* The server: deleting scans.                                             *)

\* latestScansSub: the usable scan with the latest created_at.
LatestScan(s) ==
    /\ scans[s].status \in Usable
    /\ \A t \in ScanIds : scans[t].status \in Usable
                             => scans[t].createdAt <= scans[s].createdAt

Delete(S) ==
    /\ scans' = [s \in ScanIds |-> IF s \in S THEN NoRow ELSE scans[s]]
    /\ removed' = removed \cup S

\* handleDeleteScan -> DeleteScan: the latest inventory needs force.
DeleteScan(s, force) ==
    /\ scans[s].status # "absent"
    /\ ~force => ~LatestScan(s)
    /\ Spend("delete")
    /\ Delete({s})
    /\ UNCHANGED <<clock, handlers, agentVars, diskVars>>

\* PruneOperationalData on pruneOldScansCTE.
PruneOldScans(c) ==
    LET old == {s \in ScanIds : /\ scans[s].status \in Usable
                                /\ scans[s].createdAt < c
                                /\ ~LatestScan(s)}
    IN  /\ Delete(old)
        /\ UNCHANGED <<clock, handlers, agentVars, diskVars, left>>

----------------------------------------------------------------------------
RunStep ==
    \/ StartRun \/ (\E s \in files : ReplayNext(s)) \/ ReplayDone \/ RemoveReplayed
    \/ Collect \/ CollectFails \/ SpoolReport \/ SendAttempt

HandlerStep(h) ==
    \/ CreateScanFails(h) \/ CreateScan(h)
    \/ StoreSection(h) \/ StoreSectionFails(h)
    \/ CompleteScan(h) \/ CompleteScanFails(h)

FaultStep ==
    \/ (\E s \in files : ReplayCorrupt(s)) \/ Unreachable \/ AnswerLost \/ AgentCrash \/ ServerCrash
    \/ \E h \in handlers : HandleReportRefuses(h)

AdminStep ==
    \/ \E s \in ScanIds, force \in BOOLEAN : DeleteScan(s, force)
    \/ \E c \in 0..(clock + 1) : PruneOldScans(c)

Next == RunStep \/ (\E h \in handlers : HandlerStep(h)) \/ FaultStep \/ AdminStep

Spec == Init /\ [][Next]_vars

----------------------------------------------------------------------------
(* Safety.                                                                 *)

\* No report slips away: one the agent has built is in its hands, in the
\* spool or at the server, unless it was evicted for newer ones, died with
\* the agent or its file, or was deleted at the server.  Violated if a
\* spooled file goes before the server has the report, or a 200 is sent for
\* a report CreateScan never stored.
NoReportLost ==
    \A s \in 1..drawn :
        \/ pc \in {"send", "spool"} /\ cur = s
        \/ s \in spool \cup evicted \cup lost \cup removed
        \/ scans[s].status # "absent"

\* The cap keeps the newest unsent reports ("newest data wins"): the spool
\* stays within SpoolMax and nothing in it is older than what was evicted.
SpoolKeepsNewest ==
    /\ Cardinality(spool) <= SpoolMax
    /\ \A e \in evicted, s \in spool : e < s

\* A scan shown as completed, not degraded, has every section of its report
\* stored, although handleReport stores them one by one, goes on after every
\* failure and may lose its agent or the database in between.  (A scan that is
\* deleted in the middle of its ingest and sent again is another matter: the
\* first call goes on and completes the row of the second.)
CompletedIsWhole ==
    \A s \in ScanIds \ removed :
        scans[s].status = "completed" => scans[s].stored = 1..NSections

\* The latest inventory of a host goes only by a forced deletion: never by
\* retention, and never by deleting a scan that looked superseded.
LatestGoesByForce ==
    [][\A s \in ScanIds :
          LatestScan(s) /\ s \in removed' \ removed => DeleteScan(s, TRUE)]_vars

\* docs/architecture.md:209: views derive from the latest scan per host, so
\* they never go stale.  Of two usable inventories the one built later is the
\* one latestScansSub ranks later.
LatestIsNewest ==
    \A s, t \in ScanIds :
        /\ scans[s].status \in Usable /\ scans[t].status \in Usable
        /\ s < t
        => scans[s].createdAt < scans[t].createdAt

----------------------------------------------------------------------------
(* Liveness.  The agent is run again and again, and the server works off   *)
(* what reaches it; nothing is assumed about faults beyond their budget.   *)

Fairness == /\ WF_vars(StartRun \/ (\E s \in files : ReplayNext(s)) \/ ReplayDone \/ RemoveReplayed)
            /\ WF_vars(CollectFails \/ SpoolReport \/ SendAttempt)
            /\ WF_vars(\E h \in handlers : HandlerStep(h))

LiveSpec == Init /\ [][RunStep \/ (\E h \in handlers : HandlerStep(h)) \/ FaultStep]_vars
                 /\ Fairness

\* The comment at run's SpoolReport (cmd/agent/main.go:612): a spooled report
\* is "replayed at the start of a later run once the server is back".
SpooledReportsLeave == \A s \in ScanIds : (s \in spool) ~> (s \notin spool)
=============================================================================

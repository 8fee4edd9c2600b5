----------------------------- MODULE ScanQueue -----------------------------
(***************************************************************************)
(* The scan request queue: the table scan_requests, the statements of      *)
(* internal/server/db/scan.go that change it, the HTTP handlers of         *)
(* internal/server/api/scan.go that run them, and the agent daemon of      *)
(* cmd/agent/main.go that claims, runs and completes requests.             *)
(*                                                                         *)
(* One action is one database transaction.  Time is abstracted to what the *)
(* statements compare: the stamps now() hands out are drawn from a counter *)
(* (clock), and "claimed_at < now() - timeout" is claimedAt < cutoff, where*)
(* cutoff advances by an action of its own.                                *)
(***************************************************************************)
EXTENDS Naturals, FiniteSets

CONSTANTS
    Hosts,        \* the host ids agents may report under
    NoHost,       \* the empty host id: "any host" / "not claimed"
    ReqIds,       \* the request ids (uuids), ordered as numbers
    NoReq,        \* an agent that runs no request
    MaxRevision,  \* bound: revisions of the security database are 0..MaxRevision
    OtherTypes,   \* scan types without a rule of their own ("manual", "daily")
    AgentOutcome, \* the outcomes agents report ("completed", "degraded", "failed")
    MaxEnqueue,   \* bound: requests are enqueued while clock < MaxEnqueue
    MaxClock,     \* bound: requests are claimed while clock < MaxClock
    MaxFaults     \* bound: lost answers, agent crashes and overrun claims

ASSUME ScanQueueAssumption ==
    /\ NoHost \notin Hosts
    /\ ReqIds \subseteq Nat
    /\ NoReq \notin ReqIds
    /\ MaxRevision \in Nat
    /\ OtherTypes # {} /\ "security-db-update" \notin OtherTypes
    /\ AgentOutcome \subseteq {"completed", "degraded", "failed"}
    /\ MaxEnqueue \in Nat
    /\ MaxClock \in Nat
    /\ MaxFaults \in Nat

VARIABLES
    rows,      \* scan_requests: one row per request id
    hosts,     \* the hosts table: ids with a row
    clock,     \* the last stamp now() handed out
    cutoff,    \* claims stamped before cutoff have timed out
    run,       \* run[h]: the request the daemon of h is executing
    sent,      \* completion calls the daemons have issued
    faults     \* how many faults have happened

vars == <<rows, hosts, clock, cutoff, run, sent, faults>>

ScanTypes == OtherTypes \cup {"security-db-update"}

\* "absent": not inserted yet.  "deleted": the row was inserted and removed.
Status == {"absent", "pending", "claimed", "completed", "degraded",
           "failed", "cancelled", "deleted"}

Terminal     == AgentOutcome \cup {"cancelled"}
Retryable    == {"failed", "degraded", "cancelled"}

Row == [status: Status, host: Hosts \cup {NoHost}, type: ScanTypes,
        rev: 0..MaxRevision, createdAt: Nat, claimedAt: Nat,
        claimedBy: Hosts \cup {NoHost}]

Completion == [id: ReqIds, host: Hosts, status: AgentOutcome]

TypeOK ==
    /\ rows \in [ReqIds -> Row]
    /\ hosts \subseteq Hosts
    /\ clock \in Nat
    /\ cutoff \in Nat
    /\ run \in [Hosts -> ReqIds \cup {NoReq}]
    /\ sent \subseteq Completion
    /\ faults \in Nat

AbsentRow == [status |-> "absent", host |-> NoHost, type |-> CHOOSE s \in OtherTypes : TRUE,
              rev |-> 0, createdAt |-> 0, claimedAt |-> 0, claimedBy |-> NoHost]

DeletedRow == [AbsentRow EXCEPT !.status = "deleted"]

PendingRow(h, type, rev, at) ==
    [status |-> "pending", host |-> h, type |-> type, rev |-> rev,
     createdAt |-> at, claimedAt |-> 0, claimedBy |-> NoHost]

Init ==
    /\ rows = [r \in ReqIds |-> AbsentRow]
    /\ hosts = {}
    /\ clock = 0
    /\ cutoff = 0
    /\ run = [h \in Hosts |-> NoReq]
    /\ sent = {}
    /\ faults = 0

----------------------------------------------------------------------------
(* State predicates on a table t: the WHERE clauses of the statements.     *)

AutoRescan(t, r) == t[r].type = "security-db-update" /\ t[r].host # NoHost

\* The rows under the partial unique index of migrations/015: the pending
\* automatic rescans, of which a host may have one.
PendingRescan(t, r, h) ==
    AutoRescan(t, r) /\ t[r].host = h /\ t[r].status = "pending"

StaleClaim(t, r, c) == t[r].status = "claimed" /\ t[r].claimedAt < c

\* cancelStaleSecurityDBDuplicates: a timed out automatic rescan that has a
\* pending sibling, or a timed out sibling that was claimed later.
LaterClaim(t, q, r) ==
    \/ t[q].claimedAt > t[r].claimedAt
    \/ t[q].claimedAt = t[r].claimedAt /\ t[q].createdAt > t[r].createdAt
    \/ /\ t[q].claimedAt = t[r].claimedAt
       /\ t[q].createdAt = t[r].createdAt
       /\ q > r

\* Mutant: the window function's rank is ignored.
SupersededByPendingOnly(t, r, c) ==
    /\ StaleClaim(t, r, c)
    /\ AutoRescan(t, r)
    /\ \E q \in ReqIds : AutoRescan(t, q) /\ t[q].host = t[r].host /\ t[q].status = "pending"

\* Mutant: rn >= 1 instead of rn > 1.
SupersededByItself(t, r, c) == StaleClaim(t, r, c) /\ AutoRescan(t, r)

Superseded(t, r, c) ==
    /\ StaleClaim(t, r, c)
    /\ AutoRescan(t, r)
    /\ \E q \in ReqIds :
         /\ AutoRescan(t, q)
         /\ t[q].host = t[r].host
         /\ \/ t[q].status = "pending"
            \/ StaleClaim(t, q, c) /\ LaterClaim(t, q, r)

Unclaimed(row) == [row EXCEPT !.status = "pending", !.claimedAt = 0,
                              !.claimedBy = NoHost]

\* Mutant: timed out claims are never returned to the queue.
SweptCancelOnly(t, c) ==
    [r \in ReqIds |->
        IF Superseded(t, r, c) THEN [t[r] EXCEPT !.status = "cancelled"] ELSE t[r]]

\* The two statements that ClaimScanRequest and RequeueStaleScanRequests
\* start with: cancel superseded claims, return the other timed out ones.
Swept(t, c) ==
    [r \in ReqIds |->
        IF Superseded(t, r, c) THEN [t[r] EXCEPT !.status = "cancelled"]
        ELSE IF StaleClaim(t, r, c) THEN Unclaimed(t[r])
        ELSE t[r]]

----------------------------------------------------------------------------
(* Hosts.                                                                  *)

\* handleReport -> UpsertHostWithAgentToken: a report makes the host known.
RegisterHost(h) ==
    /\ h \notin hosts
    /\ hosts' = hosts \cup {h}
    /\ UNCHANGED <<rows, clock, cutoff, run, sent, faults>>

\* DeleteHost: removes the host and every request it targets or has claimed.
DeleteHost(h) ==
    /\ h \in hosts
    /\ hosts' = hosts \ {h}
    /\ rows' = [r \in ReqIds |->
                  IF rows[r].status # "absent"
                       /\ (rows[r].host = h \/ rows[r].claimedBy = h)
                  THEN DeletedRow
                  ELSE rows[r]]
    /\ UNCHANGED <<clock, cutoff, run, sent, faults>>

----------------------------------------------------------------------------
(* Creating requests.                                                      *)

\* CreateScanRequest: the INSERT.  A second pending automatic rescan of a host
\* hits the unique index and changes nothing.
CreateScanRequest(h, type, rev) ==
    /\ ~ \E q \in ReqIds : type = "security-db-update" /\ PendingRescan(rows, q, h)
    /\ \E r \in ReqIds :
         /\ rows[r].status = "absent"
         /\ rows' = [rows EXCEPT ![r] = PendingRow(h, type, rev, clock + 1)]
    /\ clock' = clock + 1
    /\ UNCHANGED <<hosts, cutoff, run, sent, faults>>

\* handleCreateScanRequest: a request names a known host, or none.
HandleCreateScanRequest(h, type, rev) ==
    /\ clock < MaxEnqueue
    /\ h \in hosts \cup {NoHost}
    /\ CreateScanRequest(h, type, rev)

\* QueueSecurityDBRescans: one transaction that, for every eligible host,
\* inserts a pending automatic rescan or overwrites the pending one.  fresh
\* gives the uuid drawn for each host that has none.
QueueSecurityDBRescans(eligible, rev) ==
    LET Has(h) == \E r \in ReqIds : PendingRescan(rows, r, h)
        Missing == {h \in eligible : ~Has(h)}
    IN  /\ clock < MaxEnqueue
        /\ eligible \subseteq hosts
        /\ \E fresh \in [Missing -> {r \in ReqIds : rows[r].status = "absent"}] :
             /\ \A g, h \in Missing : fresh[g] = fresh[h] => g = h
             /\ rows' = [r \in ReqIds |->
                  IF \E h \in Missing : fresh[h] = r
                  THEN PendingRow(CHOOSE h \in Missing : fresh[h] = r,
                                  "security-db-update", rev, clock + 1)
                  ELSE IF \E h \in eligible : PendingRescan(rows, r, h)
                  THEN PendingRow(rows[r].host, rows[r].type, rev, clock + 1)
                  ELSE rows[r]]
        /\ clock' = clock + 1
        /\ UNCHANGED <<hosts, cutoff, run, sent, faults>>

----------------------------------------------------------------------------
(* Claiming and running.                                                   *)

\* The inner SELECT of ClaimScanRequest on the swept table: the oldest
\* pending request for the host among the rows no other transaction has
\* locked (FOR UPDATE SKIP LOCKED).
Oldest(t, candidates) ==
    {r \in candidates : \A q \in candidates : t[r].createdAt <= t[q].createdAt}

Claimable(t, h) ==
    {r \in ReqIds : t[r].status = "pending" /\ t[r].host \in {NoHost, h}}

\* verifyAgentHostBinding: with the host binding on (the default), an agent is
\* heard only while its host has a row.
AgentBound(h) == h \in hosts

\* ClaimScanRequest: the sweep and the claim commit together; when nothing is
\* claimable the sweep commits alone.  The answer is the claimed request.
ClaimScanRequest(h, locked, answer) ==
    LET t == Swept(rows, cutoff)
    IN  \/ /\ answer \in Oldest(t, Claimable(t, h) \ locked)
           /\ clock < MaxClock
           /\ rows' = [t EXCEPT ![answer].status = "claimed",
                                ![answer].claimedAt = clock + 1,
                                ![answer].claimedBy = h]
           /\ clock' = clock + 1
        \/ /\ answer = NoReq
           /\ Claimable(t, h) \ locked = {}
           /\ rows' = t
           /\ UNCHANGED clock

\* handleClaimScanRequest, called by an idle daemon.  The answer reaches the
\* daemon, or is lost after the commit and the daemon asks again.
HandleClaimScanRequest(h, locked, answer, lost) ==
    /\ run[h] = NoReq
    /\ AgentBound(h)
    /\ lost => answer # NoReq /\ faults < MaxFaults
    /\ ClaimScanRequest(h, locked, answer)
    /\ run' = IF lost THEN run ELSE [run EXCEPT ![h] = answer]
    /\ faults' = IF lost THEN faults + 1 ELSE faults
    /\ UNCHANGED <<hosts, cutoff, sent>>

\* runDaemon after run(...): the daemon issues the completion call and goes
\* back to polling, whether or not the call was answered.
FinishRun(h, outcome) ==
    /\ run[h] # NoReq
    /\ sent' = sent \cup {[id |-> run[h], host |-> h, status |-> outcome]}
    /\ run' = [run EXCEPT ![h] = NoReq]
    /\ UNCHANGED <<rows, hosts, clock, cutoff, faults>>

\* The agent process dies in the middle of a run and is restarted.
AgentCrash(h) ==
    /\ run[h] # NoReq
    /\ faults < MaxFaults
    /\ run' = [run EXCEPT ![h] = NoReq]
    /\ faults' = faults + 1
    /\ UNCHANGED <<rows, hosts, clock, cutoff, sent>>

\* Mutant: any active request is completed, whoever holds it.
CompleteActiveScanRequest(id, host, status) ==
    /\ rows[id].status \in {"pending", "claimed"}
    /\ rows' = [rows EXCEPT ![id].status = status]

\* CompleteClaimedScanRequest: the UPDATE checks the claimant.  On any other
\* row the call is refused and changes nothing.
CompleteClaimedScanRequest(id, host, status) ==
    /\ rows[id].status = "claimed"
    /\ rows[id].claimedBy = host
    /\ rows' = [rows EXCEPT ![id].status = status]

\* handleCompleteScanRequest, run whenever an attempt of an issued call
\* arrives: late, repeated or never.
HandleCompleteScanRequest(m) ==
    /\ AgentBound(m.host)
    /\ CompleteClaimedScanRequest(m.id, m.host, m.status)
    /\ UNCHANGED <<hosts, clock, cutoff, run, sent, faults>>

\* Claims made so far reach the claim timeout.  It is a fault when the daemon
\* is still at work on the request, or its completion call is on the way.
Overrun == \E r \in ReqIds, h \in Hosts :
              /\ rows[r].status = "claimed"
              /\ rows[r].claimedBy = h
              /\ rows[r].claimedAt >= cutoff
              /\ run[h] = r \/ \E m \in sent : m.id = r /\ m.host = h

\* Time that passes while no younger claim exists tells nothing apart.
ClaimsTimeOut ==
    /\ \E r \in ReqIds : rows[r].status = "claimed" /\ rows[r].claimedAt >= cutoff
    /\ faults' = IF Overrun THEN faults + 1 ELSE faults
    /\ faults' <= MaxFaults
    /\ cutoff' = clock + 1
    /\ UNCHANGED <<rows, hosts, clock, run, sent>>

----------------------------------------------------------------------------
(* Administration.                                                         *)

\* CompleteScanRequest: the UPDATE behind the admin's cancel.
CompleteScanRequest(r, status) ==
    /\ rows[r].status \in {"pending", "claimed"}
    /\ rows' = [rows EXCEPT ![r].status = status]

HandleCancelScanRequest(r) ==
    /\ CompleteScanRequest(r, "cancelled")
    /\ UNCHANGED <<hosts, clock, cutoff, run, sent, faults>>

\* The WHERE clause RequeueScanRequest and RequeueScanRequestsByFilter share.
MayRequeue(r) ==
    /\ rows[r].status \in Retryable
    /\ AutoRescan(rows, r) =>
         ~ \E q \in ReqIds \ {r} : PendingRescan(rows, q, rows[r].host)

RequeueScanRequest(r) ==
    /\ MayRequeue(r)
    /\ rows' = [rows EXCEPT ![r] = Unclaimed(rows[r])]

HandleRequeueScanRequest(r) ==
    /\ RequeueScanRequest(r)
    /\ UNCHANGED <<hosts, clock, cutoff, run, sent, faults>>

\* RequeueScanRequestsByFilter.  The NOT EXISTS is evaluated on the statement's
\* snapshot, so two rows of one host may both pass it; the unique index then
\* fails the whole statement.
FilterMatches(r, h, status, type, rev) ==
    /\ h # NoHost => rows[r].host = h
    /\ status # "any" => rows[r].status = status
    /\ type # "any" => rows[r].type = type
    /\ rev # 0 => rows[r].rev = rev

RequeueScanRequestsByFilter(h, status, type, rev) ==
    LET hit == {r \in ReqIds : MayRequeue(r) /\ FilterMatches(r, h, status, type, rev)}
    IN  /\ \A q, r \in hit : AutoRescan(rows, q) /\ AutoRescan(rows, r)
                                /\ rows[q].host = rows[r].host => q = r
        /\ rows' = [r \in ReqIds |-> IF r \in hit THEN Unclaimed(rows[r]) ELSE rows[r]]

\* handleRequeueFilteredScanRequests: a known host or none, and some filter.
HandleRequeueFiltered(h, status, type, rev) ==
    /\ h \in hosts \/ (h = NoHost /\ <<status, type, rev>> # <<"any", "any", 0>>)
    /\ RequeueScanRequestsByFilter(h, status, type, rev)
    /\ UNCHANGED <<hosts, clock, cutoff, run, sent, faults>>

\* handleRequeueStaleScanRequests -> RequeueStaleScanRequests with the
\* timeout of the request body: any cutoff up to now.
HandleRequeueStale(c) ==
    /\ rows' = Swept(rows, c)
    /\ UNCHANGED <<hosts, clock, cutoff, run, sent, faults>>

\* PruneOperationalData: terminal requests created before c are deleted.
PruneRequests(c) ==
    /\ rows' = [r \in ReqIds |->
                  IF rows[r].status \in Terminal /\ rows[r].createdAt < c
                  THEN DeletedRow ELSE rows[r]]
    /\ UNCHANGED <<hosts, clock, cutoff, run, sent, faults>>

----------------------------------------------------------------------------
\* The pending rows that open transactions of others have locked may be any.
AgentStep(h) ==
    \/ \E locked \in SUBSET {r \in ReqIds : rows[r].status = "pending"},
          answer \in ReqIds \cup {NoReq}, lost \in BOOLEAN :
             HandleClaimScanRequest(h, locked, answer, lost)
    \/ \E outcome \in AgentOutcome : FinishRun(h, outcome)
    \/ AgentCrash(h)

AdminStep ==
    \/ \E h \in Hosts : DeleteHost(h)
    \/ \E r \in ReqIds : HandleCancelScanRequest(r)
    \/ \E r \in ReqIds : HandleRequeueScanRequest(r)
    \/ \E h \in Hosts \cup {NoHost}, status \in Retryable \cup {"any"},
          type \in ScanTypes \cup {"any"}, rev \in 0..MaxRevision :
             HandleRequeueFiltered(h, status, type, rev)
    \/ \E c \in 0..(clock + 1) : HandleRequeueStale(c)
    \/ \E c \in 0..(clock + 1) : PruneRequests(c)

\* What happens without an administrator.
SystemStep ==
    \/ \E h \in Hosts : RegisterHost(h)
    \/ \E h \in Hosts \cup {NoHost}, type \in ScanTypes, rev \in 0..MaxRevision :
          HandleCreateScanRequest(h, type, rev)
    \/ \E eligible \in SUBSET hosts, rev \in 0..MaxRevision :
          QueueSecurityDBRescans(eligible, rev)
    \/ \E h \in Hosts : AgentStep(h)
    \/ \E m \in sent : HandleCompleteScanRequest(m)
    \/ ClaimsTimeOut

Next == SystemStep \/ AdminStep

Spec == Init /\ [][Next]_vars

----------------------------------------------------------------------------
(* Safety.                                                                 *)

\* A host never has two pending automatic rescans.  CreateScanRequest and
\* QueueSecurityDBRescans are held to it by the partial unique index of
\* migrations/015; the requeue of timed out claims is held to it only by
\* cancelStaleSecurityDBDuplicates running first, and a violation there
\* would make every claim of every agent fail on the index.
UniquePendingRescan ==
    \A q, r \in ReqIds, h \in Hosts :
        PendingRescan(rows, q, h) /\ PendingRescan(rows, r, h) => q = r

\* A claim is held by a host the request is meant for, and a request that
\* waits in the queue carries nothing of an earlier claim: DeleteHost
\* deletes by claimed_by_host_id, so a leftover claimant would take a
\* waiting request of another host with it.
ClaimConsistent ==
    \A r \in ReqIds :
        /\ rows[r].status = "claimed" =>
              /\ rows[r].claimedBy \in Hosts
              /\ rows[r].host \in {NoHost, rows[r].claimedBy}
              /\ rows[r].claimedAt \in 1..clock
        /\ rows[r].status = "pending" =>
              rows[r].claimedBy = NoHost /\ rows[r].claimedAt = 0

\* The outcome recorded for a request is one that the host holding the
\* claim reported after running it, however late, repeated or reordered the
\* completion calls arrive and however often the request changed hands
\* (CompleteClaimedScanRequest checks the claimant, not the claim).
OutcomeFromHolder ==
    \A r \in ReqIds :
        rows[r].status \in AgentOutcome =>
            [id |-> r, host |-> rows[r].claimedBy, status |-> rows[r].status] \in sent

LiveRescan(t, r, h) ==
    AutoRescan(t, r) /\ t[r].host = h /\ t[r].status \in {"pending", "claimed"}

\* Cancelling timed out duplicates never takes a host's last automatic
\* rescan: the sweep at the start of a claim or of the admin's requeue-stale
\* leaves one pending or claimed for every host that had one.
SweepKeepsARescan ==
    \A c \in 0..(clock + 1), h \in Hosts :
        (\E r \in ReqIds : LiveRescan(rows, r, h))
            => \E r \in ReqIds : LiveRescan(Swept(rows, c), r, h)

----------------------------------------------------------------------------
(* Liveness.  Daemons poll, finish what they run and get one attempt of a  *)
(* completion call through; time passes.  No administrator is assumed.     *)

Live(r) == rows[r].status \in {"pending", "claimed"}

Fairness ==
    /\ \A h \in Hosts : /\ WF_vars(\E answer \in ReqIds \cup {NoReq} :
                                   HandleClaimScanRequest(h, {}, answer, FALSE))
                        /\ WF_vars(\E outcome \in AgentOutcome : FinishRun(h, outcome))
    /\ WF_vars(\E m \in sent : HandleCompleteScanRequest(m))
    /\ WF_vars(ClaimsTimeOut)

LiveSpec == Init /\ [][SystemStep]_vars /\ Fairness

\* Every request some known host may serve is eventually settled, through
\* lost claim answers, agent crashes and claims that time out: a claim whose
\* agent is gone goes back to the queue and is run again.
EveryRequestSettles ==
    \A r \in ReqIds :
        (Live(r) /\ hosts # {} /\ rows[r].host \in hosts \cup {NoHost}) ~> ~Live(r)
============================================================================

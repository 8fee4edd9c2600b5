-------------------------- MODULE ScanQueueProofs --------------------------
(***************************************************************************)
(* Theorems about ScanQueue for every set of hosts, every set of request   *)
(* ids and every value of the bounds.                                      *)
(***************************************************************************)
EXTENDS ScanQueue, FiniteSetTheorems, TLAPS

USE ScanQueueAssumption

----------------------------------------------------------------------------
(* The operators the actions are built from preserve the type of a row.    *)

\* An id without a row, and the mark a deletion leaves, are rows of the table.
LEMMA AbsentRowType == AbsentRow \in Row /\ DeletedRow \in Row
  <1>1. (CHOOSE s \in OtherTypes : TRUE) \in OtherTypes
    OBVIOUS
  <1>2. AbsentRow \in Row
    BY <1>1 DEF AbsentRow, Row, Status, ScanTypes
  <1>3. QED
    BY <1>2 DEF DeletedRow, Row, Status

\* A completion or a cancellation, which sets the status alone, leaves a table.
LEMMA StatusUpdateType ==
  ASSUME rows \in [ReqIds -> Row], NEW r \in ReqIds, NEW status \in Status
  PROVE  [rows EXCEPT ![r].status = status] \in [ReqIds -> Row]
  <1>1. [rows[r] EXCEPT !.status = status] \in Row
    <2>1. rows[r] \in Row
      OBVIOUS
    <2>2. QED
      BY <2>1 DEF Row
  <1>2. [rows EXCEPT ![r].status = status]
          = [rows EXCEPT ![r] = [rows[r] EXCEPT !.status = status]]
    OBVIOUS
  <1>3. QED
    BY <1>1, <1>2

\* What CreateScanRequest and QueueSecurityDBRescans insert is a row.
LEMMA PendingRowType ==
  ASSUME NEW h \in Hosts \cup {NoHost}, NEW type \in ScanTypes,
         NEW rev \in 0..MaxRevision, NEW at \in Nat
  PROVE  /\ PendingRow(h, type, rev, at + 1) \in Row
         /\ PendingRow(h, type, rev, at + 1).status = "pending"
         /\ PendingRow(h, type, rev, at + 1).host = h
         /\ PendingRow(h, type, rev, at + 1).type = type
         /\ PendingRow(h, type, rev, at + 1).claimedAt = 0
         /\ PendingRow(h, type, rev, at + 1).claimedBy = NoHost
  BY DEF PendingRow, Row, Status

\* Taking the claim off a row (a requeue) leaves a row.
LEMMA UnclaimedType ==
  ASSUME NEW row \in Row
  PROVE  /\ Unclaimed(row) \in Row
         /\ Unclaimed(row).status = "pending"
         /\ Unclaimed(row).claimedAt = 0
         /\ Unclaimed(row).claimedBy = NoHost
         /\ Unclaimed(row).host = row.host
         /\ Unclaimed(row).type = row.type
  BY DEF Unclaimed, Row, Status

\* What the sweep of ClaimScanRequest and RequeueStaleScanRequests may do to a
\* row: nothing, cancel a timed out claim, or return one to the queue.
LEMMA SweptRow ==
  ASSUME NEW t \in [ReqIds -> Row], NEW c \in Nat, NEW r \in ReqIds
  PROVE  /\ Swept(t, c)[r] \in Row
         /\ Swept(t, c)[r].host = t[r].host
         /\ Swept(t, c)[r].type = t[r].type
         /\ \/ Swept(t, c)[r] = t[r] /\ ~StaleClaim(t, r, c)
            \/ /\ Superseded(t, r, c)
               /\ StaleClaim(t, r, c)
               /\ Swept(t, c)[r].status = "cancelled"
            \/ /\ ~Superseded(t, r, c)
               /\ StaleClaim(t, r, c)
               /\ Swept(t, c)[r] = Unclaimed(t[r])
  <1>1. Superseded(t, r, c) => StaleClaim(t, r, c)
    BY DEF Superseded
  <1>2. CASE Superseded(t, r, c)
    <2>1. Swept(t, c)[r] = [t[r] EXCEPT !.status = "cancelled"]
      BY <1>2 DEF Swept
    <2>2. QED
      BY <1>1, <1>2, <2>1 DEF Row, Status
  <1>3. CASE ~Superseded(t, r, c) /\ StaleClaim(t, r, c)
    <2>1. Swept(t, c)[r] = Unclaimed(t[r])
      BY <1>3 DEF Swept
    <2>2. QED
      BY <1>3, <2>1, UnclaimedType
  <1>4. CASE ~Superseded(t, r, c) /\ ~StaleClaim(t, r, c)
    <2>1. Swept(t, c)[r] = t[r]
      BY <1>4 DEF Swept
    <2>2. QED
      BY <1>4, <2>1
  <1>5. QED
    BY <1>2, <1>3, <1>4

\* The sweep leaves a table of rows.
LEMMA SweptType ==
  ASSUME NEW t \in [ReqIds -> Row], NEW c \in Nat
  PROVE  Swept(t, c) \in [ReqIds -> Row]
  <1>1. \A r \in ReqIds : Swept(t, c)[r] \in Row
    BY SweptRow
  <1>2. Swept(t, c) = [r \in ReqIds |-> Swept(t, c)[r]]
    BY DEF Swept
  <1>3. QED
    BY <1>1, <1>2

\* What one step of QueueSecurityDBRescans does to a row: it inserts the row
\* for a host without a pending rescan, moves a pending rescan to the back
\* of the queue, or leaves the row alone.
LEMMA QueuedRows ==
  ASSUME TypeOK, NEW eligible \in SUBSET hosts, NEW rev \in 0..MaxRevision,
         QueueSecurityDBRescans(eligible, rev)
  PROVE  /\ rows' \in [ReqIds -> Row]
         /\ \A r \in ReqIds :
              \/ rows'[r] = rows[r]
              \/ /\ rows[r].status = "absent"
                 /\ rows'[r].status = "pending"
                 /\ rows'[r].host \in eligible
                 /\ ~ \E q \in ReqIds : PendingRescan(rows, q, rows'[r].host)
                 /\ rows'[r].claimedAt = 0 /\ rows'[r].claimedBy = NoHost
              \/ /\ rows[r].status = "pending" /\ rows'[r].status = "pending"
                 /\ rows'[r].host = rows[r].host
                 /\ rows'[r].type = rows[r].type
                 /\ rows'[r].claimedAt = 0 /\ rows'[r].claimedBy = NoHost
         /\ \A q, r \in ReqIds :
              /\ rows[q].status = "absent" /\ rows'[q].status = "pending"
              /\ rows[r].status = "absent" /\ rows'[r].status = "pending"
              /\ rows'[q].host = rows'[r].host
              => q = r
  <1> DEFINE Missing == {h \in eligible :
                           ~ \E r \in ReqIds : PendingRescan(rows, r, h)}
             Absent == {r \in ReqIds : rows[r].status = "absent"}
             New(h) == PendingRow(h, "security-db-update", rev, clock + 1)
             Moved(r) == PendingRow(rows[r].host, rows[r].type, rev, clock + 1)
  <1>1. PICK fresh \in [Missing -> Absent] :
             /\ \A g, h \in Missing : fresh[g] = fresh[h] => g = h
             /\ rows' = [r \in ReqIds |->
                  IF \E h \in Missing : fresh[h] = r
                  THEN New(CHOOSE h \in Missing : fresh[h] = r)
                  ELSE IF \E h \in eligible : PendingRescan(rows, r, h)
                  THEN Moved(r)
                  ELSE rows[r]]
    BY DEF QueueSecurityDBRescans
  <1>2. ASSUME NEW h \in Missing
        PROVE  /\ New(h) \in Row
               /\ New(h).status = "pending" /\ New(h).host = h
               /\ New(h).claimedAt = 0 /\ New(h).claimedBy = NoHost
    <2>1. h \in Hosts \cup {NoHost} /\ clock \in Nat
      BY DEF TypeOK
    <2>2. QED
      BY <2>1, PendingRowType DEF ScanTypes
  <1>3. ASSUME NEW r \in ReqIds
        PROVE  /\ Moved(r) \in Row
               /\ Moved(r).status = "pending"
               /\ Moved(r).host = rows[r].host
               /\ Moved(r).type = rows[r].type
               /\ Moved(r).claimedAt = 0
               /\ Moved(r).claimedBy = NoHost
    <2>1. rows[r] \in Row /\ clock \in Nat
      BY DEF TypeOK
    <2>2. QED
      BY <2>1, PendingRowType DEF Row
  <1>4. ASSUME NEW r \in ReqIds, NEW h \in Missing, fresh[h] = r
        PROVE  /\ rows'[r] = New(h) /\ rows[r].status = "absent"
    <2>1. (CHOOSE g \in Missing : fresh[g] = r) = h
      BY <1>1, <1>4
    <2>2. QED
      BY <1>1, <1>4, <2>1
  <1>5. ASSUME NEW r \in ReqIds, ~ \E h \in Missing : fresh[h] = r,
               NEW h \in eligible, PendingRescan(rows, r, h)
        PROVE  rows'[r] = Moved(r) /\ rows[r].status = "pending"
    BY <1>1, <1>5 DEF PendingRescan
  <1>6. ASSUME NEW r \in ReqIds, ~ \E h \in Missing : fresh[h] = r,
               ~ \E h \in eligible : PendingRescan(rows, r, h)
        PROVE  rows'[r] = rows[r]
    BY <1>1, <1>6
  <1> HIDE DEF Missing, New, Moved, Absent
  <1>7. \A r \in ReqIds : rows'[r] \in Row
    <2> TAKE r \in ReqIds
    <2>1. rows[r] \in Row
      BY DEF TypeOK
    <2>2. QED
      BY <1>2, <1>3, <1>4, <1>5, <1>6, <2>1
  <1>8. rows' \in [ReqIds -> Row]
    <2>1. rows' = [r \in ReqIds |-> rows'[r]]
      BY <1>1
    <2>2. QED
      BY <1>7, <2>1
  <1>9. ASSUME NEW h \in Missing
        PROVE  h \in eligible /\ ~ \E q \in ReqIds : PendingRescan(rows, q, h)
    BY DEF Missing
  <1>10. ASSUME NEW r \in ReqIds, rows[r].status = "absent",
                rows'[r].status = "pending"
         PROVE  \E h \in Missing : fresh[h] = r /\ rows'[r].host = h
    BY <1>10, <1>2, <1>4, <1>5, <1>6
  <1>11. QED
    BY <1>2, <1>3, <1>4, <1>5, <1>6, <1>8, <1>9, <1>10

----------------------------------------------------------------------------
(* Type correctness.                                                       *)

\* Every step of the queue keeps the types.
LEMMA TypeStep == TypeOK /\ [Next]_vars => TypeOK'
  <1> SUFFICES ASSUME TypeOK, [Next]_vars PROVE TypeOK'
    OBVIOUS
  <1> USE DEF TypeOK
  <1>1. ASSUME NEW h \in Hosts, RegisterHost(h) PROVE TypeOK'
    BY <1>1 DEF RegisterHost
  <1>2. ASSUME NEW h \in Hosts, DeleteHost(h) PROVE TypeOK'
    <2>1. rows' \in [ReqIds -> Row]
      BY <1>2, AbsentRowType DEF DeleteHost
    <2>2. QED
      BY <1>2, <2>1 DEF DeleteHost
  <1>3. ASSUME NEW h \in Hosts \cup {NoHost}, NEW type \in ScanTypes,
               NEW rev \in 0..MaxRevision, HandleCreateScanRequest(h, type, rev)
        PROVE  TypeOK'
    <2>1. PICK r \in ReqIds :
             rows' = [rows EXCEPT ![r] = PendingRow(h, type, rev, clock + 1)]
      BY <1>3 DEF HandleCreateScanRequest, CreateScanRequest
    <2>2. PendingRow(h, type, rev, clock + 1) \in Row
      <3>1. rev \in 0..MaxRevision /\ clock \in Nat
        OBVIOUS
      <3>2. QED
        BY <3>1, PendingRowType
    <2>3. rows' \in [ReqIds -> Row]
      BY <2>1, <2>2
    <2>4. QED
      BY <1>3, <2>3 DEF HandleCreateScanRequest, CreateScanRequest
  <1>4. ASSUME NEW eligible \in SUBSET hosts, NEW rev \in 0..MaxRevision,
               QueueSecurityDBRescans(eligible, rev)
        PROVE  TypeOK'
    <2>1. rows' \in [ReqIds -> Row]
      BY <1>4, QueuedRows
    <2>2. clock' = clock + 1
          /\ UNCHANGED <<hosts, cutoff, run, sent, faults>>
      BY <1>4 DEF QueueSecurityDBRescans
    <2>3. QED
      BY <2>1, <2>2
  <1>5. ASSUME NEW h \in Hosts, NEW locked, NEW answer \in ReqIds \cup {NoReq},
               NEW lost \in BOOLEAN, HandleClaimScanRequest(h, locked, answer, lost)
        PROVE  TypeOK'
    <2>1. Swept(rows, cutoff) \in [ReqIds -> Row]
      BY SweptType
    <2>2. rows' \in [ReqIds -> Row] /\ clock' \in Nat
      BY <1>5, <2>1 DEF HandleClaimScanRequest, ClaimScanRequest, Oldest, Row, Status
    <2>3. run' \in [Hosts -> ReqIds \cup {NoReq}] /\ faults' \in Nat
      BY <1>5 DEF HandleClaimScanRequest
    <2>4. QED
      BY <1>5, <2>2, <2>3 DEF HandleClaimScanRequest
  <1>6. ASSUME NEW h \in Hosts, NEW outcome \in AgentOutcome, FinishRun(h, outcome)
        PROVE  TypeOK'
    BY <1>6 DEF FinishRun, Completion
  <1>7. ASSUME NEW h \in Hosts, AgentCrash(h) PROVE TypeOK'
    BY <1>7 DEF AgentCrash
  <1>8. ASSUME NEW m \in sent, HandleCompleteScanRequest(m) PROVE TypeOK'
    <2>1. m \in Completion
      OBVIOUS
    <2>a. m.id \in ReqIds /\ m.status \in Status
      BY <2>1, ScanQueueAssumption DEF Completion, Status
    <2>b. rows' = [rows EXCEPT ![m.id].status = m.status]
      BY <1>8 DEF HandleCompleteScanRequest, CompleteClaimedScanRequest
    <2>2. rows' \in [ReqIds -> Row]
      BY <2>a, <2>b, StatusUpdateType
    <2>3. QED
      BY <1>8, <2>2 DEF HandleCompleteScanRequest
  <1>9. ASSUME ClaimsTimeOut PROVE TypeOK'
    BY <1>9 DEF ClaimsTimeOut
  <1>10. ASSUME NEW r \in ReqIds, HandleCancelScanRequest(r) PROVE TypeOK'
    <2>1. rows' \in [ReqIds -> Row]
      <3>1. rows' = [rows EXCEPT ![r].status = "cancelled"]
        BY <1>10 DEF HandleCancelScanRequest, CompleteScanRequest
      <3>2. "cancelled" \in Status
        BY DEF Status
      <3>3. QED
        BY <3>1, <3>2, StatusUpdateType
    <2>2. QED
      BY <1>10, <2>1 DEF HandleCancelScanRequest
  <1>11. ASSUME NEW r \in ReqIds, HandleRequeueScanRequest(r) PROVE TypeOK'
    <2>1. rows' \in [ReqIds -> Row]
      BY <1>11, UnclaimedType DEF HandleRequeueScanRequest, RequeueScanRequest
    <2>2. QED
      BY <1>11, <2>1 DEF HandleRequeueScanRequest
  <1>12. ASSUME NEW h, NEW status, NEW type, NEW rev,
                HandleRequeueFiltered(h, status, type, rev)
         PROVE  TypeOK'
    <2>1. rows' \in [ReqIds -> Row]
      BY <1>12, UnclaimedType DEF HandleRequeueFiltered, RequeueScanRequestsByFilter
    <2>2. QED
      BY <1>12, <2>1 DEF HandleRequeueFiltered
  <1>13. ASSUME NEW c \in 0..(clock + 1), HandleRequeueStale(c) PROVE TypeOK'
    <2>1. c \in Nat
      OBVIOUS
    <2>2. rows' \in [ReqIds -> Row]
      BY <1>13, <2>1, SweptType DEF HandleRequeueStale
    <2>3. QED
      BY <1>13, <2>2 DEF HandleRequeueStale
  <1>14. ASSUME NEW c \in 0..(clock + 1), PruneRequests(c) PROVE TypeOK'
    <2>1. rows' \in [ReqIds -> Row]
      BY <1>14, AbsentRowType DEF PruneRequests
    <2>2. QED
      BY <1>14, <2>1 DEF PruneRequests
  <1>15. ASSUME UNCHANGED vars PROVE TypeOK'
    BY <1>15 DEF vars
  <1> HIDE DEF TypeOK
  <1>16. CASE SystemStep
    <2>1. ASSUME NEW h \in Hosts, AgentStep(h) PROVE TypeOK'
      BY <2>1, <1>5, <1>6, <1>7 DEF AgentStep
    <2>2. QED
      BY <1>16, <2>1, <1>1, <1>3, <1>4, <1>8, <1>9 DEF SystemStep
  <1>17. CASE AdminStep
    BY <1>17, <1>2, <1>10, <1>11, <1>12, <1>13, <1>14 DEF AdminStep
  <1>18. QED
    BY <1>15, <1>16, <1>17 DEF Next

\* TypeOK: every row of scan_requests, host and completion call keeps its type
\* in every behaviour of the queue.
THEOREM TypeCorrect == Spec => []TypeOK
  <1>1. Init => TypeOK
    BY AbsentRowType DEF Init, TypeOK
  <1>2. QED
    BY <1>1, TypeStep, PTL DEF Spec

----------------------------------------------------------------------------
(* What a step may do to one row, in the terms of the invariants.          *)

Same(r) == rows'[r] = rows[r]

Inserted(r) ==
    /\ rows[r].status = "absent"
    /\ rows'[r].status = "pending"
    /\ rows'[r].claimedAt = 0 /\ rows'[r].claimedBy = NoHost

Waiting(r) ==
    /\ rows[r].status # "absent"
    /\ rows'[r].status = "pending"
    /\ rows'[r].host = rows[r].host
    /\ rows'[r].type = rows[r].type
    /\ rows'[r].claimedAt = 0 /\ rows'[r].claimedBy = NoHost

Taken(r) ==
    /\ rows'[r].status = "claimed"
    /\ rows'[r].claimedBy \in Hosts
    /\ rows'[r].host \in {NoHost, rows'[r].claimedBy}
    /\ rows'[r].claimedAt = clock + 1 /\ clock' = clock + 1

Settled(r) ==
    /\ rows'[r].status \in AgentOutcome
    /\ [id |-> r, host |-> rows'[r].claimedBy, status |-> rows'[r].status] \in sent'

Gone(r) == rows'[r].status \in {"cancelled", "deleted"}

RowStep(r) == Same(r) \/ Inserted(r) \/ Waiting(r) \/ Taken(r) \/ Settled(r) \/ Gone(r)

\* Every step changes every row in one of these ways, hands out later stamps
\* only, and never takes a completion call back.
LEMMA StepShape ==
  TypeOK /\ [Next]_vars =>
      /\ \A r \in ReqIds : RowStep(r)
      /\ clock' \in {clock, clock + 1}
      /\ sent \subseteq sent'
  <1> DEFINE Shape == /\ \A r \in ReqIds : RowStep(r)
                     /\ clock' \in {clock, clock + 1}
                     /\ sent \subseteq sent'
  <1> SUFFICES ASSUME TypeOK, [Next]_vars PROVE Shape
    OBVIOUS
  <1>0. /\ rows \in [ReqIds -> Row] /\ clock \in Nat /\ cutoff \in Nat
        /\ sent \subseteq Completion
    BY DEF TypeOK
  <1>a. ASSUME UNCHANGED <<rows, clock>>, sent \subseteq sent' PROVE Shape
    BY <1>a DEF RowStep, Same
  <1>1. ASSUME NEW h \in Hosts, RegisterHost(h) PROVE Shape
    BY <1>1, <1>a DEF RegisterHost
  <1>2. ASSUME NEW h \in Hosts, DeleteHost(h) PROVE Shape
    <2>1. \A r \in ReqIds : RowStep(r)
      BY <1>2 DEF DeleteHost, RowStep, Same, Gone, DeletedRow, AbsentRow
    <2>2. QED
      BY <1>2, <2>1 DEF DeleteHost
  <1>3. ASSUME NEW h \in Hosts \cup {NoHost}, NEW type \in ScanTypes,
               NEW rev \in 0..MaxRevision, HandleCreateScanRequest(h, type, rev)
        PROVE  Shape
    <2>1. PICK q \in ReqIds :
             /\ rows[q].status = "absent"
             /\ rows' = [rows EXCEPT ![q] = PendingRow(h, type, rev, clock + 1)]
      BY <1>3 DEF HandleCreateScanRequest, CreateScanRequest
    <2>2. Inserted(q)
      BY <1>0, <2>1 DEF Inserted, PendingRow
    <2>3. ASSUME NEW r \in ReqIds \ {q} PROVE Same(r)
      BY <1>0, <2>1 DEF Same
    <2>4. QED
      BY <1>3, <2>2, <2>3 DEF HandleCreateScanRequest, CreateScanRequest, RowStep
  <1>4. ASSUME NEW eligible \in SUBSET hosts, NEW rev \in 0..MaxRevision,
               QueueSecurityDBRescans(eligible, rev)
        PROVE  Shape
    <2>1. \A r \in ReqIds : RowStep(r)
      BY <1>4, QueuedRows DEF RowStep, Same, Inserted, Waiting
    <2>2. clock' = clock + 1 /\ sent' = sent
      BY <1>4 DEF QueueSecurityDBRescans
    <2>3. QED
      BY <2>1, <2>2
  <1>b. ASSUME NEW c \in Nat, NEW r \in ReqIds, rows'[r] = Swept(rows, c)[r]
        PROVE  RowStep(r)
    <2>1. rows[r] \in Row
      BY <1>0
    <2>2. QED
      BY <1>0, <1>b, <2>1, SweptRow, UnclaimedType
         DEF RowStep, Same, Gone, Waiting, StaleClaim
  <1>5. ASSUME NEW h \in Hosts, NEW locked, NEW answer \in ReqIds \cup {NoReq},
               NEW lost \in BOOLEAN, HandleClaimScanRequest(h, locked, answer, lost)
        PROVE  Shape
    <2> DEFINE t == Swept(rows, cutoff)
    <2>1. t \in [ReqIds -> Row]
      BY <1>0, SweptType
    <2> HIDE DEF t
    <2>2. CASE /\ answer \in Oldest(t, Claimable(t, h) \ locked)
               /\ rows' = [t EXCEPT ![answer].status = "claimed",
                                    ![answer].claimedAt = clock + 1,
                                    ![answer].claimedBy = h]
               /\ clock' = clock + 1
      <3>1. answer \in ReqIds /\ t[answer].host \in {NoHost, h}
        BY <2>2 DEF Oldest, Claimable
      <3>2. /\ rows'[answer].status = "claimed"
            /\ rows'[answer].claimedAt = clock + 1
            /\ rows'[answer].claimedBy = h
            /\ rows'[answer].host = t[answer].host
        BY <2>1, <2>2, <3>1 DEF Row
      <3>3. Taken(answer)
        BY <2>2, <3>1, <3>2 DEF Taken
      <3>4. ASSUME NEW r \in ReqIds \ {answer} PROVE RowStep(r)
        <4>1. rows'[r] = Swept(rows, cutoff)[r]
          BY <2>1, <2>2, <3>1 DEF t
        <4>2. QED
          BY <1>0, <1>b, <4>1
      <3>5. QED
        BY <1>5, <2>2, <3>3, <3>4 DEF HandleClaimScanRequest, RowStep
    <2>3. CASE rows' = t /\ UNCHANGED clock
      <3>1. ASSUME NEW r \in ReqIds PROVE RowStep(r)
        BY <1>0, <1>b, <2>3 DEF t
      <3>2. QED
        BY <1>5, <2>3, <3>1 DEF HandleClaimScanRequest
    <2>4. QED
      BY <1>5, <2>2, <2>3 DEF HandleClaimScanRequest, ClaimScanRequest, t
  <1>6. ASSUME NEW h \in Hosts, NEW outcome \in AgentOutcome, FinishRun(h, outcome)
        PROVE  Shape
    BY <1>6, <1>a DEF FinishRun
  <1>7. ASSUME NEW h \in Hosts, AgentCrash(h) PROVE Shape
    BY <1>7, <1>a DEF AgentCrash
  <1>8. ASSUME NEW m \in sent, HandleCompleteScanRequest(m) PROVE Shape
    <2>1. m \in Completion
      BY <1>0
    <2>2. /\ rows[m.id].claimedBy = m.host
          /\ rows' = [rows EXCEPT ![m.id].status = m.status]
          /\ UNCHANGED <<clock, sent>>
      BY <1>8 DEF HandleCompleteScanRequest, CompleteClaimedScanRequest
    <2>3. Settled(m.id)
      <3>1. m.id \in ReqIds /\ rows[m.id] \in Row
        BY <1>0, <2>1 DEF Completion
      <3>2. rows'[m.id].status = m.status /\ rows'[m.id].claimedBy = m.host
        BY <1>0, <2>2, <3>1 DEF Row
      <3>3. m = [id |-> m.id, host |-> m.host, status |-> m.status]
        BY <2>1 DEF Completion
      <3>4. QED
        BY <2>1, <2>2, <3>2, <3>3 DEF Settled, Completion
    <2>4. ASSUME NEW r \in ReqIds \ {m.id} PROVE Same(r)
      BY <1>0, <2>2 DEF Same
    <2>5. QED
      BY <2>2, <2>3, <2>4 DEF RowStep
  <1>9. ASSUME ClaimsTimeOut PROVE Shape
    BY <1>9, <1>a DEF ClaimsTimeOut
  <1>10. ASSUME NEW q \in ReqIds, HandleCancelScanRequest(q) PROVE Shape
    <2>1. rows' = [rows EXCEPT ![q].status = "cancelled"] /\ UNCHANGED <<clock, sent>>
      BY <1>10 DEF HandleCancelScanRequest, CompleteScanRequest
    <2>2. Gone(q)
      BY <1>0, <2>1 DEF Gone, Row
    <2>3. ASSUME NEW r \in ReqIds \ {q} PROVE Same(r)
      BY <1>0, <2>1 DEF Same
    <2>4. QED
      BY <2>1, <2>2, <2>3 DEF RowStep
  <1>c. ASSUME NEW r \in ReqIds, MayRequeue(r), rows'[r] = Unclaimed(rows[r])
        PROVE  Waiting(r)
    BY <1>0, <1>c, UnclaimedType DEF Waiting, MayRequeue, Retryable
  <1>11. ASSUME NEW q \in ReqIds, HandleRequeueScanRequest(q) PROVE Shape
    <2>1. /\ MayRequeue(q) /\ rows' = [rows EXCEPT ![q] = Unclaimed(rows[q])]
          /\ UNCHANGED <<clock, sent>>
      BY <1>11 DEF HandleRequeueScanRequest, RequeueScanRequest
    <2>2. Waiting(q)
      BY <1>0, <1>c, <2>1
    <2>3. ASSUME NEW r \in ReqIds \ {q} PROVE Same(r)
      BY <1>0, <2>1 DEF Same
    <2>4. QED
      BY <2>1, <2>2, <2>3 DEF RowStep
  <1>12. ASSUME NEW h, NEW status, NEW type, NEW rev,
                HandleRequeueFiltered(h, status, type, rev)
         PROVE  Shape
    <2>1. ASSUME NEW r \in ReqIds
          PROVE  Same(r) \/ (MayRequeue(r) /\ rows'[r] = Unclaimed(rows[r]))
      BY <1>12 DEF HandleRequeueFiltered, RequeueScanRequestsByFilter, Same
    <2>2. UNCHANGED <<clock, sent>>
      BY <1>12 DEF HandleRequeueFiltered
    <2>3. QED
      BY <1>c, <2>1, <2>2 DEF RowStep
  <1>13. ASSUME NEW c \in 0..(clock + 1), HandleRequeueStale(c) PROVE Shape
    <2>1. c \in Nat
      BY <1>0
    <2>2. QED
      BY <1>13, <1>b, <2>1 DEF HandleRequeueStale
  <1>14. ASSUME NEW c \in 0..(clock + 1), PruneRequests(c) PROVE Shape
    BY <1>14 DEF PruneRequests, RowStep, Same, Gone, DeletedRow, AbsentRow
  <1>15. ASSUME UNCHANGED vars PROVE Shape
    BY <1>15, <1>a DEF vars
  <1> HIDE DEF Shape
  <1>16. CASE SystemStep
    <2>1. ASSUME NEW h \in Hosts, AgentStep(h) PROVE Shape
      BY <2>1, <1>5, <1>6, <1>7 DEF AgentStep
    <2>2. QED
      BY <1>16, <2>1, <1>1, <1>3, <1>4, <1>8, <1>9 DEF SystemStep
  <1>17. CASE AdminStep
    BY <1>17, <1>2, <1>10, <1>11, <1>12, <1>13, <1>14 DEF AdminStep
  <1>18. QED
    BY <1>15, <1>16, <1>17 DEF Next

----------------------------------------------------------------------------
(* The claim of a request.                                                 *)

\* ClaimConsistent, of every behaviour: whatever claims, timeouts, completion
\* calls and administrators do, a claim belongs to a host the request is for
\* and a waiting request carries no claimant that DeleteHost could match.
THEOREM ClaimsAreConsistent == Spec => []ClaimConsistent
  <1>1. Init => ClaimConsistent
    BY DEF Init, ClaimConsistent, AbsentRow
  <1>2. TypeOK /\ ClaimConsistent /\ [Next]_vars => ClaimConsistent'
    <2> SUFFICES ASSUME TypeOK, ClaimConsistent, [Next]_vars, NEW r \in ReqIds
                 PROVE  /\ rows'[r].status = "claimed" =>
                             /\ rows'[r].claimedBy \in Hosts
                             /\ rows'[r].host \in {NoHost, rows'[r].claimedBy}
                             /\ rows'[r].claimedAt \in 1..clock'
                        /\ rows'[r].status = "pending" =>
                             rows'[r].claimedBy = NoHost /\ rows'[r].claimedAt = 0
      BY DEF ClaimConsistent
    <2>1. RowStep(r) /\ clock' \in {clock, clock + 1} /\ clock \in Nat
      BY StepShape DEF TypeOK
    <2>2. CASE Same(r)
      BY <2>1, <2>2 DEF Same, ClaimConsistent
    <2>3. CASE Inserted(r) \/ Waiting(r)
      BY <2>3 DEF Inserted, Waiting
    <2>4. CASE Taken(r)
      BY <2>1, <2>4 DEF Taken
    <2>5. CASE Settled(r) \/ Gone(r)
      BY <2>5 DEF Settled, Gone
    <2>6. QED
      BY <2>1, <2>2, <2>3, <2>4, <2>5 DEF RowStep
  <1>3. QED
    BY <1>1, <1>2, TypeCorrect, PTL DEF Spec

\* OutcomeFromHolder, of every behaviour: an outcome stored by
\* CompleteClaimedScanRequest was reported by the host recorded as claimant.
THEOREM OutcomesComeFromTheHolder == Spec => []OutcomeFromHolder
  <1>1. Init => OutcomeFromHolder
    BY DEF Init, OutcomeFromHolder, AbsentRow
  <1>2. TypeOK /\ OutcomeFromHolder /\ [Next]_vars => OutcomeFromHolder'
    <2> SUFFICES ASSUME TypeOK, OutcomeFromHolder, [Next]_vars, NEW r \in ReqIds,
                        rows'[r].status \in AgentOutcome
                 PROVE  [id |-> r, host |-> rows'[r].claimedBy,
                         status |-> rows'[r].status] \in sent'
      BY DEF OutcomeFromHolder
    <2>1. RowStep(r) /\ sent \subseteq sent'
      BY StepShape
    <2>2. CASE Same(r)
      BY <2>1, <2>2 DEF Same, OutcomeFromHolder
    <2>3. CASE Settled(r)
      BY <2>3 DEF Settled
    <2>4. CASE Inserted(r) \/ Waiting(r) \/ Taken(r) \/ Gone(r)
      BY <2>4 DEF Inserted, Waiting, Taken, Gone
    <2>5. QED
      BY <2>1, <2>2, <2>3, <2>4 DEF RowStep
  <1>3. QED
    BY <1>1, <1>2, TypeCorrect, PTL DEF Spec

----------------------------------------------------------------------------
(* One pending automatic rescan per host.                                  *)

UniqueIn(t) ==
    \A q, r \in ReqIds, h \in Hosts :
        PendingRescan(t, q, h) /\ PendingRescan(t, r, h) => q = r

\* Of two claims one is later: request ids break every tie.
LEMMA LaterClaimTotal ==
  ASSUME NEW t \in [ReqIds -> Row], NEW q \in ReqIds, NEW r \in ReqIds, q # r
  PROVE  LaterClaim(t, q, r) \/ LaterClaim(t, r, q)
  <1>1. /\ t[q].claimedAt \in Nat /\ t[r].claimedAt \in Nat
        /\ t[q].createdAt \in Nat /\ t[r].createdAt \in Nat
        /\ q \in Nat /\ r \in Nat
    BY DEF Row
  <1>2. QED
    BY <1>1 DEF LaterClaim

\* The sweep keeps the index: a claim that goes back to the queue has no
\* pending sibling and is the latest of its timed out siblings.
LEMMA SweepKeepsUnique ==
  ASSUME NEW t \in [ReqIds -> Row], NEW c \in Nat, UniqueIn(t)
  PROVE  UniqueIn(Swept(t, c))
  <1> DEFINE u == Swept(t, c)
  <1> SUFFICES ASSUME NEW q \in ReqIds, NEW r \in ReqIds, NEW h \in Hosts,
                      PendingRescan(u, q, h), PendingRescan(u, r, h), q # r
               PROVE  FALSE
    BY DEF UniqueIn
  <1>1. /\ AutoRescan(t, q) /\ t[q].host = h
        /\ AutoRescan(t, r) /\ t[r].host = h
    <2>1. /\ u[q].host = t[q].host /\ u[q].type = t[q].type
          /\ u[r].host = t[r].host /\ u[r].type = t[r].type
      BY SweptRow
    <2>2. QED
      BY <2>1 DEF PendingRescan, AutoRescan
  <1>2. ASSUME NEW s \in {q, r}
        PROVE  \/ t[s].status = "pending"
               \/ StaleClaim(t, s, c) /\ ~Superseded(t, s, c)
    BY SweptRow DEF PendingRescan
  <1>3. CASE t[q].status = "pending" /\ t[r].status = "pending"
    BY <1>1, <1>3 DEF UniqueIn, PendingRescan
  <1>4. CASE t[q].status = "pending" /\ t[r].status # "pending"
    BY <1>1, <1>2, <1>4 DEF Superseded
  <1>5. CASE t[q].status # "pending" /\ t[r].status = "pending"
    BY <1>1, <1>2, <1>5 DEF Superseded
  <1>6. CASE t[q].status # "pending" /\ t[r].status # "pending"
    BY <1>1, <1>2, <1>6, LaterClaimTotal DEF Superseded
  <1>7. QED
    BY <1>3, <1>4, <1>5, <1>6

\* A step that makes no row a pending rescan keeps the index.
LEMMA NoNewPendingKeepsUnique ==
  ASSUME NEW t, NEW u, UniqueIn(t),
         \A r \in ReqIds, h \in Hosts : PendingRescan(u, r, h) => PendingRescan(t, r, h)
  PROVE  UniqueIn(u)
  BY DEF UniqueIn

\* Every step keeps the unique index of migrations/015.
LEMMA UniqueStep ==
  TypeOK /\ UniquePendingRescan /\ [Next]_vars => UniquePendingRescan'
  <1> SUFFICES ASSUME TypeOK, UniqueIn(rows), [Next]_vars
               PROVE  UniqueIn(rows')
    BY DEF UniquePendingRescan, UniqueIn, PendingRescan, AutoRescan
  <1>0. /\ rows \in [ReqIds -> Row] /\ clock \in Nat /\ cutoff \in Nat
        /\ sent \subseteq Completion /\ hosts \subseteq Hosts
    BY DEF TypeOK
  <1>a. ASSUME UNCHANGED rows PROVE UniqueIn(rows')
    BY <1>a DEF UniqueIn, PendingRescan, AutoRescan
  <1>1. ASSUME NEW h \in Hosts, RegisterHost(h) PROVE UniqueIn(rows')
    BY <1>1, <1>a DEF RegisterHost
  <1>2. ASSUME NEW h \in Hosts, DeleteHost(h) PROVE UniqueIn(rows')
    <2>1. \A r \in ReqIds, g \in Hosts :
             PendingRescan(rows', r, g) => PendingRescan(rows, r, g)
      BY <1>2 DEF DeleteHost, PendingRescan, AutoRescan, DeletedRow, AbsentRow
    <2>2. QED
      BY <2>1, NoNewPendingKeepsUnique
  <1>3. ASSUME NEW h \in Hosts \cup {NoHost}, NEW type \in ScanTypes,
               NEW rev \in 0..MaxRevision, HandleCreateScanRequest(h, type, rev)
        PROVE  UniqueIn(rows')
    <2>1. PICK q \in ReqIds :
             rows' = [rows EXCEPT ![q] = PendingRow(h, type, rev, clock + 1)]
      BY <1>3 DEF HandleCreateScanRequest, CreateScanRequest
    <2>2. type = "security-db-update" =>
             ~ \E r \in ReqIds : PendingRescan(rows, r, h)
      BY <1>3 DEF HandleCreateScanRequest, CreateScanRequest
    <2>3. rows'[q].host = h /\ rows'[q].type = type
      BY <1>0, <2>1 DEF PendingRow
    <2>4. ASSUME NEW r \in ReqIds, r # q PROVE rows'[r] = rows[r]
      BY <1>0, <2>1, <2>4
    <2>5. SUFFICES ASSUME NEW p \in ReqIds, NEW r \in ReqIds, NEW g \in Hosts,
                          PendingRescan(rows', p, g), PendingRescan(rows', r, g)
                   PROVE  p = r
      BY DEF UniqueIn
    <2>6. CASE p # q /\ r # q
      BY <2>4, <2>5, <2>6 DEF UniqueIn, PendingRescan, AutoRescan
    <2>7. CASE p = q /\ r # q
      BY <2>2, <2>3, <2>4, <2>5, <2>7 DEF PendingRescan, AutoRescan
    <2>8. CASE p # q /\ r = q
      BY <2>2, <2>3, <2>4, <2>5, <2>8 DEF PendingRescan, AutoRescan
    <2>9. QED
      BY <2>6, <2>7, <2>8
  <1>4. ASSUME NEW eligible \in SUBSET hosts, NEW rev \in 0..MaxRevision,
               QueueSecurityDBRescans(eligible, rev)
        PROVE  UniqueIn(rows')
    <2> SUFFICES ASSUME NEW q \in ReqIds, NEW r \in ReqIds, NEW h \in Hosts,
                        PendingRescan(rows', q, h), PendingRescan(rows', r, h)
                 PROVE  q = r
      BY DEF UniqueIn
    <2>1. ASSUME NEW s \in ReqIds, PendingRescan(rows', s, h)
          PROVE  \/ PendingRescan(rows, s, h)
                 \/ /\ rows[s].status = "absent"
                    /\ ~ \E p \in ReqIds : PendingRescan(rows, p, h)
      <3>1. \/ rows'[s] = rows[s]
            \/ /\ rows[s].status = "absent"
               /\ ~ \E p \in ReqIds : PendingRescan(rows, p, rows'[s].host)
            \/ /\ rows[s].status = "pending"
               /\ rows'[s].host = rows[s].host
               /\ rows'[s].type = rows[s].type
        BY <1>4, QueuedRows
      <3>2. rows'[s].host = h /\ AutoRescan(rows', s) /\ rows'[s].status = "pending"
        BY <2>1 DEF PendingRescan
      <3>3. QED
        BY <3>1, <3>2 DEF PendingRescan, AutoRescan
    <2>2. CASE PendingRescan(rows, q, h) /\ PendingRescan(rows, r, h)
      BY <2>2 DEF UniqueIn
    <2>3. CASE rows[q].status = "absent" /\ rows[r].status = "absent"
      <3>1. /\ rows'[q].status = "pending" /\ rows'[r].status = "pending"
            /\ rows'[q].host = rows'[r].host
        BY DEF PendingRescan
      <3>2. QED
        BY <1>4, <2>3, <3>1, QueuedRows
    <2>4. QED
      BY <2>1, <2>2, <2>3
  <1>5. ASSUME NEW h \in Hosts, NEW locked, NEW answer \in ReqIds \cup {NoReq},
               NEW lost \in BOOLEAN, HandleClaimScanRequest(h, locked, answer, lost)
        PROVE  UniqueIn(rows')
    <2> DEFINE t == Swept(rows, cutoff)
    <2>1. t \in [ReqIds -> Row] /\ UniqueIn(t)
      BY <1>0, SweptType, SweepKeepsUnique
    <2> HIDE DEF t
    <2>2. CASE /\ answer \in Oldest(t, Claimable(t, h) \ locked)
               /\ rows' = [t EXCEPT ![answer].status = "claimed",
                                    ![answer].claimedAt = clock + 1,
                                    ![answer].claimedBy = h]
      <3>1. answer \in ReqIds
        BY <2>2 DEF Oldest, Claimable
      <3>2. rows'[answer].status = "claimed"
        BY <2>1, <2>2, <3>1 DEF Row
      <3>3. ASSUME NEW r \in ReqIds, r # answer PROVE rows'[r] = t[r]
        BY <2>1, <2>2, <3>3
      <3>4. \A r \in ReqIds, g \in Hosts :
               PendingRescan(rows', r, g) => PendingRescan(t, r, g)
        BY <3>2, <3>3 DEF PendingRescan, AutoRescan
      <3>5. QED
        BY <2>1, <3>4, NoNewPendingKeepsUnique
    <2>3. CASE rows' = t
      BY <2>1, <2>3
    <2>4. QED
      BY <1>5, <2>2, <2>3 DEF HandleClaimScanRequest, ClaimScanRequest, t
  <1>6. ASSUME NEW h \in Hosts, NEW outcome \in AgentOutcome, FinishRun(h, outcome)
        PROVE  UniqueIn(rows')
    BY <1>6, <1>a DEF FinishRun
  <1>7. ASSUME NEW h \in Hosts, AgentCrash(h) PROVE UniqueIn(rows')
    BY <1>7, <1>a DEF AgentCrash
  <1>b. ASSUME NEW q \in ReqIds, NEW status, status # "pending",
               rows' = [rows EXCEPT ![q].status = status]
        PROVE  UniqueIn(rows')
    <2>1. rows'[q].status # "pending"
      BY <1>0, <1>b DEF Row
    <2>2. ASSUME NEW r \in ReqIds, r # q PROVE rows'[r] = rows[r]
      BY <1>0, <1>b, <2>2
    <2>3. \A r \in ReqIds, g \in Hosts :
             PendingRescan(rows', r, g) => PendingRescan(rows, r, g)
      BY <2>1, <2>2 DEF PendingRescan, AutoRescan
    <2>4. QED
      BY <2>3, NoNewPendingKeepsUnique
  <1>8. ASSUME NEW m \in sent, HandleCompleteScanRequest(m) PROVE UniqueIn(rows')
    <2>1. m.id \in ReqIds /\ m.status # "pending"
      BY <1>0 DEF Completion
    <2>2. rows' = [rows EXCEPT ![m.id].status = m.status]
      BY <1>8 DEF HandleCompleteScanRequest, CompleteClaimedScanRequest
    <2>3. QED
      BY <1>b, <2>1, <2>2
  <1>9. ASSUME ClaimsTimeOut PROVE UniqueIn(rows')
    BY <1>9, <1>a DEF ClaimsTimeOut
  <1>10. ASSUME NEW q \in ReqIds, HandleCancelScanRequest(q) PROVE UniqueIn(rows')
    BY <1>10, <1>b DEF HandleCancelScanRequest, CompleteScanRequest
  <1>c. ASSUME NEW hit \in SUBSET ReqIds, \A r \in hit : MayRequeue(r),
               \A q, r \in hit : AutoRescan(rows, q) /\ AutoRescan(rows, r)
                                    /\ rows[q].host = rows[r].host => q = r,
               \A r \in ReqIds : rows'[r] =
                   IF r \in hit THEN Unclaimed(rows[r]) ELSE rows[r]
        PROVE  UniqueIn(rows')
    <2> SUFFICES ASSUME NEW q \in ReqIds, NEW r \in ReqIds, NEW h \in Hosts,
                        PendingRescan(rows', q, h), PendingRescan(rows', r, h)
                 PROVE  q = r
      BY DEF UniqueIn
    <2>1. ASSUME NEW s \in ReqIds, PendingRescan(rows', s, h)
          PROVE  /\ AutoRescan(rows, s) /\ rows[s].host = h
                 /\ s \in hit \/ PendingRescan(rows, s, h)
      <3>1. CASE s \in hit
        <4>1. rows'[s].host = rows[s].host /\ rows'[s].type = rows[s].type
          BY <1>0, <1>c, <3>1, UnclaimedType
        <4>2. QED
          BY <2>1, <3>1, <4>1 DEF PendingRescan, AutoRescan
      <3>2. CASE s \notin hit
        BY <1>c, <2>1, <3>2 DEF PendingRescan, AutoRescan
      <3>3. QED
        BY <3>1, <3>2
    <2>2. CASE q \in hit /\ r \in hit
      BY <1>c, <2>1, <2>2
    <2>3. CASE q \in hit /\ PendingRescan(rows, r, h)
      BY <1>c, <2>1, <2>3 DEF MayRequeue
    <2>4. CASE PendingRescan(rows, q, h) /\ r \in hit
      BY <1>c, <2>1, <2>4 DEF MayRequeue
    <2>5. CASE PendingRescan(rows, q, h) /\ PendingRescan(rows, r, h)
      BY <2>5 DEF UniqueIn
    <2>6. QED
      BY <2>1, <2>2, <2>3, <2>4, <2>5
  <1>11. ASSUME NEW q \in ReqIds, HandleRequeueScanRequest(q) PROVE UniqueIn(rows')
    <2>1. MayRequeue(q) /\ rows' = [rows EXCEPT ![q] = Unclaimed(rows[q])]
      BY <1>11 DEF HandleRequeueScanRequest, RequeueScanRequest
    <2>2. \A r \in ReqIds : rows'[r] =
                   IF r \in {q} THEN Unclaimed(rows[r]) ELSE rows[r]
      BY <1>0, <2>1
    <2>3. QED
      BY <1>c, <2>1, <2>2
  <1>12. ASSUME NEW h, NEW status, NEW type, NEW rev,
                HandleRequeueFiltered(h, status, type, rev)
         PROVE  UniqueIn(rows')
    <2> DEFINE hit == {r \in ReqIds : MayRequeue(r)
                                        /\ FilterMatches(r, h, status, type, rev)}
    <2>1. /\ \A q, r \in hit : AutoRescan(rows, q) /\ AutoRescan(rows, r)
                                    /\ rows[q].host = rows[r].host => q = r
          /\ \A r \in ReqIds : rows'[r] =
                   IF r \in hit THEN Unclaimed(rows[r]) ELSE rows[r]
      BY <1>12 DEF HandleRequeueFiltered, RequeueScanRequestsByFilter
    <2>2. hit \in SUBSET ReqIds /\ \A r \in hit : MayRequeue(r)
      OBVIOUS
    <2> HIDE DEF hit
    <2>3. QED
      BY <1>c, <2>1, <2>2
  <1>13. ASSUME NEW c \in 0..(clock + 1), HandleRequeueStale(c) PROVE UniqueIn(rows')
    <2>1. c \in Nat
      BY <1>0
    <2>2. QED
      BY <1>0, <1>13, <2>1, SweepKeepsUnique DEF HandleRequeueStale
  <1>14. ASSUME NEW c \in 0..(clock + 1), PruneRequests(c) PROVE UniqueIn(rows')
    <2>1. \A r \in ReqIds, g \in Hosts :
             PendingRescan(rows', r, g) => PendingRescan(rows, r, g)
      BY <1>14 DEF PruneRequests, PendingRescan, AutoRescan, DeletedRow, AbsentRow
    <2>2. QED
      BY <2>1, NoNewPendingKeepsUnique
  <1>15. ASSUME UNCHANGED vars PROVE UniqueIn(rows')
    BY <1>15, <1>a DEF vars
  <1>16. CASE SystemStep
    <2>1. ASSUME NEW h \in Hosts, AgentStep(h) PROVE UniqueIn(rows')
      BY <2>1, <1>5, <1>6, <1>7 DEF AgentStep
    <2>2. QED
      BY <1>16, <2>1, <1>1, <1>3, <1>4, <1>8, <1>9 DEF SystemStep
  <1>17. CASE AdminStep
    BY <1>17, <1>2, <1>10, <1>11, <1>12, <1>13, <1>14 DEF AdminStep
  <1>18. QED
    BY <1>15, <1>16, <1>17 DEF Next

\* UniquePendingRescan, of every behaviour: the requeue of timed out claims
\* never trips over the unique index of migrations/015, because
\* cancelStaleSecurityDBDuplicates has left at most one row to requeue.
THEOREM PendingRescansAreUnique == Spec => []UniquePendingRescan
  <1>1. Init => UniquePendingRescan
    BY DEF Init, UniquePendingRescan, PendingRescan, AbsentRow
  <1>2. QED
    BY <1>1, UniqueStep, TypeCorrect, PTL DEF Spec

----------------------------------------------------------------------------
(* The sweep of the timed out claims leaves every host a rescan: of those  *)
(* it finds it requeues the one that was claimed last.                     *)

\* A set of naturals has a least element.
LEMMA SmallestIn ==
  ASSUME NEW S \in SUBSET Nat, S # {}
  PROVE  \E m \in S : \A k \in S : m <= k
  <1> DEFINE Below(k) == 0..(k - 1)
             T == {Below(k) : k \in S}
  <1>1. T \subseteq FiniteSubsetsOf(Nat)
    <2> SUFFICES ASSUME NEW k \in S PROVE Below(k) \in FiniteSubsetsOf(Nat)
      OBVIOUS
    <2>1. IsFiniteSet(Below(k)) BY FS_Interval
    <2> QED BY <2>1 DEF FiniteSubsetsOf
  <1>2. PICK x \in T : \A y \in T : <<y, x>> \notin StrictSubsetOrdering(Nat)
    <2>1. T # {}
      OBVIOUS
    <2>2. IsWellFoundedOn(StrictSubsetOrdering(Nat), FiniteSubsetsOf(Nat))
      BY FS_StrictSubsetOrderingWellFounded
    <2> HIDE DEF T
    <2> QED BY <1>1, <2>1, <2>2, WFMin
  <1>3. PICK m \in S : x = Below(m)
    OBVIOUS
  <1>4. ASSUME NEW k \in S PROVE m <= k
    <2>1. <<Below(k), Below(m)>> \notin StrictSubsetOrdering(Nat)
      BY <1>2, <1>3
    <2>2. CASE k < m
      <3>1. k \in Below(m) /\ k \notin Below(k) /\ Below(k) \subseteq Below(m)
        BY <2>2
      <3>2. Below(k) \in SUBSET Nat /\ Below(m) \in SUBSET Nat
        OBVIOUS
      <3> QED BY <2>1, <3>1, <3>2 DEF StrictSubsetOrdering
    <2> QED BY <2>2
  <1> QED BY <1>4

\* A row that a step claims.
NewClaim(r) == rows'[r].status = "claimed" /\ ~Same(r)

\* ClaimScanRequest claims one row, and nothing else claims any: two rows are not
\* claimed in the same moment.
LEMMA OneClaimPerStep ==
  TypeOK /\ [Next]_vars =>
      \A q, r \in ReqIds : NewClaim(q) /\ NewClaim(r) => q = r
  <1> SUFFICES ASSUME TypeOK, [Next]_vars, NEW q \in ReqIds, NEW r \in ReqIds,
                      NewClaim(q), NewClaim(r)
               PROVE  q = r
    OBVIOUS
  <1>0. rows \in [ReqIds -> Row] /\ clock \in Nat /\ cutoff \in Nat
    BY DEF TypeOK
  <1>1. Taken(q) /\ clock' = clock + 1
    BY StepShape DEF NewClaim, RowStep, Inserted, Waiting, Taken, Settled, Gone
  <1>2. clock' # clock
    BY <1>0, <1>1
  <1>3. ASSUME NEW h \in Hosts \cup {NoHost}, NEW type \in ScanTypes,
               NEW rev \in 0..MaxRevision, HandleCreateScanRequest(h, type, rev)
        PROVE  q = r
    <2>1. PICK p \in ReqIds :
             rows' = [rows EXCEPT ![p] = PendingRow(h, type, rev, clock + 1)]
      BY <1>3 DEF HandleCreateScanRequest, CreateScanRequest
    <2>2. QED
      BY <1>0, <2>1 DEF NewClaim, Same, PendingRow
  <1>4. ASSUME NEW eligible \in SUBSET hosts, NEW rev \in 0..MaxRevision,
               QueueSecurityDBRescans(eligible, rev)
        PROVE  q = r
    BY <1>4, QueuedRows DEF NewClaim, Same
  <1>5. ASSUME NEW h \in Hosts, NEW locked, NEW answer \in ReqIds \cup {NoReq},
               NEW lost \in BOOLEAN, HandleClaimScanRequest(h, locked, answer, lost)
        PROVE  q = r
    <2> DEFINE t == Swept(rows, cutoff)
    <2>1. t \in [ReqIds -> Row]
      BY <1>0, SweptType
    <2>2. ASSUME NEW p \in ReqIds, t[p].status = "claimed" PROVE t[p] = rows[p]
      BY <1>0, <2>2, SweptRow, UnclaimedType
    <2> HIDE DEF t
    <2>3. rows' = [t EXCEPT ![answer].status = "claimed",
                            ![answer].claimedAt = clock + 1,
                            ![answer].claimedBy = h]
      BY <1>2, <1>5 DEF HandleClaimScanRequest, ClaimScanRequest, t
    <2>4. ASSUME NEW p \in ReqIds, p # answer PROVE rows'[p] = t[p]
      BY <2>1, <2>3, <2>4
    <2>5. QED
      BY <2>2, <2>4 DEF NewClaim, Same
  <1>6. CASE SystemStep
    <2>1. ASSUME NEW h \in Hosts, AgentStep(h) PROVE q = r
      BY <1>2, <1>5, <2>1 DEF AgentStep, FinishRun, AgentCrash
    <2>2. QED
      BY <1>2, <1>3, <1>4, <1>6, <2>1
         DEF SystemStep, RegisterHost, HandleCompleteScanRequest, ClaimsTimeOut
  <1>7. CASE AdminStep
    BY <1>2, <1>7 DEF AdminStep, DeleteHost, HandleCancelScanRequest,
       HandleRequeueScanRequest, HandleRequeueFiltered, HandleRequeueStale, PruneRequests
  <1>8. CASE UNCHANGED vars
    BY <1>2, <1>8 DEF vars
  <1>9. QED
    BY <1>6, <1>7, <1>8 DEF Next

\* So the claims that there are can be told apart by their time.
ClaimStampsDiffer ==
    \A q, r \in ReqIds :
        /\ rows[q].status = "claimed" /\ rows[r].status = "claimed"
        /\ rows[q].claimedAt = rows[r].claimedAt
        => q = r

\* That is kept by every step, as a claim takes the time of the clock, and a row
\* that stays claimed keeps its time.
LEMMA ClaimStampsStep ==
  TypeOK /\ ClaimConsistent /\ ClaimStampsDiffer /\ [Next]_vars => ClaimStampsDiffer'
  <1> SUFFICES ASSUME TypeOK, ClaimConsistent, ClaimStampsDiffer, [Next]_vars,
                      NEW q \in ReqIds, NEW r \in ReqIds,
                      rows'[q].status = "claimed", rows'[r].status = "claimed",
                      rows'[q].claimedAt = rows'[r].claimedAt
               PROVE  q = r
    BY DEF ClaimStampsDiffer
  <1>1. ASSUME NEW p \in ReqIds, rows'[p].status = "claimed"
        PROVE  \/ Same(p) /\ rows'[p].claimedAt \in 1..clock
               \/ NewClaim(p) /\ rows'[p].claimedAt = clock + 1
    <2>1. RowStep(p) /\ clock \in Nat
      BY StepShape DEF TypeOK
    <2>2. CASE Same(p)
      BY <1>1, <2>1, <2>2 DEF Same, ClaimConsistent
    <2>3. CASE ~Same(p)
      <3>1. Taken(p)
        BY <1>1, <2>1, <2>3 DEF RowStep, Inserted, Waiting, Settled, Gone
      <3> QED
        BY <1>1, <2>3, <3>1 DEF NewClaim, Taken
    <2> QED BY <2>2, <2>3
  <1>2. clock \in Nat
    BY DEF TypeOK
  <1>3. CASE Same(q) /\ Same(r)
    BY <1>3 DEF Same, ClaimStampsDiffer
  <1>4. CASE NewClaim(q) /\ NewClaim(r)
    BY <1>4, OneClaimPerStep
  <1>5. clock + 1 \notin 1..clock
    BY <1>2
  <1>6. QED
    BY <1>1, <1>3, <1>4, <1>5

\* Of the rescans of a host whose claims have timed out, the one claimed last is
\* requeued, unless another one is pending.
LEMMA LatestClaimSurvives ==
  ASSUME TypeOK, ClaimConsistent, ClaimStampsDiffer,
         NEW c \in 0..(clock + 1), NEW h \in Hosts,
         NEW r \in ReqIds, AutoRescan(rows, r), rows[r].host = h, StaleClaim(rows, r, c)
  PROVE  \E q \in ReqIds : LiveRescan(Swept(rows, c), q, h)
  <1>0. rows \in [ReqIds -> Row] /\ clock \in Nat /\ c \in Nat
    BY DEF TypeOK
  <1> DEFINE Timed(q) == AutoRescan(rows, q) /\ rows[q].host = h /\ StaleClaim(rows, q, c)
             Ages == {clock - rows[q].claimedAt : q \in {p \in ReqIds : Timed(p)}}
  <1>1. ASSUME NEW q \in ReqIds, Timed(q)
        PROVE  rows[q].claimedAt \in Nat /\ rows[q].claimedAt <= clock
    <2>1. rows[q].status = "claimed"
      BY <1>1 DEF StaleClaim
    <2>2. rows[q].claimedAt \in 1..clock
      BY <2>1 DEF ClaimConsistent
    <2> QED BY <1>0, <2>2
  <1>2. Ages \subseteq Nat /\ Ages # {}
    BY <1>0, <1>1
  <1>3. PICK m \in Ages : \A k \in Ages : m <= k
    BY <1>2, SmallestIn
  <1>4. PICK l \in ReqIds : Timed(l) /\ m = clock - rows[l].claimedAt
    OBVIOUS
  <1>5. ASSUME NEW q \in ReqIds, Timed(q), q # l
        PROVE  rows[q].claimedAt < rows[l].claimedAt
    <2>1. m <= clock - rows[q].claimedAt
      BY <1>3, <1>5
    <2>2. rows[q].claimedAt # rows[l].claimedAt
      BY <1>4, <1>5 DEF ClaimStampsDiffer, StaleClaim
    <2>3. QED
      BY <1>0, <1>1, <1>4, <1>5, <2>1, <2>2
  <1>6. CASE \E q \in ReqIds : AutoRescan(rows, q) /\ rows[q].host = h
                                 /\ rows[q].status = "pending"
    <2>1. PICK q \in ReqIds : AutoRescan(rows, q) /\ rows[q].host = h
                                 /\ rows[q].status = "pending"
      BY <1>6
    <2>2. Swept(rows, c)[q] = rows[q]
      BY <1>0, <2>1, SweptRow DEF StaleClaim
    <2>3. QED
      BY <2>1, <2>2 DEF LiveRescan, AutoRescan
  <1>7. CASE ~ \E q \in ReqIds : AutoRescan(rows, q) /\ rows[q].host = h
                                   /\ rows[q].status = "pending"
    <2>1. ASSUME NEW q \in ReqIds, Timed(q) PROVE ~LaterClaim(rows, q, l)
      <3>1. /\ rows[q].claimedAt \in Nat /\ rows[l].claimedAt \in Nat
            /\ q \in Nat /\ l \in Nat /\ rows[q].createdAt \in Nat
        BY <1>0, <1>1, <1>4, <2>1 DEF Row
      <3>2. CASE q = l
        BY <3>1, <3>2 DEF LaterClaim
      <3>3. CASE q # l
        BY <1>5, <2>1, <3>1, <3>3 DEF LaterClaim
      <3> QED BY <3>2, <3>3
    <2>2. ~Superseded(rows, l, c)
      BY <1>4, <1>7, <2>1 DEF Superseded
    <2>3. Swept(rows, c)[l] = Unclaimed(rows[l]) /\ rows[l] \in Row
      BY <1>0, <1>4, <2>2, SweptRow
    <2>4. QED
      BY <1>4, <2>3, UnclaimedType DEF LiveRescan, AutoRescan
  <1>8. QED
    BY <1>6, <1>7

\* A sweep at any cutoff keeps a rescan of every host that had one.
LEMMA SweepKeeps ==
  TypeOK /\ ClaimConsistent /\ ClaimStampsDiffer => SweepKeepsARescan
  <1> SUFFICES ASSUME TypeOK, ClaimConsistent, ClaimStampsDiffer,
                      NEW c \in 0..(clock + 1), NEW h \in Hosts,
                      NEW r \in ReqIds, LiveRescan(rows, r, h)
               PROVE  \E q \in ReqIds : LiveRescan(Swept(rows, c), q, h)
    BY DEF SweepKeepsARescan
  <1>0. rows \in [ReqIds -> Row] /\ clock \in Nat /\ c \in Nat
    BY DEF TypeOK
  <1>1. CASE StaleClaim(rows, r, c)
    BY <1>1, LatestClaimSurvives DEF LiveRescan
  <1>2. CASE ~StaleClaim(rows, r, c)
    <2>1. Swept(rows, c)[r] = rows[r]
      BY <1>0, <1>2, SweptRow DEF Superseded
    <2>2. QED
      BY <2>1 DEF LiveRescan, AutoRescan
  <1>3. QED
    BY <1>1, <1>2

\* SweepKeepsARescan, of every behaviour: cancelStaleSecurityDBDuplicates cancels
\* the duplicates of a rescan and never the last one that a host has waiting, in
\* whatever order the rows were claimed.
THEOREM SweepsKeepARescan == Spec => []SweepKeepsARescan
  <1>1. Init => ClaimStampsDiffer
    BY DEF Init, ClaimStampsDiffer, AbsentRow
  <1>2. Spec => []ClaimStampsDiffer
    BY <1>1, ClaimStampsStep, TypeCorrect, ClaimsAreConsistent, PTL DEF Spec
  <1>3. QED
    BY <1>2, SweepKeeps, TypeCorrect, ClaimsAreConsistent, PTL
============================================================================

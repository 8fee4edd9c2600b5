------------------------ MODULE ReportDeliveryProofs ------------------------
(***************************************************************************)
(* Theorems about ReportDelivery, for every number of reports, sections    *)
(* and attempts, every spool capacity and every budget of faults.          *)
(***************************************************************************)
EXTENDS ReportDelivery, FiniteSetTheorems, WellFoundedInduction, TLAPS

USE ReportDeliveryAssumption

----------------------------------------------------------------------------
(* Type correctness.                                                       *)

\* A handler that moves on to another call, or loses its client, stays a
\* handler of the same report.
LEMMA HandlerUpdate ==
  ASSUME NEW h \in Handler, NEW n \in 0..(NSections + 1), NEW b \in BOOLEAN
  PROVE  /\ [h EXCEPT !.next = n] \in Handler
         /\ [h EXCEPT !.next = n, !.failed = b] \in Handler
         /\ [h EXCEPT !.client = FALSE] \in Handler
         /\ [h EXCEPT !.next = n].scan = h.scan
         /\ [h EXCEPT !.next = n, !.failed = b].scan = h.scan
         /\ [h EXCEPT !.client = FALSE].scan = h.scan
         /\ [h EXCEPT !.next = n].client = h.client
         /\ [h EXCEPT !.next = n, !.failed = b].client = h.client
         /\ ~[h EXCEPT !.client = FALSE].client
         /\ [h EXCEPT !.next = n].next = n
         /\ [h EXCEPT !.next = n, !.failed = b].next = n
         /\ [h EXCEPT !.client = FALSE].next = h.next
  BY DEF Handler

\* Spending keeps the budget a budget.
LEMMA SpendType ==
  ASSUME left \in [FaultKinds -> Nat], NEW kind \in FaultKinds, Spend(kind)
  PROVE  left' \in [FaultKinds -> Nat]
  BY DEF Spend

\* Losing every client leaves a set of handlers.
LEMMA DisconnectedType ==
  ASSUME handlers \subseteq Handler
  PROVE  Disconnected \subseteq Handler
  <1>1. ASSUME NEW h \in handlers PROVE [h EXCEPT !.client = FALSE] \in Handler
    <2>1. h \in Handler
      OBVIOUS
    <2>2. 0 \in 0..(NSections + 1)
      OBVIOUS
    <2>3. QED
      BY <2>1, <2>2, HandlerUpdate
  <1>2. QED
    BY <1>1 DEF Disconnected

\* What Send does to the agent when it fails, succeeds or tries again.
AgentType ==
    /\ pc \in {"idle", "replay", "resend", "resent", "collect", "send", "spool"}
    /\ files \subseteq ScanIds
    /\ cur \in ScanIds \cup {NoScan}
    /\ pc \in {"resend", "resent", "send", "spool"} => cur \in ScanIds
    /\ waiting \in BOOLEAN

\* A finished or failed attempt leaves the agent in a state of run().
LEMMA AnswerType ==
  ASSUME AgentType, Sending,
         SendFails \/ SendSucceeds \/ RetryOrFail(attempt) \/ RetryOrFail(attempt + 1)
  PROVE  AgentType'
  BY DEF AgentType, Sending, SendFails, SendSucceeds, RetryOrFail

\* The answer of a handler that has no client changes nothing.
LEMMA NoAnswerType ==
  ASSUME AgentType, UNCHANGED <<pc, files, cur, waiting>>
  PROVE  AgentType'
  BY DEF AgentType

----------------------------------------------------------------------------
(* An agent that sends waits for one handler at most, and that handler      *)
(* works on the report in the agent's hands.                                *)

ClientWaits ==
    /\ waiting => Sending
    /\ \A h \in handlers : h.client => waiting /\ h.scan = cur
    /\ \A g, h \in handlers : g.client /\ h.client => g = h

TypeInv == TypeOK /\ ClientWaits

\* A step of the agent that touches neither a handler nor the attempt, and
\* moves between the phases of run() outside of Send.
LEMMA QuietRunStep ==
  ASSUME TypeInv, ~waiting, UNCHANGED <<scans, clock, handlers, removed, waiting>>,
         pc' \in {"idle", "replay", "resend", "resent", "collect", "send", "spool"},
         files' \subseteq ScanIds, cur' \in ScanIds \cup {NoScan},
         pc' \in {"resend", "resent", "send", "spool"} => cur' \in ScanIds,
         attempt' \in 0..MaxAttempts, drawn' \in 0..MaxScans,
         spool' \subseteq ScanIds, evicted' \subseteq ScanIds, lost' \subseteq ScanIds,
         left' \in [FaultKinds -> Nat]
  PROVE  TypeInv'
  BY DEF TypeInv, TypeOK, ClientWaits

\* Handler h goes on as g, or ends, without a word to the agent.
LEMMA SilentHandlerStep ==
  ASSUME TypeInv, NEW h \in handlers, NEW g \in Handler,
         g.scan = h.scan, g.client = h.client,
         Becomes(h, g) \/ (~h.client /\ Returns(h)),
         scans' \in [ScanIds -> Scan], clock' \in Nat, removed' \subseteq ScanIds,
         left' \in [FaultKinds -> Nat],
         UNCHANGED <<pc, files, cur, attempt, waiting, drawn, spool, evicted, lost>>
  PROVE  TypeInv'
  <1>1. TypeOK'
    <2>1. handlers' \subseteq Handler
      BY DEF TypeInv, TypeOK, Becomes, Returns
    <2>2. QED
      BY <2>1 DEF TypeInv, TypeOK
  <1>2. ClientWaits'
    <2>1. waiting' => Sending'
      BY DEF TypeInv, ClientWaits, Sending
    <2>2. \A k \in handlers' : k.client => waiting' /\ k.scan = cur'
      BY DEF TypeInv, ClientWaits, Becomes, Returns
    <2>3. \A j, k \in handlers' : j.client /\ k.client => j = k
      BY DEF TypeInv, ClientWaits, Becomes, Returns
    <2>4. QED
      BY <2>1, <2>2, <2>3 DEF ClientWaits
  <1>3. QED
    BY <1>1, <1>2 DEF TypeInv

\* Handler h ends with an answer the agent waits for.
LEMMA AnsweringStep ==
  ASSUME TypeInv, NEW h \in handlers, h.client, Returns(h),
         SendFails \/ SendSucceeds \/ RetryOrFail(attempt),
         scans' \in [ScanIds -> Scan], clock' \in Nat, removed' \subseteq ScanIds,
         left' \in [FaultKinds -> Nat],
         UNCHANGED <<attempt, drawn, spool, evicted, lost>>
  PROVE  TypeInv'
  <1>1. Sending /\ AgentType
    BY DEF TypeInv, ClientWaits, TypeOK, AgentType
  <1>2. AgentType'
    BY <1>1, AnswerType
  <1>3. waiting' = FALSE
    BY DEF SendFails, SendSucceeds, RetryOrFail
  <1>4. \A k \in handlers' : ~k.client
    <2>1. \A k \in handlers' : k \in handlers /\ k # h
      BY DEF Returns
    <2>2. QED
      BY <2>1 DEF TypeInv, ClientWaits
  <1>5. handlers' \subseteq Handler
    BY DEF TypeInv, TypeOK, Returns
  <1>6. QED
    BY <1>2, <1>3, <1>4, <1>5 DEF TypeInv, ClientWaits, TypeOK, AgentType

\* The handlers lose the agent, which is done with the attempt.
LEMMA CutStep ==
  ASSUME TypeInv, handlers' = Disconnected \/ handlers' = {},
         AgentType', waiting' = FALSE,
         attempt' \in 0..MaxAttempts, lost' \subseteq ScanIds,
         left' \in [FaultKinds -> Nat],
         UNCHANGED <<scans, clock, removed, drawn, spool, evicted>>
  PROVE  TypeInv'
  <1>1. handlers' \subseteq Handler
    BY DisconnectedType DEF TypeInv, TypeOK
  <1>2. \A k \in handlers' : ~k.client
    <2>1. ASSUME NEW g \in handlers PROVE ~[g EXCEPT !.client = FALSE].client
      <3>1. g \in Handler /\ 0 \in 0..(NSections + 1)
        BY DEF TypeInv, TypeOK
      <3>2. QED
        BY <3>1, HandlerUpdate
    <2>2. ASSUME NEW k \in Disconnected PROVE ~k.client
      <3>1. PICK g \in handlers : k = [g EXCEPT !.client = FALSE]
        BY DEF Disconnected
      <3>2. QED
        BY <3>1, <2>1
    <2>3. QED
      BY <2>2
  <1>3. QED
    BY <1>1, <1>2 DEF TypeInv, ClientWaits, TypeOK, AgentType

\* Every step keeps the types and the bond between agent and handler.
LEMMA TypeInvStep == TypeInv /\ [Next]_vars => TypeInv'
  <1> SUFFICES ASSUME TypeInv, [Next]_vars PROVE TypeInv'
    OBVIOUS
  <1>t. TypeOK /\ ClientWaits /\ AgentType
    BY DEF TypeInv, TypeOK, AgentType
  <1>f. "outage" \in FaultKinds /\ "cut" \in FaultKinds /\ "dberror" \in FaultKinds
          /\ "delete" \in FaultKinds
    BY DEF FaultKinds
  <1>q. ~waiting \/ Sending
    BY <1>t DEF ClientWaits
  <1>z. 0 \in 0..MaxAttempts
    OBVIOUS
  <1>1. CASE StartRun
    BY <1>1, <1>t, <1>q, QuietRunStep DEF StartRun, TypeOK, Sending, serverVars, diskVars
  <1>2. ASSUME NEW s \in files, ReplayNext(s) PROVE TypeInv'
    BY <1>2, <1>t, <1>q, <1>z, QuietRunStep
       DEF ReplayNext, NextFile, TypeOK, Sending, serverVars, diskVars
  <1>3. CASE ReplayDone
    BY <1>3, <1>t, <1>q, QuietRunStep DEF ReplayDone, TypeOK, Sending, serverVars, diskVars
  <1>4. CASE RemoveReplayed
    <2>1. left' \in [FaultKinds -> Nat]
      BY <1>4, <1>t, <1>f, SpendType DEF RemoveReplayed, TypeOK
    <2>2. QED
      BY <1>4, <2>1, <1>t, <1>q, QuietRunStep
         DEF RemoveReplayed, TypeOK, Sending, serverVars
  <1>5. CASE Collect
    <2>1. drawn + 1 \in ScanIds /\ drawn + 1 \in 0..MaxScans
      BY <1>5, <1>t DEF Collect, TypeOK, ScanIds
    <2>2. QED
      BY <1>5, <2>1, <1>t, <1>q, <1>z, QuietRunStep
         DEF Collect, TypeOK, Sending, serverVars, diskVars
  <1>6. CASE CollectFails
    BY <1>6, <1>t, <1>q, QuietRunStep DEF CollectFails, TypeOK, Sending, serverVars, diskVars
  <1>7. CASE SpoolReport
    <2>1. EvictForCapacity(spool) \subseteq spool
      BY DEF EvictForCapacity, Newest
    <2>2. spool' \subseteq ScanIds /\ evicted' \subseteq ScanIds
      BY <1>7, <2>1, <1>t DEF SpoolReport, TypeOK
    <2>3. QED
      BY <1>7, <2>2, <1>t, <1>q, QuietRunStep DEF SpoolReport, TypeOK, Sending, serverVars
  <1>8. CASE SendAttempt
    <2> DEFINE g == [scan |-> cur, next |-> 0, failed |-> FALSE, client |-> TRUE]
    <2>1. Sending /\ ~waiting /\ attempt' \in 0..MaxAttempts /\ waiting' = TRUE
            /\ UNCHANGED <<pc, cur, files, scans, clock, removed, drawn, left>>
            /\ UNCHANGED <<spool, evicted, lost>>
      BY <1>8, <1>t DEF SendAttempt, TypeOK, diskVars
    <2>2. g \in Handler
      BY <2>1, <1>t DEF TypeOK, Sending, Handler
    <2>3. handlers' = handlers \cup {g}
      BY <1>8 DEF SendAttempt
    <2>4. \A h \in handlers : ~h.client
      BY <2>1, <1>t DEF ClientWaits
    <2>5. g.scan = cur
      OBVIOUS
    <2> HIDE DEF g
    <2>6. TypeOK'
      BY <2>1, <2>2, <2>3, <1>t DEF TypeOK
    <2>7. ClientWaits'
      BY <2>1, <2>3, <2>4, <2>5 DEF ClientWaits, Sending
    <2>8. QED
      BY <2>6, <2>7 DEF TypeInv
  <1>9. ASSUME NEW h \in handlers, HandlerStep(h) PROVE TypeInv'
    <2>h. h \in Handler /\ h.scan \in ScanIds /\ h.next \in 0..(NSections + 1)
      BY <1>t DEF TypeOK, Handler
    <2>1. CASE CreateScanFails(h)
      <3>1. left' \in [FaultKinds -> Nat]
        BY <2>1, <1>t, <1>f, SpendType DEF CreateScanFails, CallFails, TypeOK
      <3>2. Returns(h) /\ Answer(h, RetryOrFail(attempt))
              /\ UNCHANGED <<scans, clock, removed, attempt, drawn, spool, evicted, lost>>
        BY <2>1 DEF CreateScanFails, diskVars
      <3>3. CASE h.client
        BY <3>1, <3>2, <3>3, <1>t, AnsweringStep DEF Answer, TypeOK
      <3>4. CASE ~h.client
        BY <3>1, <3>2, <3>4, <2>h, <1>t, SilentHandlerStep DEF Answer, TypeOK
      <3>5. QED
        BY <3>3, <3>4
    <2>2. CASE CreateScan(h)
      <3>1. 1 \in 0..(NSections + 1)
        OBVIOUS
      <3>2. /\ [h EXCEPT !.next = 1] \in Handler
            /\ [h EXCEPT !.next = 1].scan = h.scan
            /\ [h EXCEPT !.next = 1].client = h.client
        BY <3>1, <2>h, HandlerUpdate
      <3>3. [status |-> "running", createdAt |-> clock + 1, stored |-> {}] \in Scan
        BY <1>t DEF TypeOK, Scan
      <3>4. scans' \in [ScanIds -> Scan] /\ clock' \in Nat
        BY <2>2, <3>3, <2>h, <1>t DEF CreateScan, TypeOK
      <3>5. Becomes(h, [h EXCEPT !.next = 1]) /\ removed' = removed /\ left' = left
              /\ UNCHANGED <<pc, files, cur, attempt, waiting, drawn, spool, evicted, lost>>
        BY <2>2 DEF CreateScan, agentVars, diskVars
      <3>6. removed' \subseteq ScanIds /\ left' \in [FaultKinds -> Nat]
        BY <3>5, <1>t DEF TypeOK
      <3>7. QED
        BY <3>2, <3>4, <3>5, <3>6, SilentHandlerStep
    <2>3. CASE StoreSection(h)
      <3>1. h.next + 1 \in 0..(NSections + 1)
        BY <2>3 DEF StoreSection
      <3>2. /\ [h EXCEPT !.next = h.next + 1] \in Handler
            /\ [h EXCEPT !.next = h.next + 1].scan = h.scan
            /\ [h EXCEPT !.next = h.next + 1].client = h.client
        BY <3>1, <2>h, HandlerUpdate
      <3>3. scans[h.scan] \in Scan
        BY <2>h, <1>t DEF TypeOK
      <3>4. [scans[h.scan] EXCEPT !.stored = scans[h.scan].stored \cup {h.next}] \in Scan
        BY <3>3, <2>3 DEF StoreSection, Scan
      <3>5. scans' = [scans EXCEPT ![h.scan] =
                        [scans[h.scan] EXCEPT !.stored = scans[h.scan].stored \cup {h.next}]]
        BY <2>3 DEF StoreSection
      <3>6. scans' \in [ScanIds -> Scan]
        BY <3>4, <3>5, <2>h, <1>t DEF TypeOK
      <3>7. Becomes(h, [h EXCEPT !.next = h.next + 1])
              /\ UNCHANGED <<clock, removed, left>>
              /\ UNCHANGED <<pc, files, cur, attempt, waiting, drawn, spool, evicted, lost>>
        BY <2>3 DEF StoreSection, agentVars, diskVars
      <3>8. clock' \in Nat /\ removed' \subseteq ScanIds /\ left' \in [FaultKinds -> Nat]
        BY <3>7, <1>t DEF TypeOK
      <3>9. QED
        BY <3>2, <3>6, <3>7, <3>8, SilentHandlerStep
    <2>4. CASE StoreSectionFails(h)
      <3> DEFINE g == [h EXCEPT !.next = h.next + 1, !.failed = TRUE]
      <3>1. h.next + 1 \in 0..(NSections + 1)
        BY <2>4 DEF StoreSectionFails
      <3>2. g \in Handler /\ g.scan = h.scan /\ g.client = h.client
        BY <3>1, <2>h, HandlerUpdate
      <3>3. left' \in [FaultKinds -> Nat]
        BY <2>4, <1>t, <1>f, SpendType DEF StoreSectionFails, CallFails, TypeOK
      <3>4. Becomes(h, g) /\ UNCHANGED <<scans, clock, removed>>
              /\ UNCHANGED <<pc, files, cur, attempt, waiting, drawn, spool, evicted, lost>>
        BY <2>4 DEF StoreSectionFails, agentVars, diskVars
      <3>5. scans' \in [ScanIds -> Scan] /\ clock' \in Nat /\ removed' \subseteq ScanIds
        BY <3>4, <1>t DEF TypeOK
      <3> HIDE DEF g
      <3>6. QED
        BY <3>2, <3>3, <3>4, <3>5, SilentHandlerStep
    <2>5. CASE CompleteScan(h)
      <3>1. ReportScanStatus(h.failed) \in Usable
        BY DEF ReportScanStatus, Usable
      <3>2. [scans[h.scan] EXCEPT !.status = ReportScanStatus(h.failed)] \in Scan
        BY <3>1, <2>h, <1>t DEF TypeOK, Scan
      <3>3. scans' = scans \/ scans' = [scans EXCEPT ![h.scan] =
                        [scans[h.scan] EXCEPT !.status = ReportScanStatus(h.failed)]]
        BY <2>5 DEF CompleteScan
      <3>4. scans' \in [ScanIds -> Scan]
        BY <3>2, <3>3, <2>h, <1>t DEF TypeOK
      <3>5. Returns(h) /\ Answer(h, SendSucceeds)
              /\ UNCHANGED <<clock, removed, left, attempt, drawn, spool, evicted, lost>>
        BY <2>5 DEF CompleteScan, diskVars
      <3>6. CASE h.client
        BY <3>4, <3>5, <3>6, <1>t, AnsweringStep DEF Answer, TypeOK
      <3>7. CASE ~h.client
        BY <3>4, <3>5, <3>7, <2>h, <1>t, SilentHandlerStep DEF Answer, TypeOK
      <3>8. QED
        BY <3>6, <3>7
    <2>6. CASE CompleteScanFails(h)
      <3>1. left' \in [FaultKinds -> Nat]
        BY <2>6, <1>t, <1>f, SpendType DEF CompleteScanFails, CallFails, TypeOK
      <3>2. Returns(h) /\ Answer(h, SendSucceeds)
              /\ UNCHANGED <<scans, clock, removed, attempt, drawn, spool, evicted, lost>>
        BY <2>6 DEF CompleteScanFails, diskVars
      <3>3. CASE h.client
        BY <3>1, <3>2, <3>3, <1>t, AnsweringStep DEF Answer, TypeOK
      <3>4. CASE ~h.client
        BY <3>1, <3>2, <3>4, <2>h, <1>t, SilentHandlerStep DEF Answer, TypeOK
      <3>5. QED
        BY <3>3, <3>4
    <2>7. QED
      BY <1>9, <2>1, <2>2, <2>3, <2>4, <2>5, <2>6 DEF HandlerStep
  <1>10. ASSUME NEW s \in files, ReplayCorrupt(s) PROVE TypeInv'
    <2>1. left' \in [FaultKinds -> Nat]
      BY <1>10, <1>t, <1>f, SpendType DEF ReplayCorrupt, TypeOK
    <2>2. QED
      BY <1>10, <2>1, <1>t, <1>q, QuietRunStep
         DEF ReplayCorrupt, NextFile, TypeOK, Sending, serverVars
  <1>11. CASE Unreachable
    <2>1. left' \in [FaultKinds -> Nat]
      BY <1>11, <1>t, <1>f, SpendType DEF Unreachable, TypeOK
    <2>2. Sending /\ ~waiting /\ RetryOrFail(attempt + 1) /\ attempt' \in 0..MaxAttempts
            /\ UNCHANGED <<scans, clock, handlers, removed, drawn, spool, evicted, lost>>
      BY <1>11, <1>t DEF Unreachable, TypeOK, serverVars, diskVars
    <2>3. AgentType' /\ waiting' = FALSE
      BY <2>2, <1>t, AnswerType DEF RetryOrFail, SendFails
    <2>4. QED
      BY <2>1, <2>2, <2>3, <1>t, QuietRunStep DEF TypeOK, AgentType
  <1>12. CASE AnswerLost
    <2>1. left' \in [FaultKinds -> Nat]
      BY <1>12, <1>t, <1>f, SpendType DEF AnswerLost, TypeOK
    <2>2. Sending /\ RetryOrFail(attempt) /\ attempt' = attempt /\ handlers' = Disconnected
            /\ UNCHANGED <<scans, clock, removed, drawn, spool, evicted, lost>>
      BY <1>12, <1>t, <1>q DEF AnswerLost, diskVars
    <2>3. AgentType' /\ waiting' = FALSE
      BY <2>2, <1>t, AnswerType DEF RetryOrFail, SendFails
    <2>4. QED
      BY <2>1, <2>2, <2>3, <1>t, CutStep DEF TypeOK
  <1>13. CASE AgentCrash
    <2>1. left' \in [FaultKinds -> Nat]
      BY <1>13, <1>t, <1>f, SpendType DEF AgentCrash, TypeOK
    <2>2. AgentType' /\ waiting' = FALSE /\ attempt' \in 0..MaxAttempts
      BY <1>13, <1>z DEF AgentCrash, AgentType
    <2>3. lost' \subseteq ScanIds /\ handlers' = Disconnected
            /\ UNCHANGED <<scans, clock, removed, drawn, spool, evicted>>
      BY <1>13, <1>t DEF AgentCrash, TypeOK
    <2>4. QED
      BY <2>1, <2>2, <2>3, CutStep
  <1>14. CASE ServerCrash
    <2>1. left' \in [FaultKinds -> Nat]
      BY <1>14, <1>t, <1>f, SpendType DEF ServerCrash, TypeOK
    <2>2. handlers' = {} /\ attempt' = attempt
            /\ UNCHANGED <<scans, clock, removed, drawn, spool, evicted, lost>>
      BY <1>14 DEF ServerCrash, diskVars
    <2>3. CASE waiting
      <3>1. AgentType' /\ waiting' = FALSE
        BY <1>14, <2>3, <1>t, <1>q, AnswerType
           DEF ServerCrash, RetryOrFail, SendFails
      <3>2. QED
        BY <2>1, <2>2, <3>1, <1>t, CutStep DEF TypeOK
    <2>4. CASE ~waiting
      <3>1. AgentType' /\ waiting' = FALSE
        BY <1>14, <2>4, <1>t, NoAnswerType DEF ServerCrash, TypeOK
      <3>2. QED
        BY <2>1, <2>2, <3>1, <1>t, CutStep DEF TypeOK
    <2>5. QED
      BY <2>3, <2>4
  <1>15. ASSUME NEW h \in handlers, HandleReportRefuses(h) PROVE TypeInv'
    <2>h. h \in Handler
      BY <1>t DEF TypeOK
    <2>1. left' \in [FaultKinds -> Nat]
      BY <1>15, <1>t, <1>f, SpendType DEF HandleReportRefuses, TypeOK
    <2>2. Returns(h) /\ Answer(h, SendFails)
            /\ UNCHANGED <<scans, clock, removed, attempt, drawn, spool, evicted, lost>>
      BY <1>15 DEF HandleReportRefuses, diskVars
    <2>3. CASE h.client
      BY <2>1, <2>2, <2>3, <1>t, AnsweringStep DEF Answer, TypeOK
    <2>4. CASE ~h.client
      BY <2>1, <2>2, <2>4, <2>h, <1>t, SilentHandlerStep DEF Answer, TypeOK
    <2>5. QED
      BY <2>3, <2>4
  <1>a. ASSUME NEW S \in SUBSET ScanIds, Delete(S), left' \in [FaultKinds -> Nat],
               UNCHANGED <<clock, handlers, agentVars, diskVars>>
        PROVE  TypeInv'
    <2>1. NoRow \in Scan
      BY DEF NoRow, Scan
    <2>2. scans' \in [ScanIds -> Scan] /\ removed' \subseteq ScanIds
      BY <1>a, <2>1, <1>t DEF Delete, TypeOK
    <2>3. QED
      BY <1>a, <2>2, <1>t DEF TypeInv, TypeOK, ClientWaits, Sending, agentVars, diskVars
  <1>16. ASSUME NEW s \in ScanIds, NEW force \in BOOLEAN, DeleteScan(s, force)
         PROVE  TypeInv'
    <2>1. left' \in [FaultKinds -> Nat]
      BY <1>16, <1>t, <1>f, SpendType DEF DeleteScan, TypeOK
    <2>2. {s} \in SUBSET ScanIds
      OBVIOUS
    <2>3. QED
      BY <1>16, <2>1, <2>2, <1>a DEF DeleteScan
  <1>17. ASSUME NEW c \in 0..(clock + 1), PruneOldScans(c) PROVE TypeInv'
    <2>1. PICK S \in SUBSET ScanIds :
             Delete(S) /\ UNCHANGED <<clock, handlers, agentVars, diskVars, left>>
      BY <1>17 DEF PruneOldScans
    <2>2. QED
      BY <2>1, <1>t, <1>a DEF TypeOK
  <1>18. CASE UNCHANGED vars
    BY <1>18, <1>t
       DEF TypeInv, TypeOK, ClientWaits, Sending, vars, serverVars, agentVars, diskVars
  <1>19. QED
    BY <1>1, <1>2, <1>3, <1>4, <1>5, <1>6, <1>7, <1>8, <1>9, <1>10, <1>11, <1>12,
       <1>13, <1>14, <1>15, <1>16, <1>17, <1>18
       DEF Next, RunStep, FaultStep, AdminStep

\* The initial state has its types.
LEMMA InitTypeInv == Init => TypeInv
  <1> SUFFICES ASSUME Init PROVE TypeInv
    OBVIOUS
  <1>1. NoRow \in Scan
    BY DEF NoRow, Scan
  <1>2. scans \in [ScanIds -> Scan]
    BY <1>1 DEF Init
  <1>3. cur = NoScan /\ pc = "idle" /\ handlers = {} /\ waiting = FALSE
    BY DEF Init
  <1>4. TypeOK
    <2>1. left \in [FaultKinds -> Nat] /\ clock \in Nat
      BY DEF Init
    <2>2. attempt \in 0..MaxAttempts /\ drawn \in 0..MaxScans
      BY DEF Init
    <2>3. files = {} /\ spool = {} /\ evicted = {} /\ lost = {} /\ removed = {}
      BY DEF Init
    <2>4. QED
      BY <1>2, <1>3, <2>1, <2>2, <2>3 DEF TypeOK
  <1>5. QED
    BY <1>3, <1>4 DEF TypeInv, ClientWaits

\* TypeOK of every behaviour: rows, handlers, spool and the agent's position
\* in run() keep their types, and a run that sends has a report to send.
THEOREM TypeCorrect == Spec => []TypeOK
  <1>2. TypeInv => TypeOK
    BY DEF TypeInv
  <1>3. QED
    BY <1>2, InitTypeInv, TypeInvStep, PTL DEF Spec

----------------------------------------------------------------------------
(* No report is lost.  The strengthening: a handler past CreateScan, and an *)
(* agent about to remove a replayed file, have their scan at the server     *)
(* (or an administrator has removed it since).                              *)

AtServer(s) == scans[s].status # "absent" \/ s \in removed

HandlersHaveRows == \A h \in handlers : h.next > 0 => AtServer(h.scan)

ResentIsAtServer == pc = "resent" => AtServer(cur)

DeliveryInv == TypeInv /\ HandlersHaveRows /\ ResentIsAtServer /\ NoReportLost

\* A scan that reached the server stays, or is removed by name.
LEMMA AtServerStays ==
  ASSUME TypeInv, [Next]_vars, NEW s \in ScanIds, AtServer(s)
  PROVE  AtServer(s)'
  <1>1. scans' = scans /\ removed' = removed => AtServer(s)'
    BY DEF AtServer
  <1>2. ASSUME NEW S, Delete(S) PROVE AtServer(s)'
    BY <1>2 DEF Delete, AtServer
  <1>3. ASSUME NEW h \in handlers, HandlerStep(h) PROVE AtServer(s)'
    <2>1. h.scan \in ScanIds /\ scans \in [ScanIds -> Scan]
      BY DEF TypeInv, TypeOK, Handler
    <2>2. CASE CreateScan(h)
      BY <2>1, <2>2 DEF CreateScan, AtServer
    <2>3. CASE StoreSection(h)
      BY <2>1, <2>3 DEF StoreSection, AtServer, Scan
    <2>4. CASE CompleteScan(h)
      <3>1. ReportScanStatus(h.failed) # "absent"
        BY DEF ReportScanStatus
      <3>2. QED
        BY <2>1, <2>4, <3>1 DEF CompleteScan, AtServer, Scan
    <2>5. QED
      BY <1>1, <1>3, <2>2, <2>3, <2>4
         DEF HandlerStep, CreateScanFails, StoreSectionFails, CompleteScanFails
  <1>4. ASSUME NEW t \in ScanIds, NEW force \in BOOLEAN, DeleteScan(t, force)
        PROVE  AtServer(s)'
    BY <1>2, <1>4 DEF DeleteScan
  <1>5. ASSUME NEW c, PruneOldScans(c) PROVE AtServer(s)'
    BY <1>2, <1>5 DEF PruneOldScans
  <1>6. RunStep \/ FaultStep \/ UNCHANGED vars => scans' = scans /\ removed' = removed
    BY DEF RunStep, FaultStep, StartRun, ReplayNext, ReplayDone, RemoveReplayed, Collect,
           CollectFails, SpoolReport, SendAttempt, ReplayCorrupt, Unreachable, AnswerLost,
           AgentCrash, ServerCrash, HandleReportRefuses, vars, serverVars
  <1>7. QED
    BY <1>1, <1>3, <1>4, <1>5, <1>6 DEF Next, AdminStep

\* Steps that do not answer the agent and take no file off the spool.
LEMMA DeliveryFrame ==
  ASSUME DeliveryInv, [Next]_vars, HandlersHaveRows',
         UNCHANGED <<pc, cur, drawn, spool, evicted, lost>>
  PROVE  DeliveryInv'
  <1>1. TypeInv'
    BY TypeInvStep DEF DeliveryInv
  <1>2. ASSUME NEW s \in ScanIds, AtServer(s) PROVE AtServer(s)'
    BY <1>2, AtServerStays DEF DeliveryInv
  <1>3. ResentIsAtServer'
    BY <1>2 DEF DeliveryInv, TypeInv, TypeOK, ResentIsAtServer, AtServer
  <1>4. NoReportLost'
    <2> SUFFICES ASSUME NEW s \in 1..drawn'
                 PROVE  \/ pc' \in {"send", "spool"} /\ cur' = s
                        \/ s \in spool' \cup evicted' \cup lost' \cup removed'
                        \/ scans'[s].status # "absent"
      BY DEF NoReportLost
    <2>1. s \in 1..drawn /\ s \in ScanIds
      BY DEF DeliveryInv, TypeInv, TypeOK, ScanIds
    <2>2. AtServer(s) => AtServer(s)'
      BY <1>2, <2>1
    <2>3. QED
      BY <2>1, <2>2 DEF DeliveryInv, NoReportLost, AtServer
  <1>5. QED
    BY <1>1, <1>3, <1>4, HandlersHaveRows' DEF DeliveryInv

\* Steps of the agent outside of Send: what it lets go of is safe elsewhere.
LEMMA DeliveryRun ==
  ASSUME DeliveryInv, [Next]_vars, HandlersHaveRows', ResentIsAtServer',
         \A s \in 1..drawn' :
            \/ pc' \in {"send", "spool"} /\ cur' = s
            \/ s \in spool' \cup evicted' \cup lost'
            \/ AtServer(s)
  PROVE  DeliveryInv'
  <1>1. TypeInv'
    BY TypeInvStep DEF DeliveryInv
  <1>2. NoReportLost'
    <2> SUFFICES ASSUME NEW s \in 1..drawn'
                 PROVE  \/ pc' \in {"send", "spool"} /\ cur' = s
                        \/ s \in spool' \cup evicted' \cup lost' \cup removed'
                        \/ scans'[s].status # "absent"
      BY DEF NoReportLost
    <2>1. s \in ScanIds
      BY <1>1 DEF TypeInv, TypeOK, ScanIds
    <2>2. AtServer(s) => AtServer(s)'
      BY <2>1, AtServerStays DEF DeliveryInv
    <2>3. QED
      BY <2>2 DEF AtServer
  <1>3. QED
    BY <1>1, <1>2 DEF DeliveryInv

\* No handler moves, no row changes: the rows of the handlers stay.
LEMMA HandlersFrame ==
  ASSUME DeliveryInv, [Next]_vars,
         \A k \in handlers' : k.next > 0 =>
            \E h \in handlers : h.next > 0 /\ h.scan = k.scan
  PROVE  HandlersHaveRows'
  <1> SUFFICES ASSUME NEW k \in handlers', k.next > 0 PROVE AtServer(k.scan)'
    BY DEF HandlersHaveRows, AtServer
  <1>1. PICK h \in handlers : h.next > 0 /\ h.scan = k.scan
    OBVIOUS
  <1>2. AtServer(h.scan) /\ h.scan \in ScanIds
    BY <1>1 DEF DeliveryInv, HandlersHaveRows, TypeInv, TypeOK, Handler
  <1>3. AtServer(h.scan)'
    BY <1>2, AtServerStays DEF DeliveryInv
  <1>4. QED
    BY <1>1, <1>3 DEF AtServer

\* The rows of handlers that lost their client stay too.
LEMMA HandlersCut ==
  ASSUME DeliveryInv, [Next]_vars, handlers' = Disconnected
  PROVE  HandlersHaveRows'
  <1>1. ASSUME NEW k \in handlers', k.next > 0
        PROVE  \E h \in handlers : h.next > 0 /\ h.scan = k.scan
    <2>1. PICK h \in handlers : k = [h EXCEPT !.client = FALSE]
      BY DEF Disconnected
    <2>2. h \in Handler /\ 0 \in 0..(NSections + 1)
      BY DEF DeliveryInv, TypeInv, TypeOK
    <2>3. k.next = h.next /\ k.scan = h.scan
      BY <2>1, <2>2, HandlerUpdate
    <2>4. QED
      BY <1>1, <2>3
  <1>2. QED
    BY <1>1, HandlersFrame

\* A handler's last step: the agent may let go of the report if the handler
\* got past CreateScan, and keeps it otherwise.
LEMMA DeliveryAnswer ==
  ASSUME DeliveryInv, [Next]_vars, NEW h \in handlers, Returns(h),
         UNCHANGED <<drawn, spool, evicted, lost>>,
         \/ ~h.client /\ UNCHANGED <<pc, files, cur, waiting>>
         \/ h.client /\ (SendFails \/ RetryOrFail(attempt))
         \/ h.client /\ SendSucceeds /\ h.next > 0
  PROVE  DeliveryInv'
  <1>1. HandlersHaveRows'
    <2>1. \A k \in handlers' : k \in handlers
      BY DEF Returns
    <2>2. QED
      BY <2>1, HandlersFrame
  <1>2. h.client => Sending /\ h.scan = cur
    BY DEF DeliveryInv, TypeInv, ClientWaits
  <1>3. \A s \in 1..drawn : \/ pc \in {"send", "spool"} /\ cur = s
                            \/ s \in spool \cup evicted \cup lost
                            \/ AtServer(s)
    BY DEF DeliveryInv, NoReportLost, AtServer
  <1>4. CASE ~h.client /\ UNCHANGED <<pc, files, cur, waiting>>
    BY <1>1, <1>4, DeliveryFrame
  <1>5. CASE h.client /\ (SendFails \/ RetryOrFail(attempt))
    <2>1. /\ pc' # "resent"
          /\ pc = "send" => pc' \in {"send", "spool"} /\ cur' = cur
      BY <1>2, <1>5 DEF Sending, SendFails, RetryOrFail
    <2>2. ResentIsAtServer'
      BY <2>1 DEF ResentIsAtServer
    <2>3. QED
      BY <1>1, <1>2, <1>3, <2>1, <2>2, DeliveryRun DEF Sending
  <1>6. CASE h.client /\ SendSucceeds /\ h.next > 0
    <2>1. AtServer(cur) /\ cur \in ScanIds
      BY <1>2, <1>6 DEF DeliveryInv, HandlersHaveRows, TypeInv, TypeOK, Sending
    <2>2. /\ pc' = "resent" => cur' = cur
          /\ pc' # "spool" /\ pc' # "send"
          /\ pc # "spool"
      BY <1>2, <1>6 DEF SendSucceeds, Sending
    <2>3. ASSUME NEW s \in ScanIds, AtServer(s)
          PROVE  scans'[s].status # "absent" \/ s \in removed'
      BY <2>3, AtServerStays DEF DeliveryInv, AtServer
    <2>4. ResentIsAtServer'
      BY <2>1, <2>2, <2>3 DEF ResentIsAtServer, AtServer
    <2>5. QED
      BY <1>1, <1>3, <2>1, <2>2, <2>4, DeliveryRun
  <1>7. QED
    BY <1>4, <1>5, <1>6

\* Handler h goes on as k, past CreateScan, without a word to the agent.
LEMMA DeliveryBecomes ==
  ASSUME DeliveryInv, [Next]_vars, NEW h \in handlers, NEW k, Becomes(h, k),
         k.scan = h.scan, AtServer(h.scan)', UNCHANGED <<agentVars, diskVars>>
  PROVE  DeliveryInv'
  <1>1. HandlersHaveRows'
    <2> SUFFICES ASSUME NEW j \in handlers', j.next > 0 PROVE AtServer(j.scan)'
      BY DEF HandlersHaveRows, AtServer
    <2>1. CASE j = k
      BY <2>1 DEF AtServer
    <2>2. CASE j # k
      <3>1. j \in handlers
        BY <2>2 DEF Becomes
      <3>2. AtServer(j.scan) /\ j.scan \in ScanIds
        BY <3>1 DEF DeliveryInv, HandlersHaveRows, TypeInv, TypeOK, Handler
      <3>3. QED
        BY <3>2, AtServerStays DEF DeliveryInv
    <2>3. QED
      BY <2>1, <2>2
  <1>2. QED
    BY <1>1, DeliveryFrame DEF agentVars, diskVars

\* Every step keeps every report in safe hands.
LEMMA DeliveryStep == DeliveryInv /\ [Next]_vars => DeliveryInv'
  <1> SUFFICES ASSUME DeliveryInv, [Next]_vars PROVE DeliveryInv'
    OBVIOUS
  <1>t. TypeOK /\ ClientWaits
    BY DEF DeliveryInv, TypeInv
  <1>s. \A s \in 1..drawn : \/ pc \in {"send", "spool"} /\ cur = s
                            \/ s \in spool \cup evicted \cup lost
                            \/ AtServer(s)
    BY DEF DeliveryInv, NoReportLost, AtServer
  <1>h. handlers' \subseteq handlers => HandlersHaveRows'
    BY HandlersFrame
  <1>1. CASE StartRun \/ ReplayDone \/ CollectFails \/ (\E s \in files : ReplayNext(s))
    <2>1. /\ handlers' = handlers /\ pc' # "resent" /\ pc \notin {"send", "spool"}
          /\ UNCHANGED <<drawn, spool, evicted, lost>>
      BY <1>1 DEF StartRun, ReplayDone, CollectFails, ReplayNext, serverVars, diskVars
    <2>2. ResentIsAtServer'
      BY <2>1 DEF ResentIsAtServer
    <2>3. QED
      BY <2>1, <2>2, <1>s, <1>h, DeliveryRun
  <1>2. CASE RemoveReplayed
    <2>1. /\ handlers' = handlers /\ pc' = "replay" /\ pc = "resent"
          /\ spool \ {cur} \subseteq spool' /\ UNCHANGED <<drawn, evicted, lost>>
      BY <1>2 DEF RemoveReplayed, serverVars
    <2>2. ResentIsAtServer' /\ AtServer(cur)
      BY <2>1 DEF ResentIsAtServer, DeliveryInv
    <2>3. QED
      BY <2>1, <2>2, <1>s, <1>h, DeliveryRun
  <1>3. CASE Collect
    <2>1. /\ handlers' = handlers /\ pc' = "send" /\ pc = "collect"
          /\ drawn' = drawn + 1 /\ cur' = drawn + 1 /\ drawn \in Nat
          /\ UNCHANGED <<spool, evicted, lost>>
      BY <1>3, <1>t DEF Collect, TypeOK, serverVars, diskVars
    <2>2. ResentIsAtServer'
      BY <2>1 DEF ResentIsAtServer
    <2>3. \A s \in 1..drawn' : s \in 1..drawn \/ s = drawn + 1
      BY <2>1
    <2>4. QED
      BY <2>1, <2>2, <2>3, <1>s, <1>h, DeliveryRun
  <1>4. CASE SpoolReport
    <2>1. /\ handlers' = handlers /\ pc' = "idle" /\ pc = "spool"
          /\ spool \cup evicted \cup lost \cup {cur} \subseteq spool' \cup evicted' \cup lost'
          /\ drawn' = drawn
      BY <1>4 DEF SpoolReport, serverVars
    <2>2. ResentIsAtServer'
      BY <2>1 DEF ResentIsAtServer
    <2>3. QED
      BY <2>1, <2>2, <1>s, <1>h, DeliveryRun
  <1>5. CASE SendAttempt
    <2> DEFINE g == [scan |-> cur, next |-> 0, failed |-> FALSE, client |-> TRUE]
    <2>1. handlers' = handlers \cup {g} /\ g.next = 0
            /\ UNCHANGED <<pc, cur, drawn, spool, evicted, lost>>
      BY <1>5 DEF SendAttempt, diskVars
    <2> HIDE DEF g
    <2>2. \A k \in handlers' : k.next > 0 => k \in handlers
      BY <2>1
    <2>3. QED
      BY <2>1, <2>2, HandlersFrame, DeliveryFrame
  <1>6. ASSUME NEW h \in handlers, HandlerStep(h) PROVE DeliveryInv'
    <2>h. h \in Handler /\ h.scan \in ScanIds /\ scans \in [ScanIds -> Scan]
      BY <1>t DEF TypeOK, Handler
    <2>a. h.next > 0 => AtServer(h.scan)'
      BY <2>h, AtServerStays DEF DeliveryInv, HandlersHaveRows
    <2>1. CASE CreateScanFails(h)
      BY <2>1, DeliveryAnswer DEF CreateScanFails, Answer, diskVars
    <2>2. CASE CreateScan(h)
      <3>1. AtServer(h.scan)'
        BY <2>2, <2>h DEF CreateScan, AtServer
      <3>2. 1 \in 0..(NSections + 1)
        OBVIOUS
      <3>3. [h EXCEPT !.next = 1].scan = h.scan
        BY <2>h, <3>2, HandlerUpdate
      <3>4. Becomes(h, [h EXCEPT !.next = 1]) /\ UNCHANGED <<agentVars, diskVars>>
        BY <2>2 DEF CreateScan
      <3>5. QED
        BY <3>1, <3>3, <3>4, DeliveryBecomes
    <2>3. CASE StoreSection(h)
      <3>1. h.next + 1 \in 0..(NSections + 1) /\ h.next > 0
        BY <2>3 DEF StoreSection
      <3>2. [h EXCEPT !.next = h.next + 1].scan = h.scan
        BY <2>h, <3>1, HandlerUpdate
      <3>3. Becomes(h, [h EXCEPT !.next = h.next + 1]) /\ UNCHANGED <<agentVars, diskVars>>
        BY <2>3 DEF StoreSection
      <3>4. QED
        BY <2>a, <3>1, <3>2, <3>3, DeliveryBecomes
    <2>4. CASE StoreSectionFails(h)
      <3>1. h.next + 1 \in 0..(NSections + 1) /\ h.next > 0
        BY <2>4 DEF StoreSectionFails
      <3>2. [h EXCEPT !.next = h.next + 1, !.failed = TRUE].scan = h.scan
        BY <2>h, <3>1, HandlerUpdate
      <3>3. Becomes(h, [h EXCEPT !.next = h.next + 1, !.failed = TRUE])
              /\ UNCHANGED <<agentVars, diskVars>>
        BY <2>4 DEF StoreSectionFails
      <3>4. QED
        BY <2>a, <3>1, <3>2, <3>3, DeliveryBecomes
    <2>5. CASE CompleteScan(h) \/ CompleteScanFails(h)
      <3>1. h.next > 0
        BY <2>5 DEF CompleteScan, CompleteScanFails
      <3>2. QED
        BY <2>5, <3>1, DeliveryAnswer DEF CompleteScan, CompleteScanFails, Answer, diskVars
    <2>6. QED
      BY <1>6, <2>1, <2>2, <2>3, <2>4, <2>5 DEF HandlerStep
  <1>7. ASSUME NEW s \in files, ReplayCorrupt(s) PROVE DeliveryInv'
    <2>1. /\ handlers' = handlers /\ pc' = "replay" /\ pc = "replay"
          /\ spool \cup lost \subseteq spool' \cup lost' /\ UNCHANGED <<drawn, evicted>>
      BY <1>7 DEF ReplayCorrupt, serverVars
    <2>2. ResentIsAtServer'
      BY <2>1 DEF ResentIsAtServer
    <2>3. QED
      BY <2>1, <2>2, <1>s, <1>h, DeliveryRun
  <1>f. ASSUME Sending, SendFails \/ RetryOrFail(attempt) \/ RetryOrFail(attempt + 1),
               HandlersHaveRows', UNCHANGED <<drawn, spool, evicted, lost>>
        PROVE  DeliveryInv'
    <2>1. /\ pc' # "resent" /\ pc # "spool"
          /\ pc = "send" => pc' \in {"send", "spool"} /\ cur' = cur
      BY <1>f DEF Sending, SendFails, RetryOrFail
    <2>2. ResentIsAtServer'
      BY <2>1 DEF ResentIsAtServer
    <2>3. QED
      BY <1>f, <1>s, <2>1, <2>2, DeliveryRun
  <1>8. CASE Unreachable
    BY <1>8, <1>f, <1>h DEF Unreachable, serverVars, diskVars
  <1>9. CASE AnswerLost
    <2>1. HandlersHaveRows'
      BY <1>9, HandlersCut DEF AnswerLost
    <2>2. QED
      BY <1>9, <1>f, <1>t, <2>1 DEF AnswerLost, ClientWaits, diskVars
  <1>10. CASE AgentCrash
    <2>1. HandlersHaveRows'
      BY <1>10, HandlersCut DEF AgentCrash
    <2>2. /\ pc' = "idle" /\ UNCHANGED <<drawn, spool, evicted>>
          /\ lost \subseteq lost' /\ (pc \in {"send", "spool"} => cur \in lost')
      BY <1>10 DEF AgentCrash
    <2>3. ResentIsAtServer'
      BY <2>2 DEF ResentIsAtServer
    <2>4. QED
      BY <2>1, <2>2, <2>3, <1>s, DeliveryRun
  <1>11. CASE ServerCrash
    <2>1. handlers' = {} /\ UNCHANGED <<drawn, spool, evicted, lost>>
      BY <1>11 DEF ServerCrash, diskVars
    <2>2. CASE waiting
      BY <1>11, <2>1, <2>2, <1>f, <1>h, <1>t DEF ServerCrash, ClientWaits
    <2>3. CASE ~waiting
      BY <1>11, <2>1, <2>3, <1>h, DeliveryFrame DEF ServerCrash
    <2>4. QED
      BY <2>2, <2>3
  <1>12. ASSUME NEW h \in handlers, HandleReportRefuses(h) PROVE DeliveryInv'
    BY <1>12, DeliveryAnswer DEF HandleReportRefuses, Answer, diskVars
  <1>13. CASE AdminStep \/ UNCHANGED vars
    <2>1. UNCHANGED <<handlers, pc, cur, drawn, spool, evicted, lost>>
      BY <1>13 DEF AdminStep, DeleteScan, PruneOldScans, vars, serverVars, agentVars, diskVars
    <2>2. QED
      BY <2>1, <1>h, DeliveryFrame
  <1>14. QED
    BY <1>1, <1>2, <1>3, <1>4, <1>5, <1>6, <1>7, <1>8, <1>9, <1>10, <1>11, <1>12, <1>13
       DEF Next, RunStep, FaultStep

\* NoReportLost of every behaviour: through retries, lost answers, crashes of
\* the agent or the server, evictions and deletions, no report the agent
\* built disappears without one of the causes the code allows.
THEOREM ReportsAreNotLost == Spec => []NoReportLost
  <1>1. Init => DeliveryInv
    <2> SUFFICES ASSUME Init PROVE DeliveryInv
      OBVIOUS
    <2>1. TypeInv
      BY InitTypeInv
    <2>2. HandlersHaveRows /\ ResentIsAtServer
      BY DEF Init, HandlersHaveRows, ResentIsAtServer
    <2>3. NoReportLost
      BY DEF Init, NoReportLost
    <2>4. QED
      BY <2>1, <2>2, <2>3 DEF DeliveryInv
  <1>2. DeliveryInv => NoReportLost
    BY DEF DeliveryInv
  <1>3. QED
    BY <1>1, <1>2, DeliveryStep, PTL DEF Spec

----------------------------------------------------------------------------
(* A completed scan is whole.                                              *)

\* What call k has stored, and whether it failed to.
CallIsWhole(k) ==
    k.next > 0 /\ k.scan \notin removed =>
        /\ scans[k.scan].status # "absent"
        /\ ~k.failed => 1..(k.next - 1) \subseteq scans[k.scan].stored

WholeInv ==
    /\ TypeInv
    /\ \A h \in handlers : CallIsWhole(h)
    /\ CompletedIsWhole

\* Steps that touch neither a row nor the progress of a call.
LEMMA WholeFrame ==
  ASSUME WholeInv, [Next]_vars, UNCHANGED <<scans, removed>>,
         \A k \in handlers' :
            \/ k.next = 0
            \/ \E h \in handlers : h.scan = k.scan /\ h.next = k.next /\ h.failed = k.failed
  PROVE  WholeInv'
  <1>1. TypeInv'
    BY TypeInvStep DEF WholeInv
  <1>2. CompletedIsWhole'
    BY DEF WholeInv, CompletedIsWhole
  <1>3. ASSUME NEW k \in handlers' PROVE CallIsWhole(k)'
    <2>1. CASE k.next = 0
      BY <2>1 DEF CallIsWhole
    <2>2. CASE k.next # 0
      <3>1. PICK h \in handlers : h.scan = k.scan /\ h.next = k.next /\ h.failed = k.failed
        BY <2>2
      <3>2. CallIsWhole(h)
        BY DEF WholeInv
      <3>3. QED
        BY <3>1, <3>2 DEF CallIsWhole
    <2>3. QED
      BY <2>1, <2>2
  <1>4. QED
    BY <1>1, <1>2, <1>3 DEF WholeInv

\* A call goes on as k while its own row changes: the other rows stay, and so
\* does what the other calls stored.
LEMMA WholeBecomes ==
  ASSUME WholeInv, [Next]_vars, NEW h \in handlers, NEW k, Becomes(h, k),
         k.scan = h.scan, CallIsWhole(k)', UNCHANGED removed,
         NEW r, scans' = [scans EXCEPT ![h.scan] = r],
         r.status = "completed" /\ h.scan \notin removed => r.stored = 1..NSections,
         scans[h.scan].status # "absent" \/ r.stored = {},
         r.status # "absent",
         scans[h.scan].status # "absent" => scans[h.scan].stored \subseteq r.stored
  PROVE  WholeInv'
  <1>1. TypeInv'
    BY TypeInvStep DEF WholeInv
  <1>2. scans \in [ScanIds -> Scan] /\ h.scan \in ScanIds /\ handlers \subseteq Handler
    BY DEF WholeInv, TypeInv, TypeOK, Handler
  <1>3. CompletedIsWhole'
    BY <1>2 DEF WholeInv, CompletedIsWhole
  <1>4. ASSUME NEW j \in handlers' PROVE CallIsWhole(j)'
    <2>1. CASE j = k
      BY <2>1
    <2>2. CASE j # k
      <3>1. j \in handlers /\ j.scan \in ScanIds
        BY <2>2, <1>2 DEF Becomes, Handler
      <3>2. CallIsWhole(j)
        BY <3>1 DEF WholeInv
      <3>3. CASE j.scan = h.scan
        BY <1>2, <3>1, <3>2, <3>3 DEF CallIsWhole
      <3>4. CASE j.scan # h.scan
        BY <1>2, <3>1, <3>2, <3>4 DEF CallIsWhole
      <3>5. QED
        BY <3>3, <3>4
    <2>3. QED
      BY <2>1, <2>2
  <1>5. QED
    BY <1>1, <1>3, <1>4 DEF WholeInv

\* A call that ends, and may have completed its scan.
LEMMA WholeReturns ==
  ASSUME WholeInv, [Next]_vars, handlers' \subseteq handlers, NEW s \in ScanIds, NEW r,
         r.status = "completed" /\ s \notin removed => r.stored = 1..NSections,
         r.status # "absent", r.stored = scans[s].stored,
         UNCHANGED removed, scans' = [scans EXCEPT ![s] = r]
  PROVE  WholeInv'
  <1>1. TypeInv'
    BY TypeInvStep DEF WholeInv
  <1>2. scans \in [ScanIds -> Scan] /\ handlers \subseteq Handler
    BY DEF WholeInv, TypeInv, TypeOK
  <1>3. CompletedIsWhole'
    BY <1>2 DEF WholeInv, CompletedIsWhole
  <1>4. ASSUME NEW j \in handlers' PROVE CallIsWhole(j)'
    <2>1. j \in handlers /\ j.scan \in ScanIds
      BY <1>2 DEF Handler
    <2>2. CallIsWhole(j)
      BY <2>1 DEF WholeInv
    <2>3. CASE j.scan = s
      BY <1>2, <2>1, <2>2, <2>3 DEF CallIsWhole
    <2>4. CASE j.scan # s
      BY <1>2, <2>1, <2>2, <2>4 DEF CallIsWhole
    <2>5. QED
      BY <2>3, <2>4
  <1>5. QED
    BY <1>1, <1>3, <1>4 DEF WholeInv

\* Deleting scans speaks of none that is left.
LEMMA WholeDelete ==
  ASSUME WholeInv, [Next]_vars, NEW S, Delete(S), UNCHANGED handlers
  PROVE  WholeInv'
  <1>1. TypeInv'
    BY TypeInvStep DEF WholeInv
  <1>2. /\ handlers \subseteq Handler
        /\ \A s \in ScanIds \ removed' : s \notin removed /\ scans'[s] = scans[s]
    BY DEF WholeInv, TypeInv, TypeOK, Delete
  <1>3. CompletedIsWhole'
    BY <1>2 DEF WholeInv, CompletedIsWhole
  <1>4. ASSUME NEW j \in handlers' PROVE CallIsWhole(j)'
    <2>1. j \in handlers /\ j.scan \in ScanIds
      BY <1>2 DEF Handler
    <2>2. CallIsWhole(j)
      BY <2>1 DEF WholeInv
    <2>3. QED
      BY <1>2, <2>1, <2>2 DEF CallIsWhole
  <1>5. QED
    BY <1>1, <1>3, <1>4 DEF WholeInv

\* Every step of a call leaves completed scans whole.
LEMMA WholeHandler ==
  ASSUME WholeInv, [Next]_vars, NEW h \in handlers, HandlerStep(h)
  PROVE  WholeInv'
  <1>h. /\ h \in Handler /\ h.scan \in ScanIds /\ h.next \in 0..(NSections + 1)
        /\ scans \in [ScanIds -> Scan] /\ scans[h.scan] \in Scan
        /\ CallIsWhole(h)
    BY DEF WholeInv, TypeInv, TypeOK, Handler
  <1>1. CASE CreateScanFails(h) \/ CompleteScanFails(h)
    <2>1. \A k \in handlers' : k \in handlers
      BY <1>1 DEF CreateScanFails, CompleteScanFails, Returns
    <2>2. QED
      BY <1>1, <2>1, WholeFrame DEF CreateScanFails, CompleteScanFails
  <1>2. CASE CreateScan(h)
    <2>1. PICK r : r = [status |-> "running", createdAt |-> clock + 1, stored |-> {}]
      OBVIOUS
    <2>2. PICK k : k = [h EXCEPT !.next = 1]
      OBVIOUS
    <2>3. r.status = "running" /\ r.stored = {}
      BY <2>1
    <2>4. k.scan = h.scan /\ k.next = 1
      BY <2>2, <1>h DEF Handler
    <2>5. scans' = [scans EXCEPT ![h.scan] = r] /\ Becomes(h, k) /\ removed' = removed
            /\ scans[h.scan].status = "absent"
      BY <1>2, <2>1, <2>2 DEF CreateScan
    <2>6. scans'[h.scan] = r
      BY <2>5, <1>h
    <2>7. CallIsWhole(k)'
      BY <2>3, <2>4, <2>6 DEF CallIsWhole
    <2>8. QED
      BY <2>3, <2>4, <2>5, <2>7, WholeBecomes
  <1>3. CASE StoreSection(h)
    <2>0. h.next + 1 \in 0..(NSections + 1) /\ h.next \in Nat /\ h.next \in 1..NSections
      BY <1>3, <1>h DEF StoreSection
    <2>1. PICK r : r = [scans[h.scan] EXCEPT !.stored = scans[h.scan].stored \cup {h.next}]
      OBVIOUS
    <2>2. PICK k : k = [h EXCEPT !.next = h.next + 1]
      OBVIOUS
    <2>3. r.status = scans[h.scan].status /\ r.stored = scans[h.scan].stored \cup {h.next}
      BY <2>1, <1>h DEF Scan
    <2>4. k.scan = h.scan /\ k.next = h.next + 1
      BY <2>0, <2>2, <1>h DEF Handler
    <2>f. k.failed = h.failed
      BY <2>2, <1>h DEF Handler
    <2>5. scans' = [scans EXCEPT ![h.scan] = r] /\ Becomes(h, k) /\ removed' = removed
            /\ scans[h.scan].status # "absent"
      BY <1>3, <2>1, <2>2 DEF StoreSection
    <2>6. scans'[h.scan] = r
      BY <2>5, <1>h
    <2>7. CallIsWhole(k)'
      <3>1. \A i \in 1..(k.next - 1) : i = h.next \/ i \in 1..(h.next - 1)
        BY <2>0, <2>4
      <3>2. h.scan \notin removed /\ ~h.failed => 1..(h.next - 1) \subseteq scans[h.scan].stored
        BY <1>h, <2>0 DEF CallIsWhole
      <3>3. QED
        BY <2>3, <2>4, <2>f, <2>5, <2>6, <3>1, <3>2 DEF CallIsWhole
    <2>8. r.status = "completed" /\ h.scan \notin removed => r.stored = 1..NSections
      BY <2>0, <2>3, <1>h DEF WholeInv, CompletedIsWhole
    <2>9. QED
      BY <2>3, <2>4, <2>5, <2>7, <2>8, WholeBecomes
  <1>4. CASE StoreSectionFails(h)
    <2>0. h.next + 1 \in 0..(NSections + 1) /\ h.next \in Nat /\ h.next > 0
      BY <1>4, <1>h DEF StoreSectionFails
    <2>2. PICK k : k = [h EXCEPT !.next = h.next + 1, !.failed = TRUE]
      OBVIOUS
    <2>4. k.scan = h.scan
      BY <2>0, <2>2, <1>h, HandlerUpdate
    <2>f. k.failed
      BY <2>2, <1>h DEF Handler
    <2>5. scans' = scans /\ Becomes(h, k) /\ removed' = removed
      BY <1>4, <2>2 DEF StoreSectionFails
    <2>6. CallIsWhole(k)'
      BY <1>h, <2>0, <2>4, <2>f, <2>5 DEF CallIsWhole
    <2>7. TypeInv' /\ CompletedIsWhole'
      BY <2>5, TypeInvStep DEF WholeInv, CompletedIsWhole
    <2>8. ASSUME NEW j \in handlers' PROVE CallIsWhole(j)'
      <3>1. CASE j = k
        BY <2>6, <3>1
      <3>2. CASE j # k
        <4>1. j \in handlers
          BY <2>5, <3>2 DEF Becomes
        <4>2. CallIsWhole(j)
          BY <4>1 DEF WholeInv
        <4>3. QED
          BY <2>5, <4>2 DEF CallIsWhole
      <3>3. QED
        BY <3>1, <3>2
    <2>9. QED
      BY <2>7, <2>8 DEF WholeInv
  <1>5. CASE CompleteScan(h)
    <2>1. handlers' \subseteq handlers /\ removed' = removed
      BY <1>5 DEF CompleteScan, Returns
    <2>2. CASE scans[h.scan].status = "absent"
      <3>1. scans' = scans
        BY <1>5, <2>2 DEF CompleteScan
      <3>2. QED
        BY <2>1, <3>1, WholeFrame
    <2>3. CASE scans[h.scan].status # "absent"
      <3>1. PICK r : r = [scans[h.scan] EXCEPT !.status = ReportScanStatus(h.failed)]
        OBVIOUS
      <3>2. r.status = ReportScanStatus(h.failed) /\ r.stored = scans[h.scan].stored
        BY <3>1, <1>h DEF Scan
      <3>3. scans' = [scans EXCEPT ![h.scan] = r]
        BY <1>5, <2>3, <3>1 DEF CompleteScan
      <3>4. r.status # "absent" /\ (r.status = "completed" => ~h.failed)
        BY <3>2 DEF ReportScanStatus
      <3>5. r.status = "completed" /\ h.scan \notin removed => r.stored = 1..NSections
        <4>1. h.next = NSections + 1
          BY <1>5 DEF CompleteScan
        <4>2. h.next - 1 = NSections /\ h.next > 0
          BY <4>1
        <4>3. scans[h.scan].stored \subseteq 1..NSections
          BY <1>h DEF Scan
        <4>4. ~h.failed /\ h.scan \notin removed => 1..NSections \subseteq scans[h.scan].stored
          BY <1>h, <4>2 DEF CallIsWhole
        <4>5. QED
          BY <3>2, <3>4, <4>3, <4>4
      <3>6. QED
        BY <1>h, <2>1, <3>2, <3>3, <3>4, <3>5, WholeReturns
    <2>4. QED
      BY <2>2, <2>3
  <1>6. QED
    BY <1>1, <1>2, <1>3, <1>4, <1>5 DEF HandlerStep

\* Calls that lost their client go on as they were.
LEMMA WholeCut ==
  ASSUME WholeInv, [Next]_vars, handlers' = Disconnected, UNCHANGED <<scans, removed>>
  PROVE  WholeInv'
  <1>1. ASSUME NEW k \in handlers'
        PROVE  \E h \in handlers : h.scan = k.scan /\ h.next = k.next /\ h.failed = k.failed
    <2>1. PICK h \in handlers : k = [h EXCEPT !.client = FALSE]
      BY DEF Disconnected
    <2>2. h \in Handler
      BY DEF WholeInv, TypeInv, TypeOK
    <2>3. QED
      BY <2>1, <2>2 DEF Handler
  <1>2. QED
    BY <1>1, WholeFrame

\* Every step leaves completed scans whole.
LEMMA WholeStep == WholeInv /\ [Next]_vars => WholeInv'
  <1> SUFFICES ASSUME WholeInv, [Next]_vars PROVE WholeInv'
    OBVIOUS
  <1>1. CASE StartRun \/ (\E s \in files : ReplayNext(s)) \/ ReplayDone \/ RemoveReplayed
             \/ Collect \/ CollectFails \/ SpoolReport
             \/ (\E s \in files : ReplayCorrupt(s)) \/ Unreachable \/ UNCHANGED vars
    <2>1. UNCHANGED <<scans, removed, handlers>>
      BY <1>1 DEF StartRun, ReplayNext, ReplayDone, RemoveReplayed, Collect, CollectFails,
                  SpoolReport, ReplayCorrupt, Unreachable, vars, serverVars
    <2>2. QED
      BY <2>1, WholeFrame
  <1>2. CASE SendAttempt
    <2> DEFINE g == [scan |-> cur, next |-> 0, failed |-> FALSE, client |-> TRUE]
    <2>1. handlers' = handlers \cup {g} /\ g.next = 0 /\ UNCHANGED <<scans, removed>>
      BY <1>2 DEF SendAttempt
    <2> HIDE DEF g
    <2>2. QED
      BY <2>1, WholeFrame
  <1>3. ASSUME NEW h \in handlers, HandlerStep(h) PROVE WholeInv'
    BY <1>3, WholeHandler
  <1>4. CASE AnswerLost \/ AgentCrash
    BY <1>4, WholeCut DEF AnswerLost, AgentCrash
  <1>5. CASE ServerCrash
    BY <1>5, WholeFrame DEF ServerCrash
  <1>6. ASSUME NEW h \in handlers, HandleReportRefuses(h) PROVE WholeInv'
    <2>1. \A k \in handlers' : k \in handlers
      BY <1>6 DEF HandleReportRefuses, Returns
    <2>2. QED
      BY <1>6, <2>1, WholeFrame DEF HandleReportRefuses
  <1>7. ASSUME NEW s \in ScanIds, NEW force \in BOOLEAN, DeleteScan(s, force) PROVE WholeInv'
    BY <1>7, WholeDelete DEF DeleteScan
  <1>8. ASSUME NEW c, PruneOldScans(c) PROVE WholeInv'
    BY <1>8, WholeDelete DEF PruneOldScans
  <1>9. QED
    BY <1>1, <1>2, <1>3, <1>4, <1>5, <1>6, <1>7, <1>8 DEF Next, RunStep, FaultStep, AdminStep

\* CompletedIsWhole of every behaviour: whatever fails between CreateScan and
\* CompleteScan, and whoever goes away meanwhile, a scan that reads
\* "completed" and was never deleted has every section of its report.
THEOREM CompletedScansAreWhole == Spec => []CompletedIsWhole
  <1>1. Init => WholeInv
    <2> SUFFICES ASSUME Init PROVE WholeInv
      OBVIOUS
    <2>1. TypeInv
      BY InitTypeInv
    <2>2. \A h \in handlers : CallIsWhole(h)
      BY DEF Init
    <2>3. CompletedIsWhole
      BY DEF Init, CompletedIsWhole, NoRow
    <2>4. QED
      BY <2>1, <2>2, <2>3 DEF WholeInv
  <1>2. WholeInv => CompletedIsWhole
    BY DEF WholeInv
  <1>3. QED
    BY <1>1, <1>2, WholeStep, PTL DEF Spec

----------------------------------------------------------------------------
(* The spool keeps the newest reports.                                     *)

\* A set of natural numbers that is not empty has a smallest element.
LEMMA SmallestIn ==
  ASSUME NEW S \in SUBSET Nat, S # {}
  PROVE  \E m \in S : \A k \in S : m <= k
  <1> DEFINE Below(k) == 0..(k - 1)
             T == {Below(k) : k \in S}
  <1>1. T \subseteq FiniteSubsetsOf(Nat)
    <2> SUFFICES ASSUME NEW k \in S PROVE Below(k) \in FiniteSubsetsOf(Nat)
      OBVIOUS
    <2>1. IsFiniteSet(Below(k)) BY FS_Interval
    <2> QED BY <2>1 DEF FiniteSubsetsOf
  <1>2. PICK x \in T : \A y \in T : <<y, x>> \notin StrictSubsetOrdering(Nat)
    <2>1. T # {}
      OBVIOUS
    <2>2. IsWellFoundedOn(StrictSubsetOrdering(Nat), FiniteSubsetsOf(Nat))
      BY FS_StrictSubsetOrderingWellFounded
    <2> HIDE DEF T
    <2> QED BY <1>1, <2>1, <2>2, WFMin
  <1>3. PICK m \in S : x = Below(m)
    OBVIOUS
  <1>4. ASSUME NEW k \in S PROVE m <= k
    <2>1. <<Below(k), Below(m)>> \notin StrictSubsetOrdering(Nat)
      BY <1>2, <1>3
    <2>2. CASE k < m
      <3>1. k \in Below(m) /\ k \notin Below(k) /\ Below(k) \subseteq Below(m)
        BY <2>2
      <3>2. Below(k) \in SUBSET Nat /\ Below(m) \in SUBSET Nat
        OBVIOUS
      <3> QED BY <2>1, <3>1, <3>2 DEF StrictSubsetOrdering
    <2> QED BY <2>2
  <1> QED BY <1>4

\* Newest takes no more than it is told to.
LEMMA NewestCount ==
  ASSUME NEW S \in SUBSET Nat, IsFiniteSet(S), NEW n \in Nat
  PROVE  IsFiniteSet(Newest(S, n)) /\ Cardinality(Newest(S, n)) <= n
  <1>1. PICK N : N = Newest(S, n)
    OBVIOUS
  <1>2. N \subseteq S /\ \A s \in N : Cardinality({t \in S : t > s}) < n
    BY <1>1 DEF Newest
  <1>3. IsFiniteSet(N)
    BY <1>2, FS_Subset
  <1>4. CASE N = {}
    BY <1>1, <1>3, <1>4, FS_EmptySet
  <1>5. CASE N # {}
    <2>1. PICK m \in N : \A k \in N : m <= k
      BY <1>2, <1>5, SmallestIn
    <2>2. PICK A : A = {t \in S : t > m}
      OBVIOUS
    <2>3. A \subseteq S /\ N \ {m} \subseteq A
      BY <1>2, <2>1, <2>2
    <2>4. IsFiniteSet(A) /\ Cardinality(A) < n
      BY <1>2, <2>1, <2>2, <2>3, FS_Subset
    <2>5. IsFiniteSet(N \ {m}) /\ Cardinality(N \ {m}) = Cardinality(N) - 1
      BY <1>3, <2>1, FS_RemoveElement
    <2>6. Cardinality(N \ {m}) <= Cardinality(A)
      BY <2>3, <2>4, FS_Subset
    <2>7. Cardinality(N) \in Nat /\ Cardinality(A) \in Nat
      BY <1>3, <2>4, FS_CardinalityType
    <2>8. QED
      BY <1>1, <1>3, <2>4, <2>5, <2>6, <2>7
  <1>6. QED
    BY <1>4, <1>5

\* What Newest leaves out is older than what it takes.
LEMMA NewestAbove ==
  ASSUME NEW S \in SUBSET Nat, IsFiniteSet(S), NEW n \in Nat,
         NEW s \in S \ Newest(S, n), NEW t \in Newest(S, n)
  PROVE  s < t
  <1> SUFFICES ASSUME ~(s < t) PROVE FALSE
    OBVIOUS
  <1>1. s \in Nat /\ t \in Nat /\ t \in S
    BY DEF Newest
  <1>2. PICK A : A = {u \in S : u > s}
    OBVIOUS
  <1>3. PICK B : B = {u \in S : u > t}
    OBVIOUS
  <1>4. A \subseteq B /\ B \subseteq S
    <2>1. \A u \in S : u \in Nat /\ (u > s => u > t)
      BY <1>1
    <2>2. QED
      BY <1>2, <1>3, <2>1
  <1>5. IsFiniteSet(B) /\ IsFiniteSet(A) /\ Cardinality(A) <= Cardinality(B)
    BY <1>4, FS_Subset
  <1>6. Cardinality(A) \in Nat /\ Cardinality(B) \in Nat
    BY <1>5, FS_CardinalityType
  <1>7. Cardinality(B) < n
    BY <1>3 DEF Newest
  <1>8. Cardinality(A) < n
    BY <1>5, <1>6, <1>7
  <1>9. QED
    BY <1>2, <1>8 DEF Newest

\* Every report put away, or evicted, was drawn before the one in hand.
SpoolInv ==
    /\ TypeInv
    /\ pc \in {"send", "spool"} => cur = drawn /\ drawn \notin spool \cup evicted
    /\ spool \cup evicted \subseteq 1..drawn
    /\ SpoolKeepsNewest

\* Steps that put no report away and take no new one in hand.
LEMMA SpoolFrame ==
  ASSUME SpoolInv, [Next]_vars, spool' \subseteq spool, evicted' = evicted, drawn' = drawn,
         pc' \in {"send", "spool"} => pc \in {"send", "spool"} /\ cur' = cur
  PROVE  SpoolInv'
  <1>1. TypeInv'
    BY TypeInvStep DEF SpoolInv
  <1>2. IsFiniteSet(spool)
    <2>1. drawn \in Nat /\ spool \subseteq 1..drawn
      BY DEF SpoolInv, TypeInv, TypeOK
    <2>2. IsFiniteSet(1..drawn)
      BY <2>1, FS_Interval
    <2>3. QED
      BY <2>1, <2>2, FS_Subset
  <1>3. Cardinality(spool') <= Cardinality(spool) /\ IsFiniteSet(spool')
    BY <1>2, FS_Subset
  <1>4. Cardinality(spool) \in Nat /\ Cardinality(spool') \in Nat
    BY <1>2, <1>3, FS_CardinalityType
  <1>5. SpoolKeepsNewest'
    BY <1>3, <1>4 DEF SpoolInv, SpoolKeepsNewest
  <1>6. QED
    BY <1>1, <1>5 DEF SpoolInv

\* A call's answer moves the agent inside of Send, or out of it.
LEMMA AnswerMoves ==
  ASSUME SendFails \/ SendSucceeds \/ RetryOrFail(attempt) \/ RetryOrFail(attempt + 1)
           \/ UNCHANGED <<pc, files, cur, waiting>>
  PROVE  pc' \in {"send", "spool"} /\ Sending => pc \in {"send", "spool"} /\ cur' = cur
  BY DEF SendFails, SendSucceeds, RetryOrFail, Sending

\* Every step leaves the newest reports in the spool.
LEMMA SpoolStep == SpoolInv /\ [Next]_vars => SpoolInv'
  <1> SUFFICES ASSUME SpoolInv, [Next]_vars PROVE SpoolInv'
    OBVIOUS
  <1>t. TypeOK /\ ClientWaits /\ TypeInv'
    BY TypeInvStep DEF SpoolInv, TypeInv
  <1>1. CASE StartRun \/ (\E s \in files : ReplayNext(s)) \/ ReplayDone \/ RemoveReplayed
             \/ CollectFails \/ (\E s \in files : ReplayCorrupt(s)) \/ AgentCrash
    <2>1. pc' \notin {"send", "spool"} /\ spool' \subseteq spool
            /\ evicted' = evicted /\ drawn' = drawn
      <3>1. CASE StartRun \/ ReplayDone \/ CollectFails
        BY <3>1 DEF StartRun, ReplayDone, CollectFails, diskVars
      <3>2. CASE RemoveReplayed \/ AgentCrash
        BY <3>2 DEF RemoveReplayed, AgentCrash
      <3>3. ASSUME NEW s \in files, ReplayNext(s) \/ ReplayCorrupt(s)
            PROVE  pc' \notin {"send", "spool"} /\ spool' \subseteq spool
                     /\ evicted' = evicted /\ drawn' = drawn
        BY <3>3 DEF ReplayNext, ReplayCorrupt, diskVars
      <3>4. QED
        BY <1>1, <3>1, <3>2, <3>3
    <2>2. QED
      BY <2>1, SpoolFrame
  <1>2. CASE Collect
    <2>1. /\ drawn \in Nat /\ drawn' = drawn + 1 /\ cur' = drawn + 1 /\ pc' = "send"
          /\ UNCHANGED <<spool, evicted>>
      BY <1>2, <1>t DEF Collect, TypeOK, diskVars
    <2>2. /\ spool' \cup evicted' \subseteq 1..drawn
          /\ 1..drawn \subseteq 1..drawn' /\ drawn' \notin 1..drawn
      BY <2>1 DEF SpoolInv
    <2>3. SpoolKeepsNewest'
      BY <2>1 DEF SpoolInv, SpoolKeepsNewest
    <2>4. QED
      BY <1>t, <2>1, <2>2, <2>3 DEF SpoolInv
  <1>3. CASE SpoolReport
    <2>1. PICK N : N = Newest(spool, SpoolMax - 1)
      OBVIOUS
    <2>2. /\ pc = "spool" /\ pc' = "idle" /\ drawn' = drawn
          /\ spool' = N \cup {cur} /\ evicted' = evicted \cup (spool \ N)
      BY <1>3, <2>1 DEF SpoolReport, EvictForCapacity
    <2>3. /\ cur = drawn /\ drawn \in Nat /\ cur \in ScanIds /\ N \subseteq spool
          /\ spool \cup evicted \subseteq 1..drawn /\ drawn \notin spool \cup evicted
      BY <2>1, <2>2, <1>t DEF SpoolInv, TypeOK, Newest
    <2>4. spool' \cup evicted' \subseteq 1..drawn'
      BY <2>2, <2>3 DEF ScanIds
    <2>5. spool \in SUBSET Nat /\ IsFiniteSet(spool) /\ SpoolMax - 1 \in Nat
      <3>1. IsFiniteSet(1..drawn)
        BY <2>3, FS_Interval
      <3>2. QED
        BY <2>3, <3>1, FS_Subset
    <2>6. IsFiniteSet(N) /\ Cardinality(N) <= SpoolMax - 1
      BY <2>1, <2>5, NewestCount
    <2>7. Cardinality(spool') <= SpoolMax
      <3>1. Cardinality(N) \in Nat
        BY <2>6, FS_CardinalityType
      <3>2. cur \notin N
        BY <2>3
      <3>3. Cardinality(N \cup {cur}) = Cardinality(N) + 1
        BY <2>6, <3>2, FS_AddElement
      <3>4. QED
        BY <2>2, <2>6, <3>1, <3>3
    <2>8. ASSUME NEW e \in evicted', NEW s \in spool' PROVE e < s
      <3>1. \A i \in spool \cup evicted : i < cur
        BY <2>3
      <3>2. CASE s = cur
        BY <2>2, <3>1, <3>2
      <3>3. CASE s \in N /\ e \in evicted
        BY <2>3, <3>3 DEF SpoolInv, SpoolKeepsNewest
      <3>4. CASE s \in N /\ e \in spool \ N
        BY <2>1, <2>5, <3>4, NewestAbove
      <3>5. QED
        BY <2>2, <3>2, <3>3, <3>4
    <2>9. SpoolKeepsNewest'
      BY <2>7, <2>8 DEF SpoolKeepsNewest
    <2>10. QED
      BY <1>t, <2>2, <2>4, <2>9 DEF SpoolInv
  <1>4. CASE SendAttempt \/ AdminStep \/ UNCHANGED vars
    <2>1. UNCHANGED <<pc, cur, drawn, spool, evicted>>
      BY <1>4 DEF SendAttempt, AdminStep, DeleteScan, PruneOldScans, vars, agentVars, diskVars
    <2>2. QED
      BY <2>1, SpoolFrame
  <1>5. ASSUME NEW h \in handlers, HandlerStep(h) \/ HandleReportRefuses(h) PROVE SpoolInv'
    <2>1. UNCHANGED <<drawn, spool, evicted>>
      BY <1>5 DEF HandlerStep, CreateScanFails, CreateScan, StoreSection, StoreSectionFails,
                  CompleteScan, CompleteScanFails, HandleReportRefuses, agentVars, diskVars
    <2>2. \/ UNCHANGED <<pc, files, cur, waiting>>
          \/ h.client /\ (SendFails \/ SendSucceeds \/ RetryOrFail(attempt))
      BY <1>5 DEF HandlerStep, CreateScanFails, CreateScan, StoreSection, StoreSectionFails,
                  CompleteScan, CompleteScanFails, HandleReportRefuses, Answer, agentVars
    <2>3. h.client => Sending
      BY <1>t DEF ClientWaits
    <2>4. QED
      BY <2>1, <2>2, <2>3, AnswerMoves, SpoolFrame
  <1>6. CASE Unreachable \/ AnswerLost \/ ServerCrash
    <2>1. UNCHANGED <<drawn, spool, evicted>>
      BY <1>6 DEF Unreachable, AnswerLost, ServerCrash, diskVars
    <2>2. \/ UNCHANGED <<pc, files, cur, waiting>>
          \/ Sending /\ (RetryOrFail(attempt) \/ RetryOrFail(attempt + 1))
      BY <1>6, <1>t DEF Unreachable, AnswerLost, ServerCrash, ClientWaits
    <2>3. QED
      BY <2>1, <2>2, AnswerMoves, SpoolFrame
  <1>7. QED
    BY <1>1, <1>2, <1>3, <1>4, <1>5, <1>6 DEF Next, RunStep, FaultStep

\* SpoolKeepsNewest of every behaviour: evictForCapacity, the replays and the
\* corrupt files leave at most SpoolMax reports, none older than an evicted one.
THEOREM TheSpoolKeepsTheNewest == Spec => []SpoolKeepsNewest
  <1>1. Init => SpoolInv
    <2> SUFFICES ASSUME Init PROVE SpoolInv
      OBVIOUS
    <2>1. TypeInv
      BY InitTypeInv
    <2>2. spool = {} /\ evicted = {} /\ pc = "idle"
      BY DEF Init
    <2>3. Cardinality({}) = 0
      BY FS_EmptySet
    <2>4. QED
      BY <2>1, <2>2, <2>3 DEF SpoolInv, SpoolKeepsNewest
  <1>2. SpoolInv => SpoolKeepsNewest
    BY DEF SpoolInv
  <1>3. QED
    BY <1>1, <1>2, SpoolStep, PTL DEF Spec

----------------------------------------------------------------------------
(* The latest inventory.                                                   *)

\* A step by which the latest inventory of the host goes is a forced deletion.
LEMMA LatestStep ==
  ASSUME [Next]_vars, NEW s \in ScanIds, LatestScan(s), s \in removed' \ removed
  PROVE  DeleteScan(s, TRUE)
  <1>1. CASE RunStep \/ FaultStep \/ UNCHANGED vars
    BY <1>1 DEF RunStep, FaultStep, StartRun, ReplayNext, ReplayDone, RemoveReplayed, Collect,
                CollectFails, SpoolReport, SendAttempt, ReplayCorrupt, Unreachable, AnswerLost,
                AgentCrash, ServerCrash, HandleReportRefuses, vars, serverVars
  <1>2. ASSUME NEW h \in handlers, HandlerStep(h) PROVE FALSE
    BY <1>2 DEF HandlerStep, CreateScanFails, CreateScan, StoreSection, StoreSectionFails,
                CompleteScan, CompleteScanFails
  <1>3. ASSUME NEW t \in ScanIds, NEW force \in BOOLEAN, DeleteScan(t, force)
        PROVE  DeleteScan(s, TRUE)
    <2>1. t = s
      BY <1>3 DEF DeleteScan, Delete
    <2>2. force
      BY <1>3, <2>1 DEF DeleteScan
    <2>3. force = TRUE
      BY <2>2, Zenon
    <2>4. QED
      BY <1>3, <2>1, <2>3, Zenon
  <1>4. ASSUME NEW c, PruneOldScans(c) PROVE FALSE
    BY <1>4 DEF PruneOldScans, Delete
  <1>5. QED
    BY <1>1, <1>2, <1>3, <1>4 DEF Next, AdminStep

\* LatestGoesByForce of every behaviour: no retention run, and no deletion
\* without force, ever takes what latestScansSub shows of a host.
THEOREM TheLatestGoesByForce == Spec => LatestGoesByForce
  <1>1. [Next]_vars => [\A s \in ScanIds :
            LatestScan(s) /\ s \in removed' \ removed => DeleteScan(s, TRUE)]_vars
    BY LatestStep
  <1>2. QED
    BY <1>1, PTL DEF Spec, LatestGoesByForce
=============================================================================

-------------------------- MODULE AIApprovalProofs --------------------------
(***************************************************************************)
(* Proofs about AIApproval, for any findings, administrators, number of    *)
(* approvals and budget of faults: an action is approved once, and the row *)
(* of an approval that was granted shows what was done.  And about         *)
(* VulnAnalyzer, for any analyzers, batch, mode and protected hosts: what  *)
(* the analyzer silenced has an analysis, and the queue stays as sound.    *)
(***************************************************************************)
EXTENDS VulnAnalyzer, SequenceTheorems, FiniteSetTheorems, TLAPS

----------------------------------------------------------------------------
(* Type correctness.                                                       *)

\* The initial state is well typed.
LEMMA TypeInit == Init => TypeOK
  BY AIApprovalAssumption DEF Init, TypeOK, Ids, NoRequest, Request, NoId

\* A fault keeps the budget's bounds.
LEMMA FaultType == ASSUME TypeOK, Fault PROVE left' \in 0..Budget
  BY AIApprovalAssumption DEF TypeOK, Fault

\* A row of the table has a record of the table's type.
LEMMA RowType ==
    ASSUME TypeOK, NEW i \in Rows
    PROVE  approvals[i] \in Row /\ i \in Ids
  BY AIApprovalAssumption DEF TypeOK, Rows, Ids

\* The row of a request that is under way exists.
LEMMA RequestRow ==
    ASSUME TypeOK, NEW a \in Admins, request[a].pc # "idle"
    PROVE  request[a].id \in Rows /\ request[a].id \in Ids
  BY AIApprovalAssumption DEF TypeOK, Rows, Ids

\* Refreshing or inserting a proposal.
LEMMA CreateKeepsType ==
    ASSUME TypeOK, NEW f \in Findings, NEW p \in Suppressions, CreateAIApproval(f, p)
    PROVE  TypeOK'
<1>1. made' \in 0..MaxRows /\ made' >= made
  BY AIApprovalAssumption DEF TypeOK, CreateAIApproval
<1>2. approvals' \in [1..made' -> Row]
  <2>1. CASE PendingFor(f) # {}
    <3>1. \A i \in Rows : [approvals[i] EXCEPT !.proposed = p] \in Row
      BY RowType DEF Row
    <3>2. /\ made' = made
          /\ approvals' = [i \in Rows |-> IF i \in PendingFor(f)
                                          THEN [approvals[i] EXCEPT !.proposed = p]
                                          ELSE approvals[i]]
      BY <2>1 DEF CreateAIApproval
    <3> QED
      BY <3>1, <3>2, RowType DEF Rows
  <2>2. CASE PendingFor(f) = {}
    <3>1. [subject |-> f, proposed |-> p, decidedBy |-> None, status |-> "pending"] \in Row
      BY DEF Row
    <3> QED
      BY <2>2, <3>1 DEF TypeOK, CreateAIApproval, Rows
  <2> QED
    BY <2>1, <2>2
<1>3. \A a \in Admins : request[a].pc # "idle" => request[a].id \in 1..made'
  BY <1>1 DEF TypeOK
<1> QED
  BY <1>1, <1>2, <1>3 DEF TypeOK, CreateAIApproval

\* A request that starts on a row that exists.
LEMMA StartKeepsType ==
    ASSUME TypeOK, NEW a \in Admins, NEW i \in Rows, NEW pc \in {"execute", "200", "409"},
           Start(a, i, pc)
    PROVE  /\ request' \in [Admins -> Request]
           /\ \A b \in Admins : request'[b].pc # "idle" => request'[b].id \in 1..made
<1>1. [pc |-> pc, id |-> i,
       proposed |-> IF pc = "execute" THEN approvals[i].proposed ELSE None] \in Request
  BY RowType DEF Request, Row
<1> QED
  BY <1>1 DEF Start, TypeOK, Rows

\* A decision in progress goes on to an answer or to its revert.
LEMMA AnswerKeepsType ==
    ASSUME TypeOK, NEW a \in Admins, NEW code \in {"revert", "200", "500"},
           request[a].pc # "idle", Answer(a, code)
    PROVE  /\ request' \in [Admins -> Request]
           /\ \A b \in Admins : request'[b].pc # "idle" => request'[b].id \in 1..made
<1>1. request[a] \in Request
  BY DEF TypeOK
<1>2. [request[a] EXCEPT !.pc = code, !.proposed = None] \in Request
  BY <1>1 DEF Request
<1>3. request' = [request EXCEPT ![a] = [request[a] EXCEPT !.pc = code, !.proposed = None]]
  BY DEF Answer
<1>4. [request[a] EXCEPT !.pc = code, !.proposed = None].id = request[a].id
  BY <1>1 DEF Request
<1> QED
  BY <1>2, <1>3, <1>4 DEF TypeOK

\* Writing a status keeps the table's type.
LEMMA StatusKeepsType ==
    ASSUME TypeOK, NEW i \in Rows, NEW status \in {"pending", "approved", "rejected"},
           NEW by \in Admins \cup {None}, SetStatus(i, status, by)
    PROVE  approvals' \in [1..made -> Row]
  BY DEF SetStatus, TypeOK, Rows, Row

\* The steps of a decision.
LEMMA DecideKeepsType ==
    ASSUME TypeOK, NEW a \in Admins, Decide(a)
    PROVE  TypeOK'
<1>1. ASSUME NEW i \in Rows, ClaimAIApprovalForApproval(a, i)
      PROVE  TypeOK'
  <2>1. approvals' \in [1..made -> Row]
    BY <1>1, StatusKeepsType DEF ClaimAIApprovalForApproval, TypeOK
  <2>2. \E pc \in {"execute", "409"} : Start(a, i, pc)
    BY <1>1 DEF ClaimAIApprovalForApproval
  <2>3. /\ request' \in [Admins -> Request]
        /\ \A b \in Admins : request'[b].pc # "idle" => request'[b].id \in 1..made
    BY <2>2, StartKeepsType
  <2> QED
    BY <1>1, <2>1, <2>3 DEF ClaimAIApprovalForApproval, TypeOK
<1>2. ASSUME NEW i \in Rows, RejectAIApproval(a, i)
      PROVE  TypeOK'
  <2>1. approvals' \in [1..made -> Row]
    BY <1>2, RowType DEF RejectAIApproval, TypeOK, Rows, Row
  <2>2. \E pc \in {"200", "409"} : Start(a, i, pc)
    BY <1>2 DEF RejectAIApproval
  <2>3. /\ request' \in [Admins -> Request]
        /\ \A b \in Admins : request'[b].pc # "idle" => request'[b].id \in 1..made
    BY <2>2, StartKeepsType
  <2> QED
    BY <1>2, <2>1, <2>3 DEF RejectAIApproval, TypeOK
<1>3. ASSUME Apply(a), request[a].pc = "execute", request[a].proposed \in Suppressions \cup {None}
      PROVE  /\ triage' \in [Findings -> Suppressions \cup {None}]
             /\ executed' \in [Ids -> Suppressions \cup {None}]
  BY <1>3 DEF Apply, TypeOK
<1>4. request[a].proposed \in Suppressions \cup {None}
  BY DEF TypeOK, Request
<1>5. CASE ExecuteAIAction(a)
  <2>1. granted' \in [Ids -> Nat]
    BY <1>5, RequestRow DEF ExecuteAIAction, TypeOK
  <2> QED
    BY <1>3, <1>4, <1>5, <2>1, AnswerKeepsType DEF ExecuteAIAction, TypeOK
<1>6. CASE ExecuteAIActionFails(a)
  BY <1>3, <1>4, <1>6, AnswerKeepsType, FaultType DEF ExecuteAIActionFails, TypeOK
<1>7. CASE RequestCancelled(a)
  BY <1>7, AnswerKeepsType, FaultType DEF RequestCancelled, TypeOK
<1>8. CASE RevertAIApproval(a)
  <2>1. approvals' \in [1..made -> Row]
    BY <1>8, RequestRow, StatusKeepsType DEF RevertAIApproval, TypeOK
  <2> QED
    BY <1>8, <2>1, AnswerKeepsType DEF RevertAIApproval, TypeOK
<1>9. CASE Answered(a)
  BY <1>9 DEF Answered, TypeOK, NoRequest, Request
<1> QED
  BY <1>1, <1>2, <1>5, <1>6, <1>7, <1>8, <1>9 DEF Decide

\* Every step keeps the types.
LEMMA TypeStep == TypeOK /\ [Next]_vars => TypeOK'
<1> SUFFICES ASSUME TypeOK, [Next]_vars PROVE TypeOK'
  OBVIOUS
<1>1. ASSUME NEW f \in Findings, NEW p \in Suppressions, CreateAIApproval(f, p)
      PROVE  TypeOK'
  BY <1>1, CreateKeepsType
<1>2. ASSUME NEW f \in Findings, NEW p \in Suppressions \cup {None},
             UpsertVulnerabilityTriage(f, p)
      PROVE  TypeOK'
  BY <1>2 DEF UpsertVulnerabilityTriage, TypeOK
<1>3. ASSUME NEW a \in Admins, Decide(a)
      PROVE  TypeOK'
  BY <1>3, DecideKeepsType
<1>4. CASE ServerCrash
  BY <1>4, FaultType DEF ServerCrash, TypeOK, NoRequest, Request
<1>5. CASE UNCHANGED vars
  BY <1>5 DEF vars, TypeOK
<1> QED
  BY <1>1, <1>2, <1>3, <1>4, <1>5 DEF Next

\* The tables, the decisions under way and the histories keep their types.
THEOREM TypeCorrect == Spec => []TypeOK
  BY TypeInit, TypeStep, PTL DEF Spec

----------------------------------------------------------------------------
(* Who holds an approval, and what becomes of it.                          *)

Deciding(a) == request[a].pc \in {"execute", "revert"}

\* An administrator who was given an approval to execute is alone with it: it
\* is out of the analyzer's reach, and has not been granted yet.
HolderInv ==
    \A a \in Admins : Deciding(a) =>
        /\ approvals[request[a].id].status = "approved"
        /\ granted[request[a].id] = 0
        /\ request[a].pc = "execute" => request[a].proposed = approvals[request[a].id].proposed

SoleHolder ==
    \A a, b \in Admins : a # b /\ Deciding(a) /\ Deciding(b) => request[a].id # request[b].id

\* A granted approval is final.
GrantedInv ==
    \A i \in Ids :
        /\ granted[i] <= 1
        /\ granted[i] > 0 => /\ i \in Rows
                             /\ approvals[i].status = "approved"
                             /\ executed[i] = approvals[i].proposed

DecisionInv == TypeOK /\ HolderInv /\ SoleHolder /\ GrantedInv

\* Initially nothing is held or granted.
LEMMA DecisionInit == Init => DecisionInv
<1> SUFFICES ASSUME Init PROVE DecisionInv
  OBVIOUS
<1>1. TypeOK
  BY TypeInit
<1>2. \A a \in Admins : ~Deciding(a)
  BY DEF Init, NoRequest, Deciding
<1>3. \A i \in Ids : granted[i] = 0
  BY DEF Init
<1> QED
  BY <1>1, <1>2, <1>3 DEF DecisionInv, HolderInv, SoleHolder, GrantedInv

\* The insert and the refresh leave approvals that are decided alone.
LEMMA CreateKeepsDecided ==
    ASSUME TypeOK, NEW f \in Findings, NEW p \in Suppressions, CreateAIApproval(f, p),
           NEW i \in Rows, approvals[i].status # "pending"
    PROVE  i \in Rows' /\ approvals'[i] = approvals[i]
<1>1. i \notin PendingFor(f)
  BY DEF PendingFor
<1>2. i \in Rows'
  BY AIApprovalAssumption DEF CreateAIApproval, Rows, TypeOK
<1>3. CASE PendingFor(f) # {}
  BY <1>1, <1>2, <1>3 DEF CreateAIApproval
<1>4. CASE PendingFor(f) = {}
  BY <1>2, <1>4 DEF CreateAIApproval, Rows
<1> QED
  BY <1>2, <1>3, <1>4

\* A step that changes neither requests nor histories, and no decided row.
LEMMA DecidedStays ==
    ASSUME DecisionInv, TypeOK', UNCHANGED <<request, executed, granted>>,
           \A i \in Rows : approvals[i].status # "pending" =>
               i \in Rows' /\ approvals'[i] = approvals[i]
    PROVE  DecisionInv'
<1>1. HolderInv'
  <2> SUFFICES ASSUME NEW a \in Admins, Deciding(a)'
               PROVE  /\ approvals'[request[a].id].status = "approved"
                      /\ granted[request[a].id] = 0
                      /\ request[a].pc = "execute" =>
                            request[a].proposed = approvals'[request[a].id].proposed
    BY DEF HolderInv
  <2>1. Deciding(a) /\ request[a].pc # "idle"
    BY DEF Deciding
  <2>2. request[a].id \in Rows
    BY <2>1, RequestRow DEF DecisionInv
  <2>3. approvals'[request[a].id] = approvals[request[a].id]
    BY <2>1, <2>2 DEF DecisionInv, HolderInv
  <2> QED
    BY <2>1, <2>3 DEF DecisionInv, HolderInv
<1>2. SoleHolder'
  BY DEF DecisionInv, SoleHolder, Deciding
<1>3. GrantedInv'
  BY DEF DecisionInv, GrantedInv
<1> QED
  BY <1>1, <1>2, <1>3 DEF DecisionInv

\* An administrator claims a pending approval, or is told that it is not.
LEMMA ClaimKeepsDecision ==
    ASSUME DecisionInv, TypeOK', NEW a \in Admins, NEW i \in Rows,
           ClaimAIApprovalForApproval(a, i)
    PROVE  DecisionInv'
<1>1. /\ UNCHANGED <<made, executed, granted>> /\ request[a].pc = "idle" /\ ~Deciding(a)
      /\ \A b \in Admins : b # a => request'[b] = request[b]
  BY DEF ClaimAIApprovalForApproval, Start, DecisionInv, TypeOK, Deciding
<1>2. CASE approvals[i].status = "pending"
  <2>1. i \in Ids /\ granted[i] = 0
    BY <1>2, RowType DEF DecisionInv, GrantedInv, TypeOK
  <2>2. \A b \in Admins : Deciding(b) => request[b].id # i
    BY <1>2 DEF DecisionInv, HolderInv
  <2>3. /\ approvals' = [approvals EXCEPT ![i].status = "approved", ![i].decidedBy = a]
        /\ request'[a] = [pc |-> "execute", id |-> i, proposed |-> approvals[i].proposed]
    BY <1>2 DEF ClaimAIApprovalForApproval, SetStatus, Start, DecisionInv, TypeOK
  <2>4. /\ approvals'[i].status = "approved" /\ approvals'[i].proposed = approvals[i].proposed
        /\ \A r \in Rows : r # i => approvals'[r] = approvals[r]
    BY <2>3, RowType DEF DecisionInv, TypeOK, Rows, Row
  <2>5. \A b \in Admins : b # a /\ Deciding(b)' =>
            Deciding(b) /\ request[b].id \in Rows /\ request[b].id # i
    BY <1>1, <2>2, RequestRow DEF Deciding, DecisionInv
  <2>6. HolderInv'
    <3>1. ASSUME NEW b \in Admins, b # a, Deciding(b)'
          PROVE  /\ approvals'[request'[b].id] = approvals[request[b].id]
                 /\ Deciding(b) /\ request'[b] = request[b]
      BY <1>1, <2>4, <2>5, <3>1
    <3>2. \A b \in Admins : b # a /\ Deciding(b)' =>
              /\ approvals'[request'[b].id].status = "approved"
              /\ granted'[request'[b].id] = 0
              /\ request'[b].pc = "execute" =>
                    request'[b].proposed = approvals'[request'[b].id].proposed
      BY <1>1, <3>1 DEF HolderInv, DecisionInv
    <3>3. /\ approvals'[request'[a].id].status = "approved"
          /\ granted'[request'[a].id] = 0
          /\ request'[a].proposed = approvals'[request'[a].id].proposed
      BY <1>1, <2>1, <2>3, <2>4
    <3> QED
      BY <3>2, <3>3 DEF HolderInv
  <2>7. SoleHolder'
    BY <1>1, <2>3, <2>5 DEF SoleHolder, DecisionInv
  <2>8. GrantedInv'
    BY <1>1, <2>1, <2>4 DEF GrantedInv, DecisionInv, Rows
  <2> QED
    BY <2>6, <2>7, <2>8 DEF DecisionInv
<1>3. CASE approvals[i].status # "pending"
  <2>1. approvals' = approvals /\ ~Deciding(a)'
    BY <1>3 DEF ClaimAIApprovalForApproval, Start, DecisionInv, TypeOK, Deciding
  <2> QED
    BY <1>1, <2>1 DEF DecisionInv, HolderInv, SoleHolder, GrantedInv, Deciding, Rows
<1> QED
  BY <1>2, <1>3

\* A rejection changes pending rows only and is over at once.
LEMMA RejectKeepsDecision ==
    ASSUME DecisionInv, TypeOK', NEW a \in Admins, NEW i \in Rows, RejectAIApproval(a, i)
    PROVE  DecisionInv'
<1>1. /\ UNCHANGED <<made, executed, granted>> /\ ~Deciding(a)'
      /\ \A b \in Admins : b # a => request'[b] = request[b]
  BY DEF RejectAIApproval, Start, DecisionInv, TypeOK, Deciding
<1>2. \A r \in Rows : approvals[r].status # "pending" => approvals'[r] = approvals[r]
  BY DEF RejectAIApproval
<1>3. \A b \in Admins : Deciding(b)' =>
          b # a /\ Deciding(b) /\ approvals'[request[b].id] = approvals[request[b].id]
  BY <1>1, <1>2, RequestRow DEF Deciding, DecisionInv, HolderInv
<1>4. HolderInv'
  BY <1>1, <1>3 DEF HolderInv, DecisionInv
<1>5. SoleHolder'
  BY <1>1, <1>3 DEF SoleHolder, DecisionInv
<1>6. GrantedInv'
  BY <1>1, <1>2 DEF GrantedInv, DecisionInv, Rows
<1> QED
  BY <1>4, <1>5, <1>6 DEF DecisionInv

\* The holder executes: nobody else holds the approval, so it is granted once.
LEMMA ExecuteKeepsDecision ==
    ASSUME DecisionInv, TypeOK', NEW a \in Admins, ExecuteAIAction(a)
    PROVE  DecisionInv'
<1> DEFINE i == request[a].id
<1>1. /\ Deciding(a) /\ i \in Rows /\ i \in Ids /\ ~Deciding(a)' /\ UNCHANGED <<approvals, made>>
      /\ \A b \in Admins : b # a => request'[b] = request[b]
  BY RequestRow DEF ExecuteAIAction, Answer, DecisionInv, TypeOK, Deciding
<1>2. /\ granted' = [granted EXCEPT ![i] = @ + 1]
      /\ executed' = [executed EXCEPT ![i] = request[a].proposed]
  BY DEF ExecuteAIAction, Apply
<1>3. granted'[i] = 1 /\ executed'[i] = approvals[i].proposed /\ approvals[i].status = "approved"
  BY <1>1, <1>2 DEF DecisionInv, HolderInv, TypeOK, ExecuteAIAction
<1>4. \A r \in Ids : r # i => granted'[r] = granted[r] /\ executed'[r] = executed[r]
  BY <1>2 DEF DecisionInv, TypeOK
<1>5. \A b \in Admins : Deciding(b)' =>
          /\ b # a /\ Deciding(b) /\ request'[b] = request[b]
          /\ request[b].id \in Ids /\ request[b].id # i
  BY <1>1, RequestRow DEF Deciding, DecisionInv, SoleHolder
<1>6. HolderInv'
  BY <1>1, <1>4, <1>5 DEF HolderInv, DecisionInv
<1>7. SoleHolder'
  BY <1>5 DEF SoleHolder, DecisionInv
<1>8. GrantedInv'
  BY <1>1, <1>3, <1>4 DEF GrantedInv, DecisionInv, Rows
<1> QED
  BY <1>6, <1>7, <1>8 DEF DecisionInv

\* The execution fails, having done its work or not.
LEMMA FailureKeepsDecision ==
    ASSUME DecisionInv, TypeOK', NEW a \in Admins, ExecuteAIActionFails(a)
    PROVE  DecisionInv'
<1> DEFINE i == request[a].id
<1>1. /\ Deciding(a) /\ i \in Rows /\ i \in Ids /\ UNCHANGED <<approvals, made, granted>>
      /\ request'[a].pc = "revert" /\ request'[a].id = i
      /\ \A b \in Admins : b # a => request'[b] = request[b]
  BY RequestRow DEF ExecuteAIActionFails, Answer, DecisionInv, TypeOK, Deciding, Request
<1>2. granted[i] = 0 /\ \A r \in Ids : r # i => executed'[r] = executed[r]
  BY <1>1 DEF ExecuteAIActionFails, Apply, DecisionInv, HolderInv, TypeOK
<1>3. HolderInv'
  BY <1>1 DEF HolderInv, DecisionInv, Deciding
<1>4. SoleHolder'
  BY <1>1 DEF SoleHolder, DecisionInv, Deciding
<1>5. GrantedInv'
  BY <1>1, <1>2 DEF GrantedInv, DecisionInv, Rows
<1> QED
  BY <1>3, <1>4, <1>5 DEF DecisionInv

\* The revert gives up the approval its administrator alone holds.
LEMMA RevertKeepsDecision ==
    ASSUME DecisionInv, TypeOK', NEW a \in Admins, RevertAIApproval(a)
    PROVE  DecisionInv'
<1> DEFINE i == request[a].id
<1>1. /\ Deciding(a) /\ i \in Rows /\ i \in Ids /\ ~Deciding(a)'
      /\ UNCHANGED <<made, executed, granted>>
      /\ \A b \in Admins : b # a => request'[b] = request[b]
  BY RequestRow DEF RevertAIApproval, Answer, DecisionInv, TypeOK, Deciding
<1>2. granted[i] = 0
  BY <1>1 DEF DecisionInv, HolderInv
<1>3. \A r \in Rows : r # i => approvals'[r] = approvals[r]
  BY DEF RevertAIApproval, SetStatus, DecisionInv, TypeOK, Rows
<1>4. \A b \in Admins : Deciding(b)' =>
          /\ b # a /\ Deciding(b) /\ request'[b] = request[b]
          /\ approvals'[request[b].id] = approvals[request[b].id]
  BY <1>1, <1>3, RequestRow DEF Deciding, DecisionInv, SoleHolder
<1>5. HolderInv'
  BY <1>1, <1>4 DEF HolderInv, DecisionInv
<1>6. SoleHolder'
  BY <1>4 DEF SoleHolder, DecisionInv
<1>7. GrantedInv'
  BY <1>1, <1>2, <1>3 DEF GrantedInv, DecisionInv, Rows
<1> QED
  BY <1>5, <1>6, <1>7 DEF DecisionInv

\* A step by which administrators only stop holding.
LEMMA LettingGo ==
    ASSUME DecisionInv, TypeOK', UNCHANGED <<approvals, made, executed, granted>>,
           \A b \in Admins : Deciding(b)' => Deciding(b) /\ request'[b] = request[b]
    PROVE  DecisionInv'
<1>1. HolderInv'
  BY DEF HolderInv, DecisionInv
<1>2. SoleHolder'
  BY DEF SoleHolder, DecisionInv
<1>3. GrantedInv'
  BY DEF GrantedInv, DecisionInv, Rows
<1> QED
  BY <1>1, <1>2, <1>3 DEF DecisionInv

\* Every step keeps the invariant.
LEMMA DecisionStep == DecisionInv /\ [Next]_vars => DecisionInv'
<1> SUFFICES ASSUME DecisionInv, [Next]_vars PROVE DecisionInv'
  OBVIOUS
<1>0. TypeOK'
  BY TypeStep DEF DecisionInv
<1>1. ASSUME NEW f \in Findings, NEW p \in Suppressions, CreateAIApproval(f, p)
      PROVE  DecisionInv'
  <2>1. \A i \in Rows : approvals[i].status # "pending" =>
            i \in Rows' /\ approvals'[i] = approvals[i]
    BY <1>1, CreateKeepsDecided DEF DecisionInv
  <2> QED
    BY <1>0, <1>1, <2>1, DecidedStays DEF CreateAIApproval
<1>2. ASSUME NEW f \in Findings, NEW p \in Suppressions \cup {None},
             UpsertVulnerabilityTriage(f, p)
      PROVE  DecisionInv'
  BY <1>0, <1>2, LettingGo DEF UpsertVulnerabilityTriage, Deciding
<1>3. ASSUME NEW a \in Admins, Decide(a)
      PROVE  DecisionInv'
  <2>1. CASE RequestCancelled(a) \/ Answered(a)
    <3>1. ~Deciding(a)' /\ \A b \in Admins : b # a => request'[b] = request[b]
      BY <2>1 DEF RequestCancelled, Answered, Answer, NoRequest, Deciding, DecisionInv, TypeOK,
                  Request
    <3> QED
      BY <1>0, <2>1, <3>1, LettingGo DEF RequestCancelled, Answered, Deciding
  <2> QED
    BY <1>0, <1>3, <2>1, ClaimKeepsDecision, RejectKeepsDecision, ExecuteKeepsDecision,
       FailureKeepsDecision, RevertKeepsDecision DEF Decide
<1>4. CASE ServerCrash
  BY <1>0, <1>4, LettingGo DEF ServerCrash, NoRequest, Deciding
<1>5. CASE UNCHANGED vars
  BY <1>0, <1>5, LettingGo DEF vars, Deciding
<1> QED
  BY <1>1, <1>2, <1>3, <1>4, <1>5 DEF Next

\* ClaimAIApprovalForApproval closes the double execution: one approver holds
\* an approval at a time, and one at most is told that it was approved.
THEOREM ApprovalsAreGrantedOnce == Spec => []ApprovedOnce
<1>1. DecisionInv => ApprovedOnce
  BY DEF DecisionInv, SoleHolder, GrantedInv, ApprovedOnce, Deciding
<1> QED
  BY <1>1, DecisionInit, DecisionStep, PTL DEF Spec

\* An approval that was granted stays as it was executed, whatever the
\* analyzer proposes afterwards.
THEOREM RowsShowTheAction == Spec => []RowShowsTheAction
<1>1. Rows \subseteq Ids \/ ~TypeOK
  BY AIApprovalAssumption DEF TypeOK, Rows, Ids
<1>2. DecisionInv => RowShowsTheAction
  BY <1>1 DEF DecisionInv, GrantedInv, RowShowsTheAction
<1> QED
  BY <1>2, DecisionInit, DecisionStep, PTL DEF Spec

----------------------------------------------------------------------------
(* The analyzer: its types, and what it knows of the finding in hand.      *)

Work == [pc: {"idle", "batch", "store", "govern", "flag", "apply"},
         todo: Seq(Candidates), out: Suppressions \cup {None}]

\* An analyzer at work has a finding in hand, and whoever acts on it has
\* stored an analysis of it before.
WorkInv ==
    /\ work \in [Analyzers -> Work]
    /\ \A w \in Analyzers :
          /\ work[w].pc # "idle" => work[w].todo # <<>>
          /\ work[w].pc = "govern" => work[w].out # None
          /\ work[w].pc \in {"govern", "flag"} => stored[FindingAtHand(w)] # NoAnalysis

TablesInv ==
    /\ facts \in [Findings -> Facts]
    /\ stored \in [Findings -> Analysis \cup {NoAnalysis}]
    /\ silencedBy \in [Findings -> {"nobody", "analyzer", "human"}]

AnalyzerInv == DecisionInv /\ TablesInv /\ WorkInv /\ SilencingIsExplained

\* The finding in hand, with the facts it was read with.
LEMMA InHand ==
    ASSUME TablesInv, WorkInv, NEW w \in Analyzers, work[w].pc # "idle"
    PROVE  /\ work[w] \in Work /\ work[w].todo \in Seq(Candidates) /\ work[w].todo # <<>>
           /\ AtHand(w) \in Candidates /\ FindingAtHand(w) \in Findings
           /\ AtHand(w).facts \in Facts
<1>1. work[w] \in Work /\ work[w].todo # <<>>
  BY DEF WorkInv
<1>2. work[w].todo \in Seq(Candidates)
  BY <1>1 DEF Work
<1>3. AtHand(w) \in Candidates
  BY <1>1, <1>2 DEF AtHand
<1> QED
  BY <1>1, <1>2, <1>3 DEF FindingAtHand, Candidates

\* A finding is read as a candidate.
LEMMA CandidateType ==
    ASSUME TablesInv, NEW f \in Findings
    PROVE  CandidateOf(f) \in Candidates /\ CandidateOf(f).finding = f
  BY DEF TablesInv, CandidateOf, Candidates, Analysis, NoAnalysis, None

\* Analyzer w goes on as r, and no analysis goes away.
LEMMA WorkMoves ==
    ASSUME WorkInv, NEW w \in Analyzers, NEW r \in Work, work' = [work EXCEPT ![w] = r],
           r.pc # "idle" => r.todo # <<>>,
           r.pc = "govern" => r.out # None,
           r.pc \in {"govern", "flag"} => stored'[Head(r.todo).finding] # NoAnalysis,
           \A v \in Analyzers : v # w /\ work[v].pc \in {"govern", "flag"} /\
               stored[FindingAtHand(v)] # NoAnalysis => stored'[FindingAtHand(v)] # NoAnalysis
    PROVE  WorkInv'
<1>1. work' \in [Analyzers -> Work] /\ work'[w] = r
        /\ \A v \in Analyzers : v # w => work'[v] = work[v]
  BY DEF WorkInv
<1>2. ASSUME NEW v \in Analyzers
      PROVE  /\ work'[v].pc # "idle" => work'[v].todo # <<>>
             /\ work'[v].pc = "govern" => work'[v].out # None
             /\ work'[v].pc \in {"govern", "flag"} =>
                   stored'[Head(work'[v].todo).finding] # NoAnalysis
  <2>1. CASE v = w
    BY <1>1, <2>1
  <2>2. CASE v # w
    <3>1. work'[v] = work[v]
      BY <1>1, <2>2
    <3>2. work[v].pc \in {"govern", "flag"} => stored[FindingAtHand(v)] # NoAnalysis
      BY DEF WorkInv
    <3>3. work[v].pc \in {"govern", "flag"} => stored'[FindingAtHand(v)] # NoAnalysis
      BY <2>2, <3>2
    <3> QED
      BY <3>1, <3>3 DEF WorkInv, FindingAtHand, AtHand
  <2> QED
    BY <2>1, <2>2
<1> QED
  BY <1>1, <1>2 DEF WorkInv, FindingAtHand, AtHand

\* The records Proceed, At and a change of plan leave behind.
LEMMA ProceedMoves ==
    ASSUME TablesInv, WorkInv, NEW w \in Analyzers, work[w].pc # "idle", Proceed(w),
           \A v \in Analyzers : v # w /\ work[v].pc \in {"govern", "flag"} /\
               stored[FindingAtHand(v)] # NoAnalysis => stored'[FindingAtHand(v)] # NoAnalysis
    PROVE  WorkInv'
<1>0. work[w] \in Work /\ work[w].todo \in Seq(Candidates) /\ work[w].todo # <<>>
  BY InHand
<1>1. CASE Len(work[w].todo) = 1
  <2>1. PICK r : r = NoWork
    OBVIOUS
  <2>2. r \in Work /\ r.pc = "idle"
    BY <2>1 DEF NoWork, Work, None
  <2>3. work' = [work EXCEPT ![w] = r]
    BY <1>1, <2>1 DEF Proceed
  <2> QED
    BY <2>2, <2>3, WorkMoves
<1>2. CASE Len(work[w].todo) # 1
  <2>1. PICK r : r = [pc |-> "batch", todo |-> Tail(work[w].todo), out |-> None]
    OBVIOUS
  <2>2. Tail(work[w].todo) \in Seq(Candidates) /\ Tail(work[w].todo) # <<>>
    <3>1. Len(work[w].todo) \in Nat \ {0} /\ Tail(work[w].todo) \in Seq(Candidates)
            /\ Len(Tail(work[w].todo)) = Len(work[w].todo) - 1
      BY <1>0, HeadTailProperties, EmptySeq
    <3>2. Len(Tail(work[w].todo)) # 0
      BY <1>2, <3>1
    <3> QED
      BY <3>1, <3>2, EmptySeq
  <2>3. r \in Work /\ r.pc = "batch" /\ r.todo # <<>>
    BY <2>1, <2>2 DEF Work
  <2>4. work' = [work EXCEPT ![w] = r]
    BY <1>2, <2>1 DEF Proceed
  <2> QED
    BY <2>3, <2>4, WorkMoves
<1> QED
  BY <1>1, <1>2

\* The finding in hand gets another place in the work.
LEMMA AtMoves ==
    ASSUME TablesInv, WorkInv, NEW w \in Analyzers, work[w].pc # "idle",
           NEW p \in {"store", "govern", "flag"}, NEW out \in Suppressions \cup {None},
           work' = [work EXCEPT ![w] = [work[w] EXCEPT !.pc = p, !.out = out]],
           p = "govern" => out # None,
           p \in {"govern", "flag"} => stored'[FindingAtHand(w)] # NoAnalysis,
           \A v \in Analyzers : v # w /\ work[v].pc \in {"govern", "flag"} /\
               stored[FindingAtHand(v)] # NoAnalysis => stored'[FindingAtHand(v)] # NoAnalysis
    PROVE  WorkInv'
<1>1. PICK r : r = [work[w] EXCEPT !.pc = p, !.out = out]
  OBVIOUS
<1>2. work[w] \in Work /\ work[w].todo # <<>>
  BY InHand
<1>3. r \in Work /\ r.pc = p /\ r.out = out /\ r.todo = work[w].todo
  BY <1>1, <1>2 DEF Work
<1>4. work' = [work EXCEPT ![w] = r]
  BY <1>1
<1>5. r.pc \in {"govern", "flag"} => stored'[Head(r.todo).finding] # NoAnalysis
  BY <1>3 DEF FindingAtHand, AtHand
<1>6. r.pc # "idle" => r.todo # <<>>
  BY <1>2, <1>3
<1>7. r.pc = "govern" => r.out # None
  BY <1>3
<1> QED
  BY <1>3, <1>4, <1>5, <1>6, <1>7, WorkMoves

\* A batch of candidates, at least one, is taken up.
LEMMA TakeMoves ==
    ASSUME TablesInv, WorkInv, NEW w \in Analyzers, NEW n \in Nat \ {0},
           NEW s \in [1..n -> Findings], Take(w, s), stored' = stored
    PROVE  WorkInv'
<1>1. PICK t : t = [i \in 1..n |-> CandidateOf(s[i])]
  OBVIOUS
<1>2. PICK r : r = [pc |-> "batch", out |-> None, todo |-> t]
  OBVIOUS
<1>3. t \in [1..n -> Candidates]
  BY <1>1, CandidateType
<1>4. t \in Seq(Candidates) /\ t # <<>>
  <2>1. t \in Seq(Candidates) /\ DOMAIN t = 1..n
    BY <1>3, SeqDef
  <2>2. 1 \in DOMAIN t
    BY <2>1
  <2>3. Len(t) = n
    BY <2>1
  <2> QED
    BY <2>1, <2>3, EmptySeq
<1>5. r \in Work /\ r.pc = "batch" /\ r.todo # <<>>
  BY <1>2, <1>4 DEF Work
<1>6. DOMAIN s = 1..n
  OBVIOUS
<1>7. work' = [work EXCEPT ![w] = r]
  BY <1>1, <1>2, <1>6 DEF Take
<1> QED
  BY <1>5, <1>7, WorkMoves

\* A stored analysis is one, and a stored one stays one.
LEMMA StoreMoves ==
    ASSUME TablesInv, WorkInv, NEW w \in Analyzers, work[w].pc # "idle",
           NEW auto \in BOOLEAN, Store(w, auto)
    PROVE  /\ stored' \in [Findings -> Analysis \cup {NoAnalysis}]
           /\ stored'[FindingAtHand(w)] # NoAnalysis
           /\ \A f \in Findings : stored[f] # NoAnalysis => stored'[f] # NoAnalysis
<1>1. /\ FindingAtHand(w) \in Findings /\ AtHand(w).facts \in Facts
      /\ work[w].out \in Suppressions \cup {None}
  BY InHand DEF Work
<1>2. PICK r : r = [facts |-> AtHand(w).facts, action |-> work[w].out, auto |-> auto]
  OBVIOUS
<1>3. r \in Analysis
  BY <1>1, <1>2 DEF Analysis
<1>4. r # NoAnalysis
  BY <1>1, <1>2 DEF NoAnalysis, Facts, None
<1>5. stored' = [stored EXCEPT ![FindingAtHand(w)] = r]
  BY <1>2 DEF Store
<1> QED
  BY <1>1, <1>3, <1>4, <1>5 DEF TablesInv

\* What a step of the analyzers keeps, and that it is one of the queue or none.
QueueStep == [Next]_vars
Kept == TablesInv' /\ WorkInv' /\ SilencingIsExplained' /\ QueueStep

\* The steps of an analyzer that write to no table.
LEMMA QuietStep ==
    ASSUME TablesInv, SilencingIsExplained, WorkInv', UNCHANGED <<facts, stored, silencedBy>>, QueueStep
    PROVE  Kept
  BY DEF Kept, TablesInv, SilencingIsExplained

\* An analyzer takes up its batch, or one finding.
LEMMA ListingStep ==
    ASSUME TablesInv, WorkInv, SilencingIsExplained, NEW w \in Analyzers,
           ListAnalysisCandidates(w) \/ \E f \in Findings : GetAnalysisCandidate(w, f)
    PROVE  Kept
<1>0. UNCHANGED <<vars, facts, stored, silencedBy>>
  BY DEF ListAnalysisCandidates, GetAnalysisCandidate
<1>1. CASE ListAnalysisCandidates(w)
  <2>1. PICK s \in Listing : Take(w, SubSeq(s, 1, BatchLimit))
    BY <1>1 DEF ListAnalysisCandidates
  <2>2. PICK n \in Nat : n = Cardinality(Findings)
    BY AnalyzerAssumption, FS_CardinalityType
  <2>3. n # 0
    BY <2>2, AnalyzerAssumption, FS_EmptySet
  <2>4. BatchLimit \in 1..n
    BY <2>2, <2>3, AnalyzerAssumption DEF BatchLimit
  <2>5. s \in [1..n -> Findings]
    BY <2>2 DEF Listing
  <2>6. PICK m \in 1..n : m = BatchLimit
    BY <2>4
  <2>7. PICK t : t = SubSeq(s, 1, m)
    OBVIOUS
  <2>8. t \in Seq(Findings) /\ Len(t) = m
    BY <2>5, <2>7, SubSeqProperties
  <2>9. t \in [1..m -> Findings]
    BY <2>8, LenProperties
  <2>10. m \in Nat \ {0} /\ Take(w, t)
    BY <2>1, <2>6, <2>7
  <2>11. WorkInv'
    BY <1>0, <2>9, <2>10, TakeMoves
  <2> QED
    BY <1>0, <2>11, QuietStep DEF QueueStep
<1>2. ASSUME NEW f \in Findings, GetAnalysisCandidate(w, f) PROVE Kept
  <2>1. PICK t : t = <<f>>
    OBVIOUS
  <2>n. PICK n \in Nat \ {0} : n = 1
    OBVIOUS
  <2>2. t \in [1..n -> Findings] /\ Take(w, t)
    BY <1>2, <2>1, <2>n DEF GetAnalysisCandidate
  <2>3. WorkInv'
    BY <1>0, <2>2, TakeMoves
  <2> QED
    BY <1>0, <2>3, QuietStep DEF QueueStep
<1> QED
  BY <1>1, <1>2

\* An analyzer goes on with the finding in hand.
LEMMA AnalyzeStep ==
    ASSUME TablesInv, WorkInv, SilencingIsExplained, NEW w \in Analyzers,
           Analyze(w) \/ AnalyzeCandidateFails(w)
    PROVE  Kept
<1>0. work[w].pc # "idle"
  BY DEF Analyze, SkipUnchanged, Complete, UpsertVulnAnalysis, GovernApplies, GovernQueues,
         StoreAutoApplied, ApplyVulnAnalysis, AnalyzeCandidateFails
<1>w. /\ work[w] \in Work /\ work[w].out \in Suppressions \cup {None}
      /\ FindingAtHand(w) \in Findings /\ AtHand(w).facts \in Facts
  BY <1>0, InHand DEF Work
<1>f. ASSUME NEW v \in Analyzers, work[v].pc \in {"govern", "flag"} PROVE FindingAtHand(v) \in Findings
  BY <1>f, InHand
<1>1. CASE SkipUnchanged(w)
  <2>1. WorkInv'
    BY <1>0, <1>1, ProceedMoves DEF SkipUnchanged
  <2> QED
    BY <1>1, <2>1, QuietStep DEF SkipUnchanged, QueueStep
<1>2. CASE Complete(w)
  <2>1. PICK out \in Suppressions \cup {None} :
            work' = [work EXCEPT ![w].pc = "store", ![w].out = out]
    BY <1>2 DEF Complete
  <2>2. work' = [work EXCEPT ![w] = [work[w] EXCEPT !.pc = "store", !.out = out]]
    BY <2>1, <1>w DEF WorkInv
  <2>3. UNCHANGED <<vars, facts, stored, silencedBy>>
    BY <1>2 DEF Complete
  <2>4. WorkInv'
    BY <1>0, <2>2, <2>3, AtMoves
  <2> QED
    BY <2>3, <2>4, QuietStep DEF QueueStep
<1>3. CASE AnalyzeCandidateFails(w)
  <2>1. WorkInv'
    BY <1>0, <1>3, ProceedMoves DEF AnalyzeCandidateFails
  <2> QED
    BY <1>3, <2>1, QuietStep DEF AnalyzeCandidateFails, QueueStep
<1>4. CASE UpsertVulnAnalysis(w)
  <2>1. /\ stored' \in [Findings -> Analysis \cup {NoAnalysis}]
        /\ stored'[FindingAtHand(w)] # NoAnalysis
        /\ \A f \in Findings : stored[f] # NoAnalysis => stored'[f] # NoAnalysis
    BY <1>0, <1>4, StoreMoves DEF UpsertVulnAnalysis
  <2>2. UNCHANGED <<vars, facts, silencedBy>>
    BY <1>4 DEF UpsertVulnAnalysis
  <2>3. WorkInv'
    <3>1. CASE work[w].out # None /\ At(w, "govern")
      <4>1. PICK out \in Suppressions \cup {None} : out = work[w].out
        BY <1>w
      <4>2. work' = [work EXCEPT ![w] = [work[w] EXCEPT !.pc = "govern", !.out = out]]
        BY <3>1, <4>1, <1>w DEF At, WorkInv, Work
      <4> QED
        BY <1>0, <1>f, <2>1, <3>1, <4>1, <4>2, AtMoves
    <3>2. CASE Proceed(w)
      BY <1>0, <1>f, <2>1, <3>2, ProceedMoves
    <3> QED
      BY <1>4, <3>1, <3>2 DEF UpsertVulnAnalysis
  <2>4. TablesInv'
    BY <2>1, <2>2 DEF TablesInv
  <2>5. SilencingIsExplained'
    BY <2>1, <2>2 DEF SilencingIsExplained
  <2> QED
    BY <2>2, <2>3, <2>4, <2>5 DEF Kept, QueueStep
<1>5. CASE GovernApplies(w)
  <2>1. /\ UNCHANGED <<facts, stored>> /\ work[w].pc = "govern"
        /\ UpsertVulnerabilityTriage(FindingAtHand(w), work[w].out)
        /\ silencedBy' = [silencedBy EXCEPT ![FindingAtHand(w)] = "analyzer"]
        /\ Decision(FindingAtHand(w), AtHand(w).facts) = "apply"
        /\ At(w, "flag")
    BY <1>5 DEF GovernApplies, SilenceAs
  <2>2. stored[FindingAtHand(w)] # NoAnalysis
    BY <2>1 DEF WorkInv
  <2>3. ~(Mode = "assisted" /\ FindingAtHand(w) \in Protected)
    BY <2>1 DEF Decision
  <2>4. SilencingIsExplained'
    BY <1>w, <2>1, <2>2, <2>3 DEF SilencingIsExplained, TablesInv
  <2>5. TablesInv'
    BY <1>w, <2>1 DEF TablesInv
  <2>6. WorkInv'
    <3>1. PICK out \in Suppressions \cup {None} : out = work[w].out
      BY <1>w
    <3>2. work' = [work EXCEPT ![w] = [work[w] EXCEPT !.pc = "flag", !.out = out]]
      BY <2>1, <3>1, <1>w DEF At, WorkInv, Work
    <3> QED
      BY <1>0, <2>1, <2>2, <3>2, AtMoves
  <2>7. QueueStep
    BY <1>w, <2>1 DEF QueueStep, Next
  <2> QED
    BY <2>4, <2>5, <2>6, <2>7 DEF Kept
<1>6. CASE GovernQueues(w)
  <2>1. UNCHANGED <<facts, stored, silencedBy>> /\ Proceed(w) /\ work[w].pc = "govern"
    BY <1>6 DEF GovernQueues
  <2>2. work[w].out \in Suppressions
    BY <1>w, <2>1 DEF WorkInv
  <2>3. QueueStep
    BY <1>6, <1>w, <2>2 DEF GovernQueues, QueueStep, Next
  <2>4. WorkInv'
    BY <1>0, <2>1, ProceedMoves
  <2> QED
    BY <2>1, <2>3, <2>4, QuietStep
<1>7. CASE StoreAutoApplied(w)
  <2>0. Store(w, TRUE) /\ Proceed(w) /\ UNCHANGED <<vars, facts, silencedBy>>
    BY <1>7 DEF StoreAutoApplied
  <2>1. /\ stored' \in [Findings -> Analysis \cup {NoAnalysis}]
        /\ \A f \in Findings : stored[f] # NoAnalysis => stored'[f] # NoAnalysis
    BY <1>0, <2>0, StoreMoves
  <2>3. WorkInv'
    BY <1>0, <1>f, <2>0, <2>1, ProceedMoves
  <2>4. TablesInv'
    BY <2>0, <2>1 DEF TablesInv
  <2>5. SilencingIsExplained'
    BY <2>0, <2>1 DEF SilencingIsExplained
  <2> QED
    BY <2>0, <2>3, <2>4, <2>5 DEF Kept, QueueStep
<1>8. CASE ApplyVulnAnalysis(w)
  <2>1. /\ UNCHANGED <<facts, stored>> /\ Proceed(w)
        /\ UpsertVulnerabilityTriage(FindingAtHand(w), work[w].out)
        /\ silencedBy' = [silencedBy EXCEPT ![FindingAtHand(w)] = "human"]
    BY <1>8 DEF ApplyVulnAnalysis, SilenceAs
  <2>2. SilencingIsExplained'
    BY <1>w, <2>1 DEF SilencingIsExplained, TablesInv
  <2>3. TablesInv'
    BY <1>w, <2>1 DEF TablesInv
  <2>4. WorkInv'
    BY <1>0, <2>1, ProceedMoves
  <2>5. QueueStep
    BY <1>w, <2>1 DEF QueueStep, Next
  <2> QED
    BY <2>2, <2>3, <2>4, <2>5 DEF Kept
<1> QED
  BY <1>1, <1>2, <1>3, <1>4, <1>5, <1>6, <1>7, <1>8 DEF Analyze

\* Every step of the analyzers and of those who decide.
LEMMA AnalyzerStep ==
    ASSUME AnalyzerInv, [NextAnalyzer]_allVars
    PROVE  AnalyzerInv' /\ [Next]_vars
<1>0. TablesInv /\ WorkInv /\ SilencingIsExplained /\ DecisionInv
  BY DEF AnalyzerInv
<1>1. ASSUME NEW w \in Analyzers,
             ListAnalysisCandidates(w) \/ Analyze(w) \/ AnalyzeCandidateFails(w)
      PROVE  Kept
  BY <1>0, <1>1, ListingStep, AnalyzeStep
<1>2. ASSUME NEW c \in Clients, NEW f \in Findings, GetAnalysisCandidate(c, f) PROVE Kept
  <2>1. c \in Analyzers
    BY DEF Analyzers
  <2> QED
    BY <1>0, <1>2, <2>1, ListingStep
<1>3. ASSUME NEW c \in Clients, NEW f \in Findings, GetVulnAnalysisByID(c, f) PROVE Kept
  <2>1. c \in Analyzers
    BY DEF Analyzers
  <2>2. PICK r : r = [pc |-> "apply", out |-> stored[f].action, todo |-> <<CandidateOf(f)>>]
    OBVIOUS
  <2>3. stored[f].action \in Suppressions \cup {None}
    BY <1>0 DEF TablesInv, Analysis, NoAnalysis
  <2>4. <<CandidateOf(f)>> \in Seq(Candidates)
    BY <1>0, CandidateType
  <2>5. r \in Work /\ r.pc = "apply" /\ r.todo # <<>>
    BY <2>2, <2>3, <2>4 DEF Work
  <2>6. work' = [work EXCEPT ![c] = r] /\ UNCHANGED <<vars, facts, stored, silencedBy>>
    BY <1>3, <2>2 DEF GetVulnAnalysisByID
  <2>7. WorkInv'
    BY <1>0, <2>1, <2>5, <2>6, WorkMoves
  <2> QED
    BY <1>0, <2>6, <2>7, QuietStep DEF QueueStep
<1>4. ASSUME NEW f \in Findings, FactsChange(f) PROVE Kept
  <2>1. UNCHANGED <<vars, stored, work, silencedBy>>
          /\ facts' = [facts EXCEPT ![f] = IF facts[f] = "plain" THEN "serious" ELSE "plain"]
    BY <1>4 DEF FactsChange
  <2>2. TablesInv'
    BY <1>0, <2>1 DEF TablesInv, Facts
  <2>3. WorkInv' /\ SilencingIsExplained'
    BY <1>0, <2>1 DEF WorkInv, SilencingIsExplained, FindingAtHand, AtHand
  <2> QED
    BY <2>1, <2>2, <2>3 DEF Kept, QueueStep
<1>5. ASSUME NEW f \in Findings, NEW p \in Suppressions \cup {None}, TriageByHand(f, p) PROVE Kept
  <2>1. UNCHANGED <<facts, stored, work>> /\ UpsertVulnerabilityTriage(f, p)
          /\ silencedBy' = [silencedBy EXCEPT ![f] = "human"]
    BY <1>5 DEF TriageByHand, SilenceAs
  <2>2. TablesInv' /\ SilencingIsExplained'
    BY <1>0, <2>1 DEF TablesInv, SilencingIsExplained
  <2>3. WorkInv'
    BY <1>0, <2>1 DEF WorkInv, FindingAtHand, AtHand
  <2>4. QueueStep
    BY <2>1 DEF QueueStep, Next
  <2> QED
    BY <2>2, <2>3, <2>4 DEF Kept
<1>6. ASSUME NEW a \in Admins, DecideApproval(a) PROVE Kept
  <2>1. /\ UNCHANGED <<facts, stored, work>> /\ Decide(a)
        /\ silencedBy' \in [Findings -> {"nobody", "analyzer", "human"}]
        /\ \A f \in Findings : silencedBy'[f] = "analyzer" => silencedBy[f] = "analyzer"
    BY <1>0, <1>6 DEF DecideApproval, TablesInv
  <2>2. TablesInv' /\ SilencingIsExplained'
    BY <1>0, <2>1 DEF TablesInv, SilencingIsExplained
  <2>3. WorkInv'
    BY <1>0, <2>1 DEF WorkInv, FindingAtHand, AtHand
  <2>4. QueueStep
    BY <2>1 DEF QueueStep, Next
  <2> QED
    BY <2>2, <2>3, <2>4 DEF Kept
<1>7. ASSUME ServerRestart PROVE Kept
  <2>1. /\ UNCHANGED <<facts, stored, silencedBy>> /\ ServerCrash
        /\ work' = [w \in Analyzers |-> NoWork]
    BY <1>7 DEF ServerRestart
  <2>2. NoWork \in Work /\ NoWork.pc = "idle"
    BY DEF NoWork, Work, None
  <2>3. WorkInv'
    BY <2>1, <2>2 DEF WorkInv
  <2>4. QueueStep
    BY <2>1 DEF QueueStep, Next
  <2> QED
    BY <1>0, <2>1, <2>3, <2>4, QuietStep
<1>8. ASSUME UNCHANGED allVars PROVE Kept
  <2>1. UNCHANGED <<vars, facts, stored, work, silencedBy>>
    BY <1>8 DEF allVars, analyzerVars
  <2>2. WorkInv'
    BY <1>0, <2>1 DEF WorkInv, FindingAtHand, AtHand
  <2>3. QueueStep
    BY <2>1 DEF QueueStep
  <2> QED
    BY <1>0, <2>1, <2>2, <2>3, QuietStep
<1>9. ASSUME NextAnalyzer PROVE Kept
  <2>1. CASE \E w \in Analyzers :
                 ListAnalysisCandidates(w) \/ Analyze(w) \/ AnalyzeCandidateFails(w)
    BY <1>1, <2>1
  <2>2. CASE \E c \in Clients, f \in Findings : GetAnalysisCandidate(c, f) \/ GetVulnAnalysisByID(c, f)
    BY <1>2, <1>3, <2>2
  <2>3. CASE \E f \in Findings : FactsChange(f) \/ \E p \in Suppressions \cup {None} : TriageByHand(f, p)
    BY <1>4, <1>5, <2>3
  <2>4. CASE \E a \in Admins : DecideApproval(a)
    BY <1>6, <2>4
  <2> QED
    BY <1>7, <1>9, <2>1, <2>2, <2>3, <2>4 DEF NextAnalyzer
<1>10. Kept
  BY <1>8, <1>9
<1> QED
  BY <1>0, <1>10, DecisionStep DEF Kept, QueueStep, AnalyzerInv

\* Nothing is analysed, silenced or under way at first.
LEMMA AnalyzerInit == InitAnalyzer => AnalyzerInv
<1> SUFFICES ASSUME InitAnalyzer PROVE AnalyzerInv
  OBVIOUS
<1>1. DecisionInv
  BY DecisionInit DEF InitAnalyzer
<1>2. TablesInv /\ SilencingIsExplained
  BY DEF InitAnalyzer, TablesInv, SilencingIsExplained
<1>3. NoWork \in Work /\ NoWork.pc = "idle"
  BY DEF NoWork, Work, None
<1>4. WorkInv
  BY <1>3 DEF InitAnalyzer, WorkInv
<1> QED
  BY <1>1, <1>2, <1>4 DEF AnalyzerInv

\* SilencingIsExplained of every behaviour: whichever call fails and whoever
\* works on the same finding, a finding that the analyzer silenced has an
\* analysis, and in the assisted mode it is on no protected host.
THEOREM SilencingsAreExplained == AnalyzerSpec => []SilencingIsExplained
<1>1. AnalyzerInv /\ [NextAnalyzer]_allVars => AnalyzerInv'
  BY AnalyzerStep
<1>2. AnalyzerInv => SilencingIsExplained
  BY DEF AnalyzerInv
<1> QED
  BY <1>1, <1>2, AnalyzerInit, PTL DEF AnalyzerSpec

\* The analyzers implement the approval queue: they begin as it does, and
\* every step of theirs, of an administrator or of a restart is a step of
\* AIApproval or leaves its variables alone.
THEOREM TheAnalyzersKeepTheQueue == AnalyzerSpec => AnalyzersKeepTheQueue
<1>1. InitAnalyzer => Init
  BY DEF InitAnalyzer
<1>2. AnalyzerInv /\ [NextAnalyzer]_allVars => AnalyzerInv' /\ [Next]_vars
  BY AnalyzerStep
<1> QED
  BY <1>1, <1>2, AnalyzerInit, PTL DEF AnalyzerSpec, Spec, AnalyzersKeepTheQueue

\* So the promises of the approval queue hold with the analyzers at work on
\* it: an approval is granted once, and its row shows what was executed.
THEOREM TheQueueStaysSound == AnalyzerSpec => [](ApprovedOnce /\ RowShowsTheAction)
  BY TheAnalyzersKeepTheQueue, ApprovalsAreGrantedOnce, RowsShowTheAction, PTL
     DEF AnalyzersKeepTheQueue
=============================================================================

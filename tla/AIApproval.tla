----------------------------- MODULE AIApproval -----------------------------
(***************************************************************************)
(* The approval queue of AI-proposed actions: the table                    *)
(* ai_action_approvals with the statements of db/ai_approvals.go, the      *)
(* handlers and the executor of api/ai_actions.go, and the triage          *)
(* decisions they write.                                                   *)
(*                                                                         *)
(* An approval is a number, drawn by the insert; an action proposes a      *)
(* triage status for a finding.                                            *)
(***************************************************************************)
EXTENDS Naturals

CONSTANTS
    Findings,  \* the findings (vulnerability, host, package)
    Admins,    \* the administrators; each has one request under way at most
    MaxRows,   \* bound: approvals are inserted while there are fewer
    Budget     \* bound: how many faults

Ids == 1..MaxRows
NoId == 0

ASSUME AIApprovalAssumption ==
    /\ MaxRows \in Nat
    /\ Budget \in Nat
    /\ Admins \cap Ids = {}   \* an actor id is no approval id

VARIABLES
    approvals, \* the table ai_action_approvals
    made,      \* how many rows were inserted
    request,   \* the decision each administrator is waiting for
    triage,    \* the suppression in force for each finding
    executed,  \* history: the action executed last for each approval
    granted,   \* history: how often an approval was answered "approved"
    left       \* the budget left

vars == <<approvals, made, request, triage, executed, granted, left>>

Suppressions == {"accepted_risk", "false_positive"}
None == "none"

Row == [subject: Findings, proposed: Suppressions, decidedBy: Admins \cup {None},
        status: {"pending", "approved", "rejected"}]

\* execute: claimed and about to execute; revert: the execution has failed;
\* 200, 409, 500: answered.
Request == [pc: {"idle", "execute", "revert", "200", "409", "500"}, id: Ids \cup {NoId},
            proposed: Suppressions \cup {None}]   \* what the claim returned
NoRequest == [pc |-> "idle", id |-> NoId, proposed |-> None]

TypeOK ==
    /\ made \in 0..MaxRows
    /\ approvals \in [1..made -> Row]
    /\ request \in [Admins -> Request]
    /\ \A a \in Admins : request[a].pc # "idle" => request[a].id \in 1..made
    /\ triage \in [Findings -> Suppressions \cup {None}]
    /\ executed \in [Ids -> Suppressions \cup {None}]
    /\ granted \in [Ids -> Nat]
    /\ left \in 0..Budget

Init ==
    /\ made = 0
    /\ approvals = [i \in {} |-> None]
    /\ request = [a \in Admins |-> NoRequest]
    /\ triage = [f \in Findings |-> None]
    /\ executed = [i \in Ids |-> None]
    /\ granted = [i \in Ids |-> 0]
    /\ left = Budget

Rows == 1..made
Fault == left > 0 /\ left' = left - 1

PendingFor(f) == {i \in Rows : approvals[i].subject = f /\ approvals[i].status = "pending"}

----------------------------------------------------------------------------
(* The analyzer and the manual triage endpoint.                            *)

\* Mutant: the conflict target of the insert takes approved rows in too.
QueueOverApproved(f, p) ==
    /\ LET mine == {i \in Rows : approvals[i].subject = f /\ approvals[i].status # "rejected"}
       IN  IF mine # {}
           THEN /\ approvals' = [i \in Rows |-> IF i \in mine
                                                THEN [approvals[i] EXCEPT !.proposed = p]
                                                ELSE approvals[i]]
                /\ UNCHANGED made
           ELSE /\ made < MaxRows
                /\ made' = made + 1
                /\ approvals' = [i \in 1..(made + 1) |->
                       IF i \in Rows THEN approvals[i]
                       ELSE [subject |-> f, proposed |-> p, decidedBy |-> None, status |-> "pending"]]
    /\ UNCHANGED <<request, triage, executed, granted, left>>

\* governAIAnalysisAction queues: CreateAIApproval refreshes the pending row
\* of the finding or inserts one.
CreateAIApproval(f, p) ==
    /\ \/ /\ PendingFor(f) # {}
          /\ approvals' = [i \in Rows |-> IF i \in PendingFor(f)
                                          THEN [approvals[i] EXCEPT !.proposed = p]
                                          ELSE approvals[i]]
          /\ UNCHANGED made
       \/ /\ PendingFor(f) = {}
          /\ made < MaxRows
          /\ made' = made + 1
          /\ approvals' = [i \in 1..(made + 1) |->
                 IF i \in Rows THEN approvals[i]
                 ELSE [subject |-> f, proposed |-> p, decidedBy |-> None, status |-> "pending"]]
    /\ UNCHANGED <<request, triage, executed, granted, left>>

\* governAIAnalysisAction applies, or an administrator triages by hand
\* (None stands for the statuses that do not suppress).
UpsertVulnerabilityTriage(f, p) ==
    /\ triage' = [triage EXCEPT ![f] = p]
    /\ UNCHANGED <<approvals, made, request, executed, granted, left>>

----------------------------------------------------------------------------
(* handleDecideAIApproval.                                                 *)

Answer(a, code) == request' = [request EXCEPT ![a].pc = code, ![a].proposed = None]
Start(a, i, pc) ==
    request' = [request EXCEPT ![a] = [pc |-> pc, id |-> i, proposed |->
        IF pc = "execute" THEN approvals[i].proposed ELSE None]]
SetStatus(i, status, by) ==
    approvals' = [approvals EXCEPT ![i].status = status, ![i].decidedBy = by]

\* Mutant: the claim does not ask for a pending row.
ClaimAnyway(a, i) ==
    /\ request[a].pc = "idle"
    /\ SetStatus(i, "approved", a)
    /\ Start(a, i, "execute")
    /\ UNCHANGED <<made, triage, executed, granted, left>>

\* ClaimAIApprovalForApproval: one statement decides who executes.
ClaimAIApprovalForApproval(a, i) ==
    /\ request[a].pc = "idle"
    /\ \/ /\ approvals[i].status = "pending"
          /\ SetStatus(i, "approved", a)
          /\ Start(a, i, "execute")
       \/ /\ approvals[i].status # "pending"
          /\ Start(a, i, "409")
          /\ UNCHANGED approvals
    /\ UNCHANGED <<made, triage, executed, granted, left>>

\* The approval in the administrator's hands.  Its subject never changes (it
\* is part of the payload); its proposal is the one the claim returned.
Claimed(a) == approvals[request[a].id]

Apply(a) ==
    /\ triage' = [triage EXCEPT ![Claimed(a).subject] = request[a].proposed]
    /\ executed' = [executed EXCEPT ![request[a].id] = request[a].proposed]

ExecuteAIAction(a) ==
    /\ request[a].pc = "execute"
    /\ Apply(a)
    /\ granted' = [granted EXCEPT ![request[a].id] = @ + 1]
    /\ Answer(a, "200")
    /\ UNCHANGED <<approvals, made, left>>

\* The triage write fails, or its answer is lost.
ExecuteAIActionFails(a) ==
    /\ request[a].pc = "execute"
    /\ Fault
    /\ \/ Apply(a)
       \/ UNCHANGED <<triage, executed>>
    /\ Answer(a, "revert")
    /\ UNCHANGED <<approvals, made, granted>>

\* The request context ends after the claim: neither the execution nor the
\* revert goes through.
RequestCancelled(a) ==
    /\ request[a].pc = "execute"
    /\ Fault
    /\ Answer(a, "500")
    /\ UNCHANGED <<approvals, made, triage, executed, granted>>

\* RevertAIApproval, whose error is dropped: it fails on the unique index when
\* the finding has a new pending approval.
RevertAIApproval(a) ==
    /\ request[a].pc = "revert"
    /\ IF Claimed(a).status = "approved" /\ PendingFor(Claimed(a).subject) = {}
       THEN SetStatus(request[a].id, "pending", None)
       ELSE UNCHANGED approvals
    /\ Answer(a, "500")
    /\ UNCHANGED <<made, triage, executed, granted, left>>

\* RejectAIApproval.  The statement reads "decided_by=$2 WHERE id=$1" and gets
\* the actor as $1 and the id as $2: it looks for a row with the actor's id.
RejectAIApproval(a, i) ==
    LET hit == {r \in Rows : r = a /\ approvals[r].status = "pending"}
    IN  /\ request[a].pc = "idle"
        /\ approvals' = [r \in Rows |-> IF r \in hit
                                        THEN [approvals[r] EXCEPT !.status = "rejected"]
                                        ELSE approvals[r]]
        /\ Start(a, i, IF hit # {} THEN "200" ELSE "409")
        /\ UNCHANGED <<made, triage, executed, granted, left>>

\* The answer reaches the administrator.
Answered(a) ==
    /\ request[a].pc \in {"200", "409", "500"}
    /\ request' = [request EXCEPT ![a] = NoRequest]
    /\ UNCHANGED <<approvals, made, triage, executed, granted, left>>

\* The server stops and starts again.
ServerCrash ==
    /\ Fault
    /\ request' = [a \in Admins |-> NoRequest]
    /\ UNCHANGED <<approvals, made, triage, executed, granted>>

----------------------------------------------------------------------------
Decide(a) ==
    \/ \E i \in Rows : ClaimAIApprovalForApproval(a, i) \/ RejectAIApproval(a, i)
    \/ ExecuteAIAction(a) \/ ExecuteAIActionFails(a) \/ RequestCancelled(a)
    \/ RevertAIApproval(a)
    \/ Answered(a)

Next ==
    \/ \E f \in Findings, p \in Suppressions : CreateAIApproval(f, p)
    \/ \E f \in Findings, p \in Suppressions \cup {None} : UpsertVulnerabilityTriage(f, p)
    \/ \E a \in Admins : Decide(a)
    \/ ServerCrash

Spec == Init /\ [][Next]_vars

----------------------------------------------------------------------------
(* Safety.                                                                 *)

\* "this closes the double-execution window where two approvers both read
\* 'pending'" (db/ai_approvals.go:104): nobody else holds an approval that is
\* being executed, and at most one of all approvers is told "approved".
ApprovedOnce ==
    /\ \A i \in Ids : granted[i] <= 1
    /\ \A a, b \in Admins :
          /\ a # b
          /\ request[a].pc \in {"execute", "revert"}
          /\ request[b].pc \in {"execute", "revert"}
          => request[a].id # request[b].id

\* The row kept for the audit shows what was done: an action reported as
\* approved was executed as the row proposes it, although the analyzer goes
\* on refreshing proposals while administrators decide.
RowShowsTheAction ==
    \A i \in Rows : granted[i] > 0 => /\ approvals[i].status = "approved"
                                      /\ executed[i] = approvals[i].proposed

\* db/ai_approvals.go:131: RejectAIApproval "atomically transitions a pending
\* approval to 'rejected'. Returns false if it was not pending".  Nobody is
\* told that an approval is not pending while it is.
ConflictMeansDecided ==
    [][\A a \in Admins :
          request[a].pc = "idle" /\ request'[a].pc = "409"
              => approvals[request'[a].id].status # "pending"]_vars
=============================================================================

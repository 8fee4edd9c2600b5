---------------------------- MODULE VulnAnalyzer ----------------------------
(***************************************************************************)
(* The AI analysis of findings: the worker and the handlers of             *)
(* api/vuln_analysis.go, the table vulnerability_analysis, the policy      *)
(* engine aipolicy/aipolicy.go and the routing of a suggestion to the      *)
(* triage table or to the approval queue, which are those of AIApproval.   *)
(*                                                                         *)
(* The facts of a finding are cut down to the one the policy asks for:     *)
(* whether it is serious (known exploited, or critical).  What the model   *)
(* recommends is a suppression, or None for every other answer (another    *)
(* action, or too little confidence).                                      *)
(***************************************************************************)
EXTENDS AIApproval, Sequences, FiniteSets

CONSTANTS
    Worker,     \* the periodic worker
    Clients,    \* the HTTP requests that analyse or apply
    Batch,      \* how many findings a batch looks at
    Mode,       \* the policy's mode
    Protected,  \* the findings on production hosts of high criticality
    MaxChanges, \* bound: how often the facts of a finding change
    MaxFailures \* bound: how often an analysis fails

\* A limit of none is replaced by a default.
ASSUME AnalyzerAssumption ==
    /\ IsFiniteSet(Findings) /\ Findings # {}
    /\ Batch \in Nat \ {0}

VARIABLES
    facts,      \* the facts of each finding in the database
    stored,     \* the table vulnerability_analysis
    work,       \* what each analyzer is doing
    silencedBy, \* history: who wrote the triage decision of each finding
    changes,    \* how many changes are left
    failures    \* how many failures are left

Analyzers == {Worker} \cup Clients

budgets == <<changes, failures>>
analyzerVars == <<facts, stored, work, silencedBy, budgets>>
allVars == <<vars, analyzerVars>>

\* A row keeps the hash of the facts it was made from: the facts, here.
NoAnalysis == [facts |-> None, action |-> None, auto |-> FALSE]
Facts == {"plain", "serious"}
Analysis == [facts: Facts, action: Suppressions \cup {None}, auto: BOOLEAN]

\* A candidate is read with its facts and the hash of its stored analysis.
CandidateOf(f) == [finding |-> f, facts |-> facts[f], hash |-> stored[f].facts]
Candidates == [finding: Findings, facts: Facts, hash: Facts \cup {None}]

NoWork == [pc |-> "idle", todo |-> <<>>, out |-> None]

AnalyzerTypeOK ==
    /\ TypeOK
    /\ facts \in [Findings -> Facts]
    /\ stored \in [Findings -> Analysis \cup {NoAnalysis}]
    /\ \A w \in Analyzers :
          /\ work[w].pc \in {"idle", "batch", "store", "govern", "flag", "apply"}
          /\ work[w].out \in Suppressions \cup {None}
          /\ work[w].todo \in Seq(Candidates)
          /\ (work[w].pc = "idle") <=> (work[w].todo = <<>>)
    /\ silencedBy \in [Findings -> {"nobody", "analyzer", "human"}]
    /\ changes \in 0..MaxChanges
    /\ failures \in 0..MaxFailures

InitAnalyzer ==
    /\ Init
    /\ facts \in [Findings -> Facts]
    /\ stored = [f \in Findings |-> NoAnalysis]
    /\ work = [w \in Analyzers |-> NoWork]
    /\ silencedBy = [f \in Findings |-> "nobody"]
    /\ changes = MaxChanges
    /\ failures = MaxFailures

AtHand(w) == Head(work[w].todo)
FindingAtHand(w) == AtHand(w).finding

\* On to the next candidate, or done.
Proceed(w) ==
    work' = [work EXCEPT ![w] =
                IF Len(@.todo) = 1 THEN NoWork
                ELSE [pc |-> "batch", todo |-> Tail(@.todo), out |-> None]]

At(w, pc) == work' = [work EXCEPT ![w].pc = pc]

----------------------------------------------------------------------------
(* The policy engine (Config.Decide and resolveOutcome).                   *)

Decision(f, seen) ==
    IF Mode = "off" \/ seen = "serious" THEN "none"
    ELSE IF Mode = "auto" \/ (Mode = "assisted" /\ f \notin Protected) THEN "apply"
    ELSE IF Mode = "assisted" THEN "queue"
    ELSE "none"

----------------------------------------------------------------------------
(* The batch.                                                              *)

\* Un-analysed findings first, then the serious ones; ties in any order.
Rank(f) == (IF stored[f] = NoAnalysis THEN 2 ELSE 0) + (IF facts[f] = "serious" THEN 1 ELSE 0)

Listing == {s \in [1..Cardinality(Findings) -> Findings] :
                /\ \A f \in Findings : \E i \in DOMAIN s : s[i] = f
                /\ \A i, j \in DOMAIN s : i < j => Rank(s[i]) >= Rank(s[j])}

BatchLimit == IF Batch < Cardinality(Findings) THEN Batch ELSE Cardinality(Findings)

Take(w, s) ==
    work' = [work EXCEPT ![w] = [pc |-> "batch", out |-> None,
                                 todo |-> [i \in DOMAIN s |-> CandidateOf(s[i])]]]

\* Mutant: only findings without an analysis are listed.
ListUnanalyzed(w) ==
    /\ work[w].pc = "idle"
    /\ \E f \in Findings : stored[f] = NoAnalysis /\ Take(w, <<f>>)
    /\ UNCHANGED <<vars, facts, stored, silencedBy, budgets>>

\* ListAnalysisCandidates at the start of a batch (runAnalysisBatch), for the
\* worker's tick and for an administrator's request.
ListAnalysisCandidates(w) ==
    /\ work[w].pc = "idle"
    /\ \E s \in Listing : Take(w, SubSeq(s, 1, BatchLimit))
    /\ UNCHANGED <<vars, facts, stored, silencedBy, budgets>>

\* handleGetVulnAnalysis: none is stored and the viewer asks for one.
GetAnalysisCandidate(w, f) ==
    /\ work[w].pc = "idle"
    /\ stored[f] = NoAnalysis
    /\ Take(w, <<f>>)
    /\ UNCHANGED <<vars, facts, stored, silencedBy, budgets>>

Unchanged(w) == AtHand(w).hash = AtHand(w).facts

\* The facts have the stored hash: no call.
SkipUnchanged(w) ==
    /\ work[w].pc = "batch"
    /\ Unchanged(w)
    /\ Proceed(w)
    /\ UNCHANGED <<vars, facts, stored, silencedBy, budgets>>

\* llm.Complete answers.
Complete(w) ==
    /\ work[w].pc = "batch"
    /\ ~Unchanged(w)
    /\ \E out \in Suppressions \cup {None} :
           work' = [work EXCEPT ![w].pc = "store", ![w].out = out]
    /\ UNCHANGED <<vars, facts, stored, silencedBy, budgets>>

\* The call, its answer or a statement fails; the batch goes on with the next
\* finding (also when only the auto_applied flag is lost).
AnalyzeCandidateFails(w) ==
    /\ work[w].pc \in {"batch", "store", "govern", "flag"}
    /\ failures > 0
    /\ failures' = failures - 1
    /\ Proceed(w)
    /\ UNCHANGED <<vars, facts, stored, silencedBy, changes>>

Store(w, auto) ==
    stored' = [stored EXCEPT ![FindingAtHand(w)] =
                  [facts |-> AtHand(w).facts, action |-> work[w].out, auto |-> auto]]

\* Mutant: the row is written once, when the outcome is known.
StoreLater(w) ==
    /\ work[w].pc = "store"
    /\ IF work[w].out # None /\ Decision(FindingAtHand(w), AtHand(w).facts) # "none"
       THEN At(w, "govern") /\ UNCHANGED stored
       ELSE Proceed(w) /\ Store(w, FALSE)
    /\ UNCHANGED <<vars, facts, silencedBy, budgets>>

\* UpsertVulnAnalysis, before anything is done about the finding.
UpsertVulnAnalysis(w) ==
    /\ work[w].pc = "store"
    /\ Store(w, FALSE)
    /\ IF work[w].out # None /\ Decision(FindingAtHand(w), AtHand(w).facts) # "none"
       THEN At(w, "govern")
       ELSE Proceed(w)
    /\ UNCHANGED <<vars, facts, silencedBy, budgets>>

SilenceAs(f, who) == silencedBy' = [silencedBy EXCEPT ![f] = who]

\* governAIAnalysisAction: the executor writes the triage decision ...
GovernApplies(w) ==
    /\ work[w].pc = "govern"
    /\ Decision(FindingAtHand(w), AtHand(w).facts) = "apply"
    /\ UpsertVulnerabilityTriage(FindingAtHand(w), work[w].out)
    /\ SilenceAs(FindingAtHand(w), "analyzer")
    /\ At(w, "flag")
    /\ UNCHANGED <<facts, stored, budgets>>

\* ... or an approval is queued.
GovernQueues(w) ==
    /\ work[w].pc = "govern"
    /\ Decision(FindingAtHand(w), AtHand(w).facts) = "queue"
    /\ \/ CreateAIApproval(FindingAtHand(w), work[w].out)
       \/ /\ PendingFor(FindingAtHand(w)) = {} /\ made = MaxRows  \* bound: the insert fails
          /\ UNCHANGED vars
    /\ Proceed(w)
    /\ UNCHANGED <<facts, stored, silencedBy, budgets>>

\* Applied: the row is written again, with the flag.
StoreAutoApplied(w) ==
    /\ work[w].pc = "flag"
    /\ Store(w, TRUE)
    /\ Proceed(w)
    /\ UNCHANGED <<vars, facts, silencedBy, budgets>>

----------------------------------------------------------------------------
(* The administrators, the import, and a restart.                          *)

\* handleApplyVulnAnalysis reads the analysis ...
GetVulnAnalysisByID(w, f) ==
    /\ work[w].pc = "idle"
    /\ stored[f].action # None
    /\ work' = [work EXCEPT ![w] = [pc |-> "apply", out |-> stored[f].action,
                                    todo |-> <<CandidateOf(f)>>]]
    /\ UNCHANGED <<vars, facts, stored, silencedBy, budgets>>

\* ... and executes what it recommends, without the policy.
ApplyVulnAnalysis(w) ==
    /\ work[w].pc = "apply"
    /\ UpsertVulnerabilityTriage(FindingAtHand(w), work[w].out)
    /\ SilenceAs(FindingAtHand(w), "human")
    /\ Proceed(w)
    /\ UNCHANGED <<facts, stored, budgets>>

\* Decisions on the approval queue and manual triage, as in AIApproval.
TriageByHand(f, p) ==
    /\ UpsertVulnerabilityTriage(f, p)
    /\ SilenceAs(f, "human")
    /\ UNCHANGED <<facts, stored, work, budgets>>

DecideApproval(a) ==
    /\ Decide(a)
    /\ silencedBy' = [f \in Findings |-> IF executed' # executed /\ Claimed(a).subject = f
                                         THEN "human" ELSE silencedBy[f]]
    /\ UNCHANGED <<facts, stored, work, budgets>>

\* An import or a report changes the facts.
FactsChange(f) ==
    /\ changes > 0
    /\ changes' = changes - 1
    /\ facts' = [facts EXCEPT ![f] = IF @ = "plain" THEN "serious" ELSE "plain"]
    /\ UNCHANGED <<vars, stored, work, silencedBy, failures>>

ServerRestart ==
    /\ ServerCrash
    /\ work' = [w \in Analyzers |-> NoWork]
    /\ UNCHANGED <<facts, stored, silencedBy, budgets>>

----------------------------------------------------------------------------
Analyze(w) ==
    \/ SkipUnchanged(w) \/ Complete(w)
    \/ UpsertVulnAnalysis(w) \/ GovernApplies(w) \/ GovernQueues(w) \/ StoreAutoApplied(w)
    \/ ApplyVulnAnalysis(w)

NextAnalyzer ==
    \/ \E w \in Analyzers :
          ListAnalysisCandidates(w) \/ Analyze(w) \/ AnalyzeCandidateFails(w)
    \/ \E c \in Clients, f \in Findings : GetAnalysisCandidate(c, f) \/ GetVulnAnalysisByID(c, f)
    \/ \E f \in Findings : FactsChange(f) \/ \E p \in Suppressions \cup {None} : TriageByHand(f, p)
    \/ \E a \in Admins : DecideApproval(a)
    \/ ServerRestart

AnalyzerSpec == InitAnalyzer /\ [][NextAnalyzer]_allVars

\* The worker's ticker goes on for as long as the server runs, and what was
\* begun is carried on with: every call has a deadline.
FairAnalyzers ==
    /\ \A w \in Analyzers : WF_allVars(Analyze(w))
    /\ WF_allVars(ListAnalysisCandidates(Worker))
LiveAnalyzerSpec == AnalyzerSpec /\ FairAnalyzers

----------------------------------------------------------------------------
(* What the analyzers leave of the approval queue: they are clients of it,  *)
(* and every step of theirs is one of AIApproval or none.                  *)

\* governAIAnalysisAction goes through CreateAIApproval and the triage table
\* alone: whatever the analyzers, the policy and a failing call do, the queue
\* behaves as AIApproval says.
AnalyzersKeepTheQueue == Spec

----------------------------------------------------------------------------
(* Safety.                                                                 *)

\* "Store the analysis FIRST, then attempt auto-apply, so a finding is never
\* suppressed without a persisted assessment explaining it"
\* (api/vuln_analysis.go:192), whatever fails in between; and on a protected
\* host the assisted mode leaves the decision to a human.
SilencingIsExplained ==
    \A f \in Findings : silencedBy[f] = "analyzer" =>
        /\ stored[f] # NoAnalysis
        /\ ~(Mode = "assisted" /\ f \in Protected)

(* Liveness.                                                               *)

\* analysisInputHash: "re-analysis happens whenever any input changes", when
\* a batch is large enough for the findings: in the end every stored analysis
\* is about the facts as they are, although a slower analyzer may write an
\* older one over a newer.
AnalysesConverge == <>[](\A f \in Findings : stored[f].facts = facts[f])
=============================================================================

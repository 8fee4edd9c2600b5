---------------------------- MODULE MCServerJobs ----------------------------
(* What goes on by itself: the syncs, the token cache, the notifications, the *)
(* agent that replays its spool, and the analyses, checked in one run.  `part` *)
(* says which of them moves; the others stand still.                          *)
EXTENDS SyncManager, APITokens, Notifications, TLC

CONSTANTS Outages, MaxScans, NSections, SpoolMax, \* agent
          Findings, Worker, Clients              \* analyses

VARIABLES part,
          scans, clock, handlers, pc, files, cur, attempt, waiting, drawn,
          spool, evicted, lost, removed, agentLeft,
          approvals, made, request, triage, executed, granted, left,
          facts, stored, work, silencedBy, changes, failures

agentVars == <<scans, clock, handlers, pc, files, cur, attempt, waiting, drawn,
               spool, evicted, lost, removed, agentLeft>>
analysisVars == <<approvals, made, request, triage, executed, granted, left,
                  facts, stored, work, silencedBy, changes, failures>>
jobVars == <<part, syncVars, tokenVars, notifyVars, agentVars, analysisVars>>

\* Only the server is away, or its database fails: no answer is lost.
OutageBudget == "outage" :> Outages @@ "cut" :> 0 @@ "dberror" :> 2 @@ "delete" :> 0

Agent == INSTANCE ReportDelivery WITH left <- agentLeft, Budget <- OutageBudget

\* A batch of every finding, and no administrator decides.
Analyzer == INSTANCE VulnAnalyzer WITH
    Admins <- {}, MaxRows <- 1, Budget <- 1, Batch <- Cardinality(Findings),
    Mode <- "auto", Protected <- {}, MaxChanges <- 1, MaxFailures <- 1

On(event, channel, filter) ==
    [enabled |-> TRUE, event |-> event, channel |-> channel, filter |-> filter]
MCOffers == {On("scan.completed", "webhook", "any"), On("scan.completed", "email", "severe"),
             On("scan.failed", "email", "severe"), On("scan.failed", "log", "any")}

StartsRun == Agent!StartRun \/ Agent!ReplayDone \/ Agent!RemoveReplayed
Replays == \E s \in files : Agent!ReplayNext(s)
Sends == Agent!CollectFails \/ Agent!SpoolReport \/ Agent!SendAttempt

MCInit ==
    /\ part \in {"sync", "tokens", "hooks", "rules", "agent", "analyses"}
    /\ InitSyncManager /\ InitAPITokens /\ InitNotifications /\ Agent!Init
    /\ Analyzer!InitAnalyzer
    \* The parts that stand still start in one state.
    /\ part # "sync" => since = Never
    /\ part # "rules" => \A r \in RuleIds : rules[r] = NoRule
    /\ part # "analyses" => \A f \in Findings : facts[f] = "plain"

HooksStep == \E h \in Hooks : HookStep(h)
RulesStep == \/ \E j \in Jobs : StartJob(j) \/ DeadlinePasses(j) \/ JobStep(j)
             \/ EditRules
AgentStep == Agent!RunStep \/ (\E h \in handlers : Agent!HandlerStep(h)) \/ Agent!FaultStep

MCNext ==
    /\ UNCHANGED part
    /\ \/ /\ part = "sync" /\ NextSyncManager
          /\ UNCHANGED <<tokenVars, notifyVars, agentVars, analysisVars>>
       \/ /\ part = "tokens" /\ NextAPITokens
          /\ UNCHANGED <<syncVars, notifyVars, agentVars, analysisVars>>
       \/ /\ part = "hooks" /\ HooksStep
          /\ UNCHANGED <<syncVars, tokenVars, agentVars, analysisVars>>
       \/ /\ part = "rules" /\ RulesStep
          /\ UNCHANGED <<syncVars, tokenVars, agentVars, analysisVars>>
       \/ /\ part = "agent" /\ AgentStep
          /\ UNCHANGED <<syncVars, tokenVars, notifyVars, analysisVars>>
       \/ /\ part = "analyses" /\ Analyzer!NextAnalyzer
          /\ UNCHANGED <<syncVars, tokenVars, notifyVars, agentVars>>

-----------------------------------------------------------------------------
(* FairSyncManager, FairAPITokens, FairNotifications, Agent!Fairness and      *)
(* Analyzer!FairAnalyzers, each while its part is the one that moves.         *)

Syncing == part = "sync"
Authenticating == part = "tokens"
Notifying == part \in {"hooks", "rules"}
Reporting == part = "agent"
Analyzing == part = "analyses"

MCFairness ==
    /\ WF_syncVars(Syncing /\ TimePasses)
    /\ WF_syncVars(Syncing /\ (LoopSyncs \/ LoopRefused))
    /\ WF_syncVars(Syncing /\ (CommandFails \/ CommandSucceeds))
    /\ WF_syncVars(Syncing /\ Return)
    /\ WF_syncVars(Syncing /\ (ScheduleNextPeriodicSync \/ ScheduleRetrySync))
    /\ \A c \in Admins : WF_tokenVars(Authenticating /\ Put(c))
    /\ \A c \in Admins : WF_tokenVars(Authenticating /\ Evict(c))
    /\ \A c \in Callers : WF_tokenVars(Authenticating /\ RefreshStep(c))
    /\ \A t \in Tokens : WF_tokenVars(Authenticating /\ MarkUsed(t))
    /\ WF_tokenVars(Authenticating /\ Tick)
    /\ \A h \in Hooks : WF_notifyVars(Notifying /\ HookStep(h))
    /\ \A j \in Jobs : WF_notifyVars(Notifying /\ JobStep(j))
    /\ WF_agentVars(Reporting /\ (StartsRun \/ Replays))
    /\ WF_agentVars(Reporting /\ Sends)
    /\ WF_agentVars(Reporting /\ \E h \in handlers : Agent!HandlerStep(h))
    /\ \A w \in {Worker} \cup Clients : WF_analysisVars(Analyzing /\ Analyzer!Analyze(w))
    /\ WF_analysisVars(Analyzing /\ Analyzer!ListAnalysisCandidates(Worker))

MCSpec == MCInit /\ [][MCNext]_jobVars /\ MCFairness

-----------------------------------------------------------------------------
\* What each part comes to, when it is the one that moves.
SyncingGoesOn == Syncing => SyncsGoOn /\ []RetriesAreSoon
TokensConverge == Authenticating => CacheConverges /\ UsesAreForgotten
NotifyingEnds == (part = "hooks" => HooksEnd) /\ (part = "rules" => JobsEnd)
SpoolEmpties == Reporting => Agent!SpooledReportsLeave
AnalysesCatchUp == Analyzing => Analyzer!AnalysesConverge
==============================================================================

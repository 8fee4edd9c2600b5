--------------------------- MODULE MCServerWork ---------------------------
(* What follows from a change of the data and has to come to an end: the       *)
(* recalculation after a change of the security database, the scans that it    *)
(* queues for the agents, and the cached answers that such a change makes old, *)
(* checked in one run.  `part` says which of them moves; the others stand      *)
(* still.                                                                      *)
EXTENDS MCSecurityRecalc, ResponseCaches

CONSTANTS Hosts, NoHost, ReqIds, NoReq, Revs, OtherTypes, AgentOutcome,
          MaxEnqueue, MaxClock, QueueFaults  \* queue

VARIABLES part,
          requests, hosts, clock, cutoff, run, sent, faults

queueVars == <<requests, hosts, clock, cutoff, run, sent, faults>>
workVars == <<part, vars, queueVars, responseVars>>

Queue == INSTANCE ScanQueue WITH rows <- requests, MaxRevision <- Revs, MaxFaults <- QueueFaults

Recalculating == part = "recalc"
Queueing == part = "queue"
Polling == part = "responses"

MCInit ==
    /\ part \in {"recalc", "queue", "responses"}
    /\ Init /\ Queue!Init /\ InitResponseCaches
    /\ part # "responses" => watched = "stats"

\* No administrator meddles with the queue: ScanQueue is checked with one by itself.
MCNext ==
    /\ UNCHANGED part
    /\ \/ Recalculating /\ Next /\ UNCHANGED <<queueVars, responseVars>>
       \/ Queueing /\ Queue!SystemStep /\ UNCHANGED <<vars, responseVars>>
       \/ Polling /\ NextResponseCaches /\ UNCHANGED <<vars, queueVars>>

-----------------------------------------------------------------------------
(* The fairness of SecurityRecalc, ScanQueue and ResponseCaches, each while it *)
(* moves.                                                                      *)

MCFairness ==
    /\ \A w \in Writers :
         WF_vars(Recalculating /\ (BundleTrivyLoaded(w) \/ BundleTrivyFails(w)
                                     \/ SyncSucceeds(w) \/ SyncFails(w)
                                     \/ SecurityDatabaseUpdated(w)))
    /\ \A g \in Goroutines : /\ WF_vars(Recalculating /\ PassStep(g))
                             /\ WF_vars(Recalculating /\ RescanStep(g))
    /\ \A h \in Hosts :
         /\ WF_queueVars(Queueing /\ \E answer \in ReqIds \cup {NoReq} :
                                        Queue!HandleClaimScanRequest(h, {}, answer, FALSE))
         /\ WF_queueVars(Queueing /\ \E o \in AgentOutcome : Queue!FinishRun(h, o))
    /\ WF_queueVars(Queueing /\ \E m \in sent : Queue!HandleCompleteScanRequest(m))
    /\ WF_queueVars(Queueing /\ Queue!ClaimsTimeOut)
    /\ \A p \in Pollers : WF_responseVars(Polling /\ PollStep(p))
    /\ \A key \in Keys : WF_responseVars(Polling /\ ResponseExpires(key))

MCSpec == MCInit /\ [][MCNext]_workVars /\ MCFairness

\* What the queue and the answers come to, when they are the ones that move.
RequestsSettle == Queueing => Queue!EveryRequestSettles
ResponsesAgree == Polling => OldAnswersEnd
===============================================================================

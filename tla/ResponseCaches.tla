--------------------------- MODULE ResponseCaches ----------------------------
(***************************************************************************)
(* The caches of whole answers: the responses of the dashboard, of health  *)
(* and of the graph (internal/server/api/response_cache.go), the metrics   *)
(* (admin.go), and the statistics of the reference-key index               *)
(* (internal/server/db/cvedb.go).  All of them are looked up, computed     *)
(* without a lock, and put; an event that changes what they summarize      *)
(* empties some of them.  Nothing tells a computation that was begun       *)
(* before such an event, so an old answer may be put after it: it lives as *)
(* long as any other.  The caches have nothing in common: one is watched.  *)
(***************************************************************************)
EXTENDS Naturals, FiniteSets

CONSTANTS
    Pollers,     \* requests
    Scopes,      \* the scopes (and parameters) that make up a key
    MaxEntries,  \* the size that empties a responseCache
    MaxUpdates   \* bound: changes of what is summarized

VARIABLES
    watched,    \* the cache that is modelled
    summarized, \* how often what the answers summarize has changed
    responses,  \* its entries
    poll        \* what the requests are doing

responseVars == <<watched, summarized, responses, poll>>

\* statsCache, healthCache and graphCache, adminMetricsCacheBody, cveIndexStatsCache
Kinds == {"stats", "health", "graph", "metrics", "index"}

\* graphScopeKey and statsCacheKey: one key per scope.  The others have one
\* key each.
KeysOf(kind) == IF kind \in {"stats", "graph"} THEN Scopes ELSE {"all"}
Keys == Scopes \cup {"all"}

NoEntry == [value |-> 0, there |-> FALSE, live |-> FALSE]
NoPoll == [step |-> "idle", key |-> "all", value |-> 0]

ResponseCachesTypeOK ==
    /\ summarized \in 0..MaxUpdates
    /\ watched \in Kinds
    /\ responses \in [Keys -> [value: 0..MaxUpdates, there: BOOLEAN, live: BOOLEAN]]
    /\ poll \in [Pollers -> [step: {"idle", "compute", "put"}, key: Keys, value: 0..MaxUpdates]]

NoResponses == [k \in Keys |-> NoEntry]

InitResponseCaches ==
    /\ summarized = 0
    /\ watched \in Kinds /\ responses = NoResponses
    /\ poll = [p \in Pollers |-> NoPoll]

-----------------------------------------------------------------------------
\* An entry that has not expired is the answer; fresh=true and refresh=true
\* compute in any case.
LookUpResponse(p, kind, mayBypass) ==
    /\ watched = kind /\ poll[p].step = "idle"
    /\ \E key \in KeysOf(kind) :
         /\ mayBypass \/ ~responses[key].live
         /\ poll' = [poll EXCEPT ![p] = [step |-> "compute", key |-> key, value |-> 0]]
    /\ UNCHANGED <<watched, summarized, responses>>

HandleStats(p)  == LookUpResponse(p, "stats", FALSE)
HandleHealth(p) == LookUpResponse(p, "health", TRUE)
HandleGraph(p)  == LookUpResponse(p, "graph", FALSE)
ServeMetrics(p) == LookUpResponse(p, "metrics", TRUE)
GetCveReferenceKeyIndexStats(p) == LookUpResponse(p, "index", FALSE)

\* The queries see the tables of one moment; when they fail, or the context of
\* the metrics is over, nothing is put.
Compute(p) ==
    /\ poll[p].step = "compute"
    /\ \/ poll' = [poll EXCEPT ![p].step = "put", ![p].value = summarized]
       \/ poll' = [poll EXCEPT ![p] = NoPoll]
    /\ UNCHANGED <<watched, summarized, responses>>

\* A map that has outgrown its bound starts anew; expired entries count, for
\* nothing else removes them.
WithRoom ==
    IF /\ watched \in {"stats", "health", "graph"}
       /\ Cardinality({k \in Keys : responses[k].there}) > MaxEntries
    THEN NoResponses ELSE responses

PutResponse(p) ==
    /\ poll[p].step = "put"
    /\ responses' = [WithRoom EXCEPT
            ![poll[p].key] = [value |-> poll[p].value, there |-> TRUE, live |-> TRUE]]
    /\ poll' = [poll EXCEPT ![p] = NoPoll]
    /\ UNCHANGED <<watched, summarized>>

\* Mutant: only what ClearInvalidates empties does not expire.
ResponseExpiresExceptMetrics(key) ==
    /\ watched # "metrics" /\ responses[key].live
    /\ responses' = [responses EXCEPT ![key].live = FALSE]
    /\ UNCHANGED <<watched, summarized, poll>>
ResponseExpires(key) ==
    /\ responses[key].live
    /\ responses' = [responses EXCEPT ![key].live = FALSE]
    /\ UNCHANGED <<watched, summarized, poll>>

-----------------------------------------------------------------------------
\* A report, an import, a recalculation, the rebuild of an index.
DataChanges ==
    /\ summarized < MaxUpdates /\ summarized' = summarized + 1
    /\ UNCHANGED <<watched, responses, poll>>

Drops(kinds) ==
    /\ watched \in kinds /\ responses' = NoResponses
    /\ UNCHANGED <<watched, summarized, poll>>

ReportInvalidates  == Drops({"stats", "health"})
ClearInvalidates   == Drops({"metrics"})
RebuildInvalidates == Drops({"index"})

PollStep(p) == Compute(p) \/ PutResponse(p)
Polls(p) ==
    \/ HandleStats(p) \/ HandleHealth(p) \/ HandleGraph(p) \/ ServeMetrics(p)
    \/ GetCveReferenceKeyIndexStats(p)

NextResponseCaches ==
    \/ \E p \in Pollers : Polls(p) \/ PollStep(p)
    \/ \E key \in Keys : ResponseExpires(key)
    \/ DataChanges \/ ReportInvalidates \/ ClearInvalidates \/ RebuildInvalidates

FairResponseCaches ==
    /\ \A p \in Pollers : WF_responseVars(PollStep(p))
    /\ \A key \in Keys : WF_responseVars(ResponseExpires(key))

\* However computations and invalidations overlap, an old answer does not stay:
\* when nothing changes any more, every live entry comes to be current.
OldAnswersEnd ==
    <>[](\A key \in Keys : responses[key].live => responses[key].value = summarized)
==============================================================================

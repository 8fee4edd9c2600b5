----------------------------- MODULE StatsCache ------------------------------
(***************************************************************************)
(* The two caches of facts about the security database that one            *)
(* computation fills for everybody (internal/server/api/cvedb.go): the     *)
(* statistics of the CVE database, served stale while a goroutine builds   *)
(* them anew, and the revision of the database, which the statistics and   *)
(* most of the other answers carry.                                        *)
(*                                                                         *)
(* A fact is the number of commits that the tables had when it was read.   *)
(* clearCveStatsCache empties both caches under the lock of the first, and *)
(* is one step here: what happens to the second between the two can as     *)
(* well have happened before.                                              *)
(***************************************************************************)
EXTENDS Integers, FiniteSets

CONSTANTS
    StatsClients,  \* requests that want the statistics or the revision
    Importers,     \* requests and goroutines that change the tables
    Refresher,     \* the goroutine of startCveStatsBackgroundBuild
    MaxCommits     \* bound: commits of the importers

ASSUME StatsCacheAssumption ==
    MaxCommits \in Nat /\ Refresher \notin StatsClients \cup Importers

VARIABLES
    tables,     \* how many commits the CVE tables have seen
    cleared,    \* history: the commits that the last clear came after
    generation, \* cveStatsCacheGen and securityDBRevisionCacheGen
    stats,      \* cveStatsCacheJSON: its age, and what it was built from
    building,   \* cveStatsInflight
    statsWaiters,
    revision,   \* securityDBRevisionCacheMeta: whether it is there, and which
    fetching,   \* securityDBRevisionInflight
    revisionWaiters,
    asker         \* what the requests and goroutines are doing

statsVars == <<tables, cleared, generation, stats, building, statsWaiters,
               revision, fetching, revisionWaiters, asker>>

Actors == StatsClients \cup Importers \cup {Refresher}
Commits == 0..MaxCommits
Unread == -1     \* not read yet
Unknown == -2    \* the query failed

NoErrand == [step |-> "idle", ask |-> "no", read |-> Unread, rev |-> Unread,
          gen |-> 0, revGen |-> 0]
NoStats == [age |-> "none", read |-> 0, rev |-> 0]

StatsCacheTypeOK ==
    /\ tables \in Commits /\ cleared \in Commits /\ generation \in Commits
    /\ stats \in [age: {"none", "fresh", "stale"}, read: Commits, rev: Commits \cup {Unknown}]
    /\ building \in BOOLEAN /\ fetching \in BOOLEAN
    /\ statsWaiters \in SUBSET StatsClients /\ revisionWaiters \in SUBSET Actors
    /\ revision \in [held: BOOLEAN, of: Commits]
    /\ asker \in [Actors -> [step: {"idle", "missed", "stale", "begin", "waiting", "building",
                                  "stored", "asking", "committed", "clear"},
                           ask: {"no", "ask", "wait", "fetch", "fetched", "told"},
                           read: Commits \cup {Unread, Unknown},
                           rev: Commits \cup {Unread, Unknown},
                           gen: Commits, revGen: Commits]]

InitStatsCache ==
    /\ tables = 0 /\ cleared = 0 /\ generation = 0
    /\ stats = NoStats /\ building = FALSE /\ statsWaiters = {}
    /\ revision = [held |-> FALSE, of |-> 0] /\ fetching = FALSE /\ revisionWaiters = {}
    /\ asker = [a \in Actors |-> NoErrand]

tableVars == <<tables, cleared, generation>>
statsCacheVars == <<stats, building, statsWaiters>>
revisionVars == <<revision, fetching, revisionWaiters>>

Enters(a, step) == asker' = [asker EXCEPT ![a].step = step]
Begins(a, step) == asker' = [asker EXCEPT ![a] = [NoErrand EXCEPT !.step = step, !.ask = "ask",
                                                          !.gen = generation]]
Ends(as) == asker' = [a \in Actors |-> IF a \in as THEN NoErrand ELSE asker[a]]

-----------------------------------------------------------------------------
(* securityDBRevisionMeta *)

\* The answer is in the cache, or somebody is fetching it, or this one does.
RevisionHit(a) ==
    /\ asker[a].ask = "ask" /\ revision.held
    /\ asker' = [asker EXCEPT ![a].ask = "told", ![a].rev = revision.of]
    /\ UNCHANGED <<tableVars, statsCacheVars, revisionVars>>

WaitForRevision(a) ==
    /\ asker[a].ask = "ask" /\ ~revision.held /\ fetching
    /\ revisionWaiters' = revisionWaiters \cup {a}
    /\ asker' = [asker EXCEPT ![a].ask = "wait"]
    /\ UNCHANGED <<tableVars, statsCacheVars, revision, fetching>>

BeginRevision(a) ==
    /\ asker[a].ask = "ask" /\ ~revision.held /\ ~fetching
    /\ fetching' = TRUE
    /\ asker' = [asker EXCEPT ![a].ask = "fetch", ![a].revGen = generation]
    /\ UNCHANGED <<tableVars, statsCacheVars, revision, revisionWaiters>>

\* The query of GetSecurityDBRevision sees the tables of one moment.
GetSecurityDBRevision == tables

\* It has a time limit of its own, and may fail.
FetchRevision(a) ==
    /\ asker[a].ask = "fetch"
    /\ \E rev \in {GetSecurityDBRevision, Unknown} :
         asker' = [asker EXCEPT ![a].ask = "fetched", ![a].rev = rev]
    /\ UNCHANGED <<tableVars, statsCacheVars, revisionVars>>

\* Mutant: the generation is not compared.
KeepsAnything(gen) == TRUE
\* The rule of both caches: what was begun before a clear is not kept.
Keeps(gen) == gen = generation

FinishRevision(a) ==
    /\ asker[a].ask = "fetched"
    /\ revision' = IF asker[a].rev # Unknown /\ Keeps(asker[a].revGen)
                   THEN [held |-> TRUE, of |-> asker[a].rev] ELSE revision
    /\ fetching' = FALSE /\ revisionWaiters' = {}
    /\ asker' = [b \in Actors |->
                 IF b \in revisionWaiters \cup {a}
                 THEN [asker[b] EXCEPT !.ask = "told", !.rev = asker[a].rev, !.revGen = 0]
                 ELSE asker[b]]
    /\ UNCHANGED <<tableVars, statsCacheVars>>

\* The context of one that waits ends.
GiveUpRevision(a) ==
    /\ asker[a].ask = "wait"
    /\ asker' = [asker EXCEPT ![a].ask = "told", ![a].rev = Unknown]
    /\ revisionWaiters' = revisionWaiters \ {a}
    /\ UNCHANGED <<tableVars, statsCacheVars, revision, fetching>>

\* securityDBRevisionCacheTTL
RevisionExpires ==
    /\ revision.held /\ revision' = [held |-> FALSE, of |-> 0]
    /\ UNCHANGED <<tableVars, statsCacheVars, fetching, revisionWaiters, asker>>

\* Health, exports and the rest ask for the revision alone; a request for the
\* statistics with refresh=true does too, as far as the caches are concerned.
AskRevision(c) ==
    /\ asker[c].step = "idle" /\ Begins(c, "asking")
    /\ UNCHANGED <<tableVars, statsCacheVars, revisionVars>>

AnswerRevision(c) ==
    /\ asker[c].step = "asking" /\ asker[c].ask = "told" /\ Ends({c})
    /\ UNCHANGED <<tableVars, statsCacheVars, revisionVars>>

RevisionStep(a) ==
    \/ RevisionHit(a) \/ WaitForRevision(a) \/ BeginRevision(a)
    \/ FetchRevision(a) \/ FinishRevision(a)

-----------------------------------------------------------------------------
(* handleCveDbStats: each look at the cache takes the lock anew. *)

\* A fresh one answers at once.
MissStats(c) ==
    /\ asker[c].step = "idle" /\ stats.age # "fresh" /\ Enters(c, "missed")
    /\ UNCHANGED <<tableVars, statsCacheVars, revisionVars>>

LookForStale(c) ==
    /\ asker[c].step = "missed"
    /\ Enters(c, IF stats.age = "stale" THEN "stale" ELSE "begin")
    /\ UNCHANGED <<tableVars, statsCacheVars, revisionVars>>

\* The stale answer is given; whoever finds nobody building starts the goroutine.
ServeStale(c) ==
    /\ asker[c].step = "stale"
    /\ building' = TRUE
    /\ asker' = [asker EXCEPT ![c] = NoErrand,
                          ![Refresher] = IF building THEN @
                                         ELSE [NoErrand EXCEPT !.step = "building", !.ask = "ask",
                                                            !.gen = generation]]
    /\ UNCHANGED <<tableVars, stats, statsWaiters, revisionVars>>

BeginOrWait(c) ==
    /\ asker[c].step = "begin"
    /\ IF building
       THEN /\ statsWaiters' = statsWaiters \cup {c} /\ Enters(c, "waiting")
            /\ UNCHANGED building
       ELSE /\ building' = TRUE /\ Begins(c, "building")
            /\ UNCHANGED statsWaiters
    /\ UNCHANGED <<tableVars, stats, revisionVars>>

\* GetCveSourceStats: the query whose failure fails the build.
ReadStats(a) ==
    /\ asker[a].step = "building" /\ asker[a].read = Unread
    /\ \E read \in {tables, Unknown} : asker' = [asker EXCEPT ![a].read = read]
    /\ UNCHANGED <<tableVars, statsCacheVars, revisionVars>>

\* buildCveDbStatsBody waits for all of its queries.
Built(a) == asker[a].step = "building" /\ asker[a].read # Unread /\ asker[a].ask = "told"

StoreStats(a) ==
    /\ Built(a) /\ asker[a].read # Unknown
    /\ stats' = IF Keeps(asker[a].gen)
                THEN [age |-> "fresh", read |-> asker[a].read, rev |-> asker[a].rev] ELSE stats
    /\ Enters(a, "stored")
    /\ UNCHANGED <<tableVars, building, statsWaiters, revisionVars>>

BuildEnded(a) == asker[a].step = "stored" \/ (Built(a) /\ asker[a].read = Unknown)

\* Mutant: only a build that succeeded is finished.
FinishStatsIfStored(a) ==
    /\ BuildEnded(a)
    /\ IF asker[a].step = "stored"
       THEN building' = FALSE /\ statsWaiters' = {} /\ Ends({a} \cup statsWaiters)
       ELSE Ends({a}) /\ UNCHANGED <<building, statsWaiters>>
    /\ UNCHANGED <<tableVars, stats, revisionVars>>
\* A build that failed tells those who wait so.
FinishStats(a) ==
    /\ BuildEnded(a)
    /\ building' = FALSE /\ statsWaiters' = {}
    /\ Ends({a} \cup statsWaiters)
    /\ UNCHANGED <<tableVars, stats, revisionVars>>

\* The client goes away.
GiveUpStats(c) ==
    /\ asker[c].step = "waiting" /\ Ends({c})
    /\ statsWaiters' = statsWaiters \ {c}
    /\ UNCHANGED <<tableVars, stats, building, revisionVars>>

\* After its time the body is stale, and after BONGSU_CVE_STATS_STALE_SECONDS gone.
StatsAge ==
    /\ stats.age # "none"
    /\ stats' = IF stats.age = "fresh" THEN [stats EXCEPT !.age = "stale"] ELSE NoStats
    /\ UNCHANGED <<tableVars, building, statsWaiters, revisionVars, asker>>

StatsStep(a) ==
    \/ LookForStale(a) \/ ServeStale(a) \/ BeginOrWait(a)
    \/ ReadStats(a) \/ StoreStats(a) \/ FinishStats(a)

-----------------------------------------------------------------------------
(* What changes the tables *)

\* An import, a prune or the rebuild of an index commits.  Most of them ask
\* for the revision of their answer next, and clear the caches after that.
CommitTables(i) ==
    /\ asker[i].step = "idle" /\ tables < MaxCommits
    /\ tables' = tables + 1
    /\ \/ Begins(i, "committed")
       \/ Enters(i, "clear")
    /\ UNCHANGED <<cleared, generation, statsCacheVars, revisionVars>>

ClearCveStatsCache(i) ==
    /\ \/ asker[i].step = "clear"
       \/ asker[i].step = "committed" /\ asker[i].ask = "told"
    /\ stats' = NoStats /\ revision' = [held |-> FALSE, of |-> 0]
    /\ generation' = generation + 1 /\ cleared' = tables
    /\ Ends({i})
    /\ UNCHANGED <<tables, building, statsWaiters, fetching, revisionWaiters>>

-----------------------------------------------------------------------------
ClientStep(c) == StatsStep(c) \/ RevisionStep(c) \/ AnswerRevision(c)
ImporterStep(i) == RevisionStep(i) \/ ClearCveStatsCache(i)
RefresherStep == StatsStep(Refresher) \/ RevisionStep(Refresher)

NextStatsCache ==
    \/ \E c \in StatsClients : MissStats(c) \/ AskRevision(c) \/ ClientStep(c) \/ GiveUpStats(c)
    \/ \E i \in Importers : CommitTables(i) \/ ImporterStep(i)
    \/ \E a \in Actors : GiveUpRevision(a)
    \/ RefresherStep
    \/ StatsAge \/ RevisionExpires

StatsCacheSpec == InitStatsCache /\ [][NextStatsCache]_statsVars

-----------------------------------------------------------------------------
(* What the caches promise *)

\* Once the caches were cleared after a commit, neither holds again what was
\* read before it, though a build and a fetch may straddle the clear: the
\* generation is compared.  (The revision inside the statistics is excepted:
\* a build of the new generation may wait for a fetch of the old one.)
CachesAreFresh ==
    /\ stats.age # "none" => stats.read >= cleared
    /\ revision.held => revision.of >= cleared

\* Somebody who is not waiting himself works on what the others wait for, also
\* after a failed query, an expired entry or a clear: exactly one builds, or
\* fetches, while the flag is up, and nobody waits when it is down.
BuildsStats(a) == asker[a].step \in {"building", "stored"}
Fetches(a) == asker[a].ask \in {"fetch", "fetched"}

NobodyWaitsInVain ==
    /\ building <=> \E a \in Actors : BuildsStats(a)
    /\ fetching <=> \E a \in Actors : Fetches(a)
    /\ \A a, b \in Actors : BuildsStats(a) /\ BuildsStats(b) => a = b
    /\ \A a, b \in Actors : Fetches(a) /\ Fetches(b) => a = b
    /\ \A a \in Actors : asker[a].step = "waiting" => a \in statsWaiters /\ building
    /\ \A a \in Actors : asker[a].ask = "wait" => a \in revisionWaiters /\ fetching

StatsCacheIsSound == CachesAreFresh /\ NobodyWaitsInVain
==============================================================================

------------------------- MODULE ServerStateProofs --------------------------
(***************************************************************************)
(* Theorems about the state that the server keeps beside its requests:     *)
(* Findings, BundleCache, StatsCache, Migrations, OIDCKeys, ServerMatch and *)
(* Matching, for every number of scans, builders, requests, instances, keys *)
(* and calls, any advisories and every budget of faults, each proof of an   *)
(* inductive invariant of its own; and about VersionCompare, for every      *)
(* finite set of versions.                                                  *)
(***************************************************************************)
EXTENDS Findings, BundleCache, StatsCache, Migrations, OIDCKeys, ServerMatch,
        Matching, VersionCompare, SequenceTheorems, FiniteSetTheorems, TLAPS

-----------------------------------------------------------------------------
(* Sets of numbers.                                                        *)

\* A set of natural numbers that is not empty has a smallest element.
LEMMA SmallestIn ==
  ASSUME NEW S \in SUBSET Nat, S # {}
  PROVE  \E m \in S : \A k \in S : m <= k
  <1> DEFINE Below(k) == 0..(k - 1)
             T == {Below(k) : k \in S}
  <1>1. T \subseteq FiniteSubsetsOf(Nat)
    <2> SUFFICES ASSUME NEW k \in S PROVE Below(k) \in FiniteSubsetsOf(Nat)
      OBVIOUS
    <2>1. IsFiniteSet(Below(k)) BY FS_Interval
    <2> QED BY <2>1 DEF FiniteSubsetsOf
  <1>2. PICK x \in T : \A y \in T : <<y, x>> \notin StrictSubsetOrdering(Nat)
    <2>1. T # {}
      OBVIOUS
    <2>2. IsWellFoundedOn(StrictSubsetOrdering(Nat), FiniteSubsetsOf(Nat))
      BY FS_StrictSubsetOrderingWellFounded
    <2> HIDE DEF T
    <2> QED BY <1>1, <2>1, <2>2, WFMin
  <1>3. PICK m \in S : x = Below(m)
    OBVIOUS
  <1>4. ASSUME NEW k \in S PROVE m <= k
    <2>1. <<Below(k), Below(m)>> \notin StrictSubsetOrdering(Nat)
      BY <1>2, <1>3
    <2>2. CASE k < m
      <3>1. k \in Below(m) /\ k \notin Below(k) /\ Below(k) \subseteq Below(m)
        BY <2>2
      <3>2. Below(k) \in SUBSET Nat /\ Below(m) \in SUBSET Nat
        OBVIOUS
      <3> QED BY <2>1, <3>1, <3>2 DEF StrictSubsetOrdering
    <2> QED BY <2>2
  <1> QED BY <1>4

\* A finite set of natural numbers that is not empty has a largest element.
LEMMA LargestOf ==
  ASSUME NEW S \in SUBSET Nat, S # {}, IsFiniteSet(S)
  PROVE  \E m \in S : \A k \in S : k <= m
  <1> DEFINE Above(k) == {j \in S : j > k}
             T == {Above(k) : k \in S}
  <1>1. T \subseteq FiniteSubsetsOf(S)
    <2> SUFFICES ASSUME NEW k \in S PROVE Above(k) \in FiniteSubsetsOf(S)
      OBVIOUS
    <2>1. IsFiniteSet(Above(k)) BY FS_Subset
    <2> QED BY <2>1 DEF FiniteSubsetsOf
  <1>2. PICK x \in T : \A y \in T : <<y, x>> \notin StrictSubsetOrdering(S)
    <2>1. T # {}
      OBVIOUS
    <2>2. IsWellFoundedOn(StrictSubsetOrdering(S), FiniteSubsetsOf(S))
      BY FS_StrictSubsetOrderingWellFounded
    <2> HIDE DEF T
    <2> QED BY <1>1, <2>1, <2>2, WFMin
  <1>3. PICK m \in S : x = Above(m)
    OBVIOUS
  <1>4. ASSUME NEW k \in S PROVE k <= m
    <2>1. <<Above(k), Above(m)>> \notin StrictSubsetOrdering(S)
      <3>1. Above(k) \in T
        OBVIOUS
      <3> QED BY <1>2, <1>3, <3>1
    <2>2. CASE k > m
      <3>1. k \in Above(m) /\ k \notin Above(k) /\ Above(k) \subseteq Above(m)
        <4>1. \A j \in S : j \in Nat
          OBVIOUS
        <4>2. \A j \in S : j > k => j > m
          BY <2>2, <4>1
        <4>3. ~(k > k)
          BY <4>1
        <4> QED BY <2>2, <4>2, <4>3
      <3>2. Above(k) \in SUBSET S /\ Above(m) \in SUBSET S
        OBVIOUS
      <3> QED BY <2>1, <3>1, <3>2 DEF StrictSubsetOrdering
    <2>3. k \in Nat /\ m \in Nat
      OBVIOUS
    <2> QED BY <2>2, <2>3
  <1> QED BY <1>4

\* A set of the numbers up to n that is not empty has a largest element.
LEMMA LargestIn ==
  ASSUME NEW n \in Nat, NEW S \in SUBSET (1..n), S # {}
  PROVE  \E m \in S : \A k \in S : k <= m
  <1>1. IsFiniteSet(1..n)
    BY FS_Interval
  <1>2. IsFiniteSet(S)
    BY <1>1, FS_Subset
  <1>3. S \in SUBSET Nat
    OBVIOUS
  <1> QED BY <1>2, <1>3, LargestOf

-----------------------------------------------------------------------------
(* Findings.                                                               *)

\* The scans that are there, and the newest of them.
Live == {s \in ScanIds : scans[s].at \notin {"none", "gone"}}
Newest(s) == s \in Live /\ \A t \in Live : t <= s

\* Rows are of scans that are there, and the pass owes and finds only while it runs.
FindingsShape ==
    /\ \A s \in Used : \A t \in 1..s : t \in Used
    /\ \A f \in findings : f.scan \in Live
    /\ \A x \in summary : x[1] \in Live
    /\ pass.at = "idle" => ~owed
    /\ pass.found # {} => pass.scan \in ScanIds /\ scans[pass.scan].at \in {"done", "gone"}

\* What a scan has been found by a matcher is supported by the sources, is all there, and
\* is what its summary counts.
Supported(s) == \A f \in findings : f.scan = s /\ f.from = "cve-db" => Compatible(f.pair, Sources)
Found(s, m) == Matches(m, scans[s].packages) \subseteq Of(s)
Counted(s) == {x \in summary : x[1] = s} = {s} \X Of(s)

\* A scan whose ingest has come this far has what this far was to be done.
Fresh(s) ==
    /\ Supported(s)
    /\ scans[s].at = "cve-write" => scans[s].found = Matches("cve", scans[s].packages)
    /\ scans[s].at \in {"cpe-read", "cpe-write", "summary", "complete", "done"} => Found(s, "cve")
    /\ scans[s].at = "cpe-write" => scans[s].found = Matches("cpe", scans[s].packages)
    /\ scans[s].at \in {"summary", "complete", "done"} => Found(s, "cpe")
    /\ scans[s].at \in {"complete", "done"} => Counted(s)

\* A scan that a pass of the rematch has come to has what the pass has done so far.
Refreshed(s) ==
    /\ pass.at = "delete" =>
          pass.scan = s /\ pass.found = {f.pair : f \in {g \in StaleRematched : g.scan = s}}
    /\ pass.at \notin {"cleanup", "delete"} => Supported(s)
    /\ pass.at = "cve-write" =>
          pass.scan = s /\ pass.found = Matches("cve", scans[s].packages)
    /\ pass.at \in {"cpe-read", "cpe-write", "summaries", "rescan"} => Found(s, "cve")
    /\ pass.at = "cpe-write" =>
          pass.scan = s /\ pass.found = Matches("cpe", scans[s].packages)
    /\ pass.at \in {"summaries", "rescan"} => Found(s, "cpe")
    /\ pass.at = "rescan" => Counted(s)

\* While no pass runs and nothing has disturbed the last one, the newest scan is current.
NewestIsFresh ==
    pass.at = "idle" /\ (disturbed => ~rescan) =>
        \A s \in Live : Newest(s) => scans[s].degraded \/ Fresh(s)
\* A pass that nothing has disturbed has no ingest beside it, and refreshes the latest scan.
AloneUnlessDisturbed == pass.at # "idle" /\ ~disturbed => Ingesting = {}
PassRefreshes ==
    pass.at # "idle" /\ ~disturbed /\ ~owed => \A s \in Completed : s = Latest => Refreshed(s)

\* The inductive invariant.
FindingsInv ==
    FindingsTypeOK /\ FindingsShape /\ NewestIsFresh /\ AloneUnlessDisturbed /\ PassRefreshes

\* The latest scan is the highest of those that are completed.
LEMMA LatestIsHighest ==
  ASSUME FindingsTypeOK
  PROVE  /\ Completed = {} => Latest = 0
         /\ Completed # {} => Latest \in Completed /\ \A t \in Completed : t <= Latest
  <1>1. CASE Completed = {}
    BY <1>1 DEF Latest
  <1>2. CASE Completed # {}
    <2>1. Completed \in SUBSET (1..MaxHostScans) /\ MaxHostScans \in Nat
      BY FindingsConstants DEF Completed, ScanIds
    <2>2. \E m \in Completed : \A t \in Completed : t <= m
      BY <1>2, <2>1, LargestIn
    <2> QED BY <1>2, <2>2 DEF Latest
  <1> QED BY <1>1, <1>2

\* ... and there is one such scan only.
LEMMA HighestIsLatest ==
  ASSUME FindingsTypeOK, NEW s \in Completed, \A t \in Completed : t <= s
  PROVE  Latest = s
  <1>1. Latest \in Completed /\ \A t \in Completed : t <= Latest
    BY LatestIsHighest
  <1>2. s \in Nat /\ Latest \in Nat
    BY <1>1 DEF Completed, ScanIds
  <1> QED BY <1>1, <1>2

\* The rows that concern a scan are the same after a step.
SameRows(s) ==
    /\ \A f : f.scan = s => (f \in findings' <=> f \in findings)
    /\ \A x : x[1] = s => (x \in summary' <=> x \in summary)

\* What is found for a scan depends on its own rows only.
LEMMA OfStays ==
  ASSUME NEW s, \A f : f.scan = s => (f \in findings' <=> f \in findings)
  PROVE  Of(s)' = Of(s)
  <1>1. {g \in findings' : g.scan = s} = {g \in findings : g.scan = s}
    OBVIOUS
  <1> QED BY <1>1 DEF Of

\* What a matcher reads depends on the database only.
LEMMA MatchesStay ==
  ASSUME products' = products, NEW m, NEW P
  PROVE  Matches(m, P)' = Matches(m, P)
  BY DEF Matches, Compatible

\* A matcher finds what the database supports.
LEMMA MatchesAreSupported ==
  ASSUME NEW m \in Matchers, NEW P, NEW pair \in Matches(m, P)
  PROVE  Compatible(pair, Sources) /\ pair \in P \X Cves
  BY FindingsConstants DEF Matches, Compatible, Matchers

\* A scan whose own state and rows a step leaves alone is as fresh as it was.
LEMMA FreshStays ==
  ASSUME NEW s, products' = products, scans'[s] = scans[s], SameRows(s)
  PROVE  /\ Fresh(s) => Fresh(s)'
         /\ Supported(s) => Supported(s)'
         /\ \A m \in Matchers : Found(s, m) => Found(s, m)'
         /\ Counted(s) => Counted(s)'
  <1>1. Of(s)' = Of(s)
    BY OfStays DEF SameRows
  <1>2. PICK P : P = scans[s].packages
    OBVIOUS
  <1>3. \A m : Matches(m, P)' = Matches(m, P)
    BY MatchesStay
  <1>4. ASSUME NEW m \in Matchers, Found(s, m) PROVE Found(s, m)'
    <2>1. Matches(m, P) \subseteq Of(s)
      BY <1>2, <1>4 DEF Found
    <2>2. Matches(m, P)' \subseteq Of(s)'
      BY <1>1, <1>3, <2>1
    <2> QED BY <1>2, <2>2 DEF Found
  <1>5. ASSUME Supported(s) PROVE Supported(s)'
    BY <1>5 DEF Supported, SameRows, Compatible
  <1>6. ASSUME Counted(s) PROVE Counted(s)'
    <2>1. {x \in summary' : x[1] = s} = {x \in summary : x[1] = s}
      BY DEF SameRows
    <2> QED BY <1>1, <1>6, <2>1 DEF Counted
  <1>7. ASSUME Fresh(s) PROVE Fresh(s)'
    <2>1. \A m \in Matchers : scans[s].found = Matches(m, scans[s].packages)
             => scans'[s].found = Matches(m, scans[s].packages)'
      BY <1>2, <1>3
    <2>2. {"cve", "cpe"} = Matchers
      BY DEF Matchers
    <2> QED BY <1>4, <1>5, <1>6, <1>7, <2>1, <2>2 DEF Fresh
  <1> QED BY <1>4, <1>5, <1>6, <1>7

\* What an insertion does to the findings.
LEMMA InsertionAdds ==
  ASSUME FindingsTypeOK, NEW s \in ScanIds, NEW P \in SUBSET Pairs,
         findings' = findings \cup Inserted(s, P)
  PROVE  /\ Of(s)' = Of(s) \cup P
         /\ \A f : f.scan # s => (f \in findings' <=> f \in findings)
         /\ \A f \in findings' : f \in findings \/ f.scan = s
         /\ findings' \subseteq Finding
         /\ \A f \in findings' : f.scan = s /\ f.from = "cve-db" =>
                                   f \in findings \/ f.pair \in P
  <1>1. \A f \in Inserted(s, P) : f \in Finding /\ f.scan = s /\ f.pair \in P
    BY DEF Inserted, Finding
  <1>2. \A p \in P \ Of(s) : [scan |-> s, pair |-> p, from |-> "cve-db"] \in findings'
    BY DEF Inserted
  <1>3. ASSUME NEW p \in P \ Of(s) PROVE p \in Of(s)'
    <2>1. PICK r \in findings' : r.scan = s /\ r.pair = p
      BY <1>2
    <2> QED BY <2>1 DEF Of
  <1>4. \A p \in Of(s) : p \in Of(s)'
    BY DEF Of
  <1>5. \A p \in Of(s)' : p \in Of(s) \cup P
    BY <1>1 DEF Of
  <1>6. Of(s)' = Of(s) \cup P
    BY <1>3, <1>4, <1>5
  <1> QED BY <1>1, <1>6 DEF FindingsTypeOK

\* What a matcher finds are pairs.
LEMMA MatchesArePairs ==
  ASSUME NEW m \in Matchers, NEW P \in SUBSET Packages
  PROVE  Matches(m, P) \in SUBSET Pairs
  BY DEF Matches, Pairs

\* A step of the ingest of scan s, which touches nothing but that scan and its
\* rows, preserves the invariant, provided that it leaves a fresh scan fresh.
LEMMA IngestKeeps ==
  ASSUME FindingsInv, FindingsTypeOK', NEW s \in ScanIds,
         scans[s].at \in IngestSteps, scans'[s].at \in IngestSteps \cup {"done"},
         \A t \in ScanIds : t # s => scans'[t] = scans[t] /\ SameRows(t),
         \A f \in findings' : f \in findings \/ f.scan = s,
         \A x \in summary' : x \in summary \/ x[1] = s,
         UNCHANGED <<products, pass, owed, rescan, disturbed>>,
         scans[s].degraded => scans'[s].degraded,
         Fresh(s) => scans'[s].degraded \/ Fresh(s)'
  PROVE  FindingsInv'
  <1> USE DEF FindingsInv
  <1>1. Used' = Used /\ Live' = Live /\ s \in Live /\ s \in Ingesting
    BY DEF Used, Live, Ingesting, IngestSteps
  <1>2. FindingsShape'
    <2>1. \A t \in Used' : \A r \in 1..t : r \in Used'
      BY <1>1 DEF FindingsShape
    <2>2. \A f \in findings' : f.scan \in Live'
      BY <1>1 DEF FindingsShape
    <2>3. \A x \in summary' : x[1] \in Live'
      BY <1>1 DEF FindingsShape
    <2>4. pass'.at = "idle" => ~owed'
      BY DEF FindingsShape
    <2>5. ASSUME pass'.found # {}
          PROVE  pass'.scan \in ScanIds /\ scans'[pass'.scan].at \in {"done", "gone"}
      <3>1. pass.scan \in ScanIds /\ scans[pass.scan].at \in {"done", "gone"}
        BY <2>5 DEF FindingsShape
      <3>2. pass.scan # s
        BY <3>1 DEF IngestSteps
      <3> QED BY <3>1, <3>2
    <2> QED BY <2>1, <2>2, <2>3, <2>4, <2>5 DEF FindingsShape
  <1>3. NewestIsFresh'
    <2> SUFFICES ASSUME (pass.at = "idle" /\ (disturbed => ~rescan))', NEW t \in Live',
                        Newest(t)'
                 PROVE  (scans[t].degraded \/ Fresh(t))'
      BY DEF NewestIsFresh
    <2>1. t \in Live /\ Newest(t)
      BY <1>1 DEF Newest
    <2>2. scans[t].degraded \/ Fresh(t)
      BY <2>1 DEF NewestIsFresh
    <2>3. CASE t = s
      BY <2>2, <2>3
    <2>4. CASE t # s
      <3>1. t \in ScanIds
        BY <2>1 DEF Live
      <3> QED BY <2>2, <2>4, <3>1, FreshStays
    <2> QED BY <2>3, <2>4
  <1>4. pass.at # "idle" => disturbed
    BY <1>1 DEF AloneUnlessDisturbed
  <1>5. AloneUnlessDisturbed' /\ PassRefreshes'
    BY <1>4 DEF AloneUnlessDisturbed, PassRefreshes
  <1> QED BY <1>2, <1>3, <1>5

\* A table of scans in which one is replaced is a table of scans.
LEMMA ScanIsReplaced ==
  ASSUME NEW S \in [ScanIds -> Scan], NEW s \in ScanIds, NEW r \in Scan
  PROVE  /\ [S EXCEPT ![s] = r] \in [ScanIds -> Scan]
         /\ [S EXCEPT ![s] = r][s] = r
         /\ \A t \in ScanIds : t # s => [S EXCEPT ![s] = r][t] = S[t]
  OBVIOUS

\* What the three kinds of steps of a report do to its scan: one moves it on, ...
LEMMA ScanGoesOn ==
  ASSUME scans \in [ScanIds -> Scan], NEW s \in ScanIds,
         NEW at \in IngestSteps \cup {"done"},
         scans' = [scans EXCEPT ![s].at = at]
  PROVE  /\ scans' \in [ScanIds -> Scan]
         /\ \A t \in ScanIds : t # s => scans'[t] = scans[t]
         /\ scans'[s].at = at /\ scans'[s].packages = scans[s].packages
         /\ scans'[s].found = scans[s].found /\ scans'[s].degraded = scans[s].degraded
  <1>1. scans[s] \in Scan
    OBVIOUS
  <1> DEFINE r == [scans[s] EXCEPT !.at = at]
  <1>2. r \in Scan
    BY <1>1 DEF Scan
  <1>3. r.at = at /\ r.packages = scans[s].packages /\ r.found = scans[s].found /\ r.degraded = scans[s].degraded
    BY <1>1 DEF Scan
  <1>4. scans' = [scans EXCEPT ![s] = r]
    OBVIOUS
  <1> HIDE DEF r
  <1>5. /\ [scans EXCEPT ![s] = r] \in [ScanIds -> Scan]
        /\ [scans EXCEPT ![s] = r][s] = r
        /\ \A t \in ScanIds : t # s => [scans EXCEPT ![s] = r][t] = scans[t]
    BY <1>2, ScanIsReplaced, Zenon
  <1>6. scans' \in [ScanIds -> Scan] /\ scans'[s] = r /\ \A t \in ScanIds : t # s => scans'[t] = scans[t]
    BY <1>4, <1>5, Zenon
  <1> QED BY <1>3, <1>6, Zenon

\* ... one keeps what was read, or has written it, ...
LEMMA ScanReads ==
  ASSUME scans \in [ScanIds -> Scan], NEW s \in ScanIds,
         NEW at \in IngestSteps \cup {"done"}, NEW F \in SUBSET Pairs,
         scans' = [scans EXCEPT ![s].at = at, ![s].found = F]
  PROVE  /\ scans' \in [ScanIds -> Scan]
         /\ \A t \in ScanIds : t # s => scans'[t] = scans[t]
         /\ scans'[s].at = at /\ scans'[s].packages = scans[s].packages
         /\ scans'[s].found = F /\ scans'[s].degraded = scans[s].degraded
  <1>1. scans[s] \in Scan
    OBVIOUS
  <1> DEFINE r == [scans[s] EXCEPT !.at = at, !.found = F]
  <1>2. r \in Scan
    BY <1>1 DEF Scan
  <1>3. r.at = at /\ r.packages = scans[s].packages /\ r.found = F /\ r.degraded = scans[s].degraded
    BY <1>1 DEF Scan
  <1>4. scans' = [scans EXCEPT ![s] = r]
    OBVIOUS
  <1> HIDE DEF r
  <1>5. /\ [scans EXCEPT ![s] = r] \in [ScanIds -> Scan]
        /\ [scans EXCEPT ![s] = r][s] = r
        /\ \A t \in ScanIds : t # s => [scans EXCEPT ![s] = r][t] = scans[t]
    BY <1>2, ScanIsReplaced, Zenon
  <1>6. scans' \in [ScanIds -> Scan] /\ scans'[s] = r /\ \A t \in ScanIds : t # s => scans'[t] = scans[t]
    BY <1>4, <1>5, Zenon
  <1> QED BY <1>3, <1>6, Zenon

\* ... and one degrades it.
LEMMA ScanDegrades ==
  ASSUME scans \in [ScanIds -> Scan], NEW s \in ScanIds,
         NEW at \in IngestSteps \cup {"done"}, NEW F \in SUBSET Pairs,
         scans' = [scans EXCEPT ![s].at = at, ![s].found = F, ![s].degraded = TRUE]
  PROVE  /\ scans' \in [ScanIds -> Scan]
         /\ \A t \in ScanIds : t # s => scans'[t] = scans[t]
         /\ scans'[s].at = at /\ scans'[s].packages = scans[s].packages
         /\ scans'[s].found = F /\ scans'[s].degraded = TRUE
  <1>1. scans[s] \in Scan
    OBVIOUS
  <1> DEFINE r == [scans[s] EXCEPT !.at = at, !.found = F, !.degraded = TRUE]
  <1>2. r \in Scan
    BY <1>1 DEF Scan
  <1>3. r.at = at /\ r.packages = scans[s].packages /\ r.found = F /\ r.degraded = TRUE
    BY <1>1 DEF Scan
  <1>4. scans' = [scans EXCEPT ![s] = r]
    OBVIOUS
  <1> HIDE DEF r
  <1>5. /\ [scans EXCEPT ![s] = r] \in [ScanIds -> Scan]
        /\ [scans EXCEPT ![s] = r][s] = r
        /\ \A t \in ScanIds : t # s => [scans EXCEPT ![s] = r][t] = scans[t]
    BY <1>2, ScanIsReplaced, Zenon
  <1>6. scans' \in [ScanIds -> Scan] /\ scans'[s] = r /\ \A t \in ScanIds : t # s => scans'[t] = scans[t]
    BY <1>4, <1>5, Zenon
  <1> QED BY <1>3, <1>6, Zenon

\* A step that adds nothing for other scans leaves their rows as they were.
LEMMA OthersRows ==
  ASSUME NEW s, \A f : f.scan # s => (f \in findings' <=> f \in findings), summary' = summary
  PROVE  \A t : t # s => SameRows(t)
  BY DEF SameRows

\* handleReport reads for a matcher.
LEMMA IngestReadKeeps ==
  ASSUME FindingsInv, NEW s \in ScanIds, NEW m \in Matchers, IngestRead(s, m)
  PROVE  FindingsInv'
  <1> USE DEF FindingsInv
  <1> DEFINE F == Matches(m, scans[s].packages)
  <1>0. m = "cve" \/ m = "cpe"
    BY DEF Matchers
  <1>1. scans[s] \in Scan /\ F \in SUBSET Pairs
    BY MatchesArePairs DEF FindingsTypeOK, Scan
  <1>2. scans' = [scans EXCEPT ![s].at = AfterRead(m), ![s].found = F]
    BY DEF IngestRead
  <1>3. AfterRead(m) \in IngestSteps /\ scans[s].at \in IngestSteps /\ scans[s].degraded \in BOOLEAN
    BY <1>0, <1>1 DEF IngestRead, AfterRead, ReadStep, IngestSteps, Scan
  <1> HIDE DEF F
  <1>4. /\ scans' \in [ScanIds -> Scan]
        /\ \A t \in ScanIds : t # s => scans'[t] = scans[t]
        /\ scans'[s].at = AfterRead(m) /\ scans'[s].found = F
        /\ scans'[s].degraded = scans[s].degraded
        /\ scans'[s].packages = scans[s].packages
    <2>1. scans \in [ScanIds -> Scan]
      BY DEF FindingsTypeOK
    <2>2. PICK at \in IngestSteps \cup {"done"} : at = AfterRead(m)
      BY <1>3
    <2>3. scans' = [scans EXCEPT ![s].at = at, ![s].found = F]
      BY <1>2, <2>2
    <2>4. F \in SUBSET Pairs
      BY <1>1
    <2>5. /\ scans' \in [ScanIds -> Scan]
          /\ \A t \in ScanIds : t # s => scans'[t] = scans[t]
          /\ scans'[s].at = at /\ scans'[s].packages = scans[s].packages
          /\ scans'[s].found = F /\ scans'[s].degraded = scans[s].degraded
      BY <2>1, <2>3, <2>4, ScanReads, Zenon
    <2> QED BY <2>2, <2>5
  <1>5. /\ UNCHANGED <<products, findings, summary, pass, owed, rescan, disturbed>>
        /\ UNCHANGED <<imports, reports, matchFaults>>
    BY DEF IngestRead
  <1>6. FindingsTypeOK'
    BY <1>4, <1>5 DEF FindingsTypeOK
  <1>7. \A t \in ScanIds : SameRows(t)
    BY <1>5 DEF SameRows
  <1>8. ASSUME Fresh(s) PROVE Fresh(s)'
    <2>1. PICK P : P = scans[s].packages
      OBVIOUS
    <2>2. scans'[s].packages = P
      BY <1>4, <2>1
    <2>3. \A n : Matches(n, P)' = Matches(n, P)
      BY <1>5, MatchesStay
    <2>4. Of(s)' = Of(s)
      BY <1>7, OfStays DEF SameRows
    <2>5. Supported(s)'
      BY <1>5, <1>8 DEF Fresh, Supported, Compatible
    <2>6. m = "cpe" => Matches("cve", P) \subseteq Of(s)
      BY <1>8, <2>1 DEF Fresh, Found, IngestRead, ReadStep
    <2>7. m = "cpe" => Found(s, "cve")'
      <3>1. m = "cpe" => Matches("cve", P)' \subseteq Of(s)'
        BY <2>3, <2>4, <2>6
      <3> QED BY <2>2, <3>1 DEF Found
    <2>8. scans'[s].found = Matches(m, P)'
      BY <1>4, <2>1, <2>3 DEF F
    <2>9. scans'[s].found = Matches(m, scans[s].packages)'
      BY <2>2, <2>8
    <2>10. CASE m = "cve"
      <3>1. scans'[s].at = "cve-write"
        BY <1>4, <2>10 DEF AfterRead
      <3> QED BY <2>5, <2>9, <2>10, <3>1 DEF Fresh
    <2>11. CASE m = "cpe"
      <3>1. scans'[s].at = "cpe-write"
        BY <1>4, <2>11 DEF AfterRead
      <3> QED BY <2>5, <2>7, <2>9, <2>11, <3>1 DEF Fresh
    <2> QED BY <1>0, <2>10, <2>11
  <1>9. /\ \A t \in ScanIds : t # s => scans'[t] = scans[t] /\ SameRows(t)
        /\ \A f \in findings' : f \in findings \/ f.scan = s
        /\ \A x \in summary' : x \in summary \/ x[1] = s
        /\ scans[s].degraded => scans'[s].degraded
        /\ Fresh(s) => scans'[s].degraded \/ Fresh(s)'
        /\ scans'[s].at \in IngestSteps \cup {"done"}
    BY <1>3, <1>4, <1>5, <1>7, <1>8
  <1> HIDE DEF FindingsInv
  <1> QED BY <1>3, <1>5, <1>6, <1>9, IngestKeeps

\* handleReport inserts what it has read for a matcher.
LEMMA IngestWriteKeeps ==
  ASSUME FindingsInv, NEW s \in ScanIds, NEW m \in Matchers, IngestWrite(s, m)
  PROVE  FindingsInv'
  <1> USE DEF FindingsInv
  <1>0. m = "cve" \/ m = "cpe"
    BY DEF Matchers
  <1>1. scans[s] \in Scan /\ scans[s].found \in SUBSET Pairs /\ scans \in [ScanIds -> Scan]
    BY DEF FindingsTypeOK, Scan
  <1>2. PICK at \in IngestSteps \cup {"done"} : at = AfterWrite(m)
    BY <1>0 DEF AfterWrite, IngestSteps
  <1>3. scans[s].at \in IngestSteps /\ scans[s].at = AfterRead(m) /\ at \in IngestSteps
    BY <1>0, <1>2 DEF IngestWrite, AfterRead, AfterWrite, IngestSteps
  <1>4. scans' = [scans EXCEPT ![s].at = at, ![s].found = {}]
    BY <1>2 DEF IngestWrite
  <1>5. /\ scans' \in [ScanIds -> Scan]
        /\ \A t \in ScanIds : t # s => scans'[t] = scans[t]
        /\ scans'[s].at = at /\ scans'[s].packages = scans[s].packages
        /\ scans'[s].found = {} /\ scans'[s].degraded = scans[s].degraded
    <2>1. {} \in SUBSET Pairs
      OBVIOUS
    <2> QED BY <1>1, <1>4, <2>1, ScanReads, Zenon
  <1>6. /\ UNCHANGED <<products, summary, pass, owed, rescan, disturbed>>
        /\ UNCHANGED <<imports, reports, matchFaults>>
    BY DEF IngestWrite
  <1>7. findings' = findings \cup Inserted(s, scans[s].found)
    BY DEF IngestWrite
  <1>8. /\ Of(s)' = Of(s) \cup scans[s].found
        /\ \A f : f.scan # s => (f \in findings' <=> f \in findings)
        /\ \A f \in findings' : f \in findings \/ f.scan = s
        /\ findings' \subseteq Finding
        /\ \A f \in findings' : f.scan = s /\ f.from = "cve-db" =>
                                  f \in findings \/ f.pair \in scans[s].found
    <2>1. PICK F \in SUBSET Pairs : F = scans[s].found
      BY <1>1
    <2>2. findings' = findings \cup Inserted(s, F)
      BY <1>7, <2>1
    <2>3. /\ Of(s)' = Of(s) \cup F
          /\ \A f : f.scan # s => (f \in findings' <=> f \in findings)
          /\ \A f \in findings' : f \in findings \/ f.scan = s
          /\ findings' \subseteq Finding
          /\ \A f \in findings' : f.scan = s /\ f.from = "cve-db" =>
                                    f \in findings \/ f.pair \in F
      BY <2>2, InsertionAdds
    <2> QED BY <2>1, <2>3
  <1>9. FindingsTypeOK'
    BY <1>5, <1>6, <1>8 DEF FindingsTypeOK
  <1>10. \A t \in ScanIds : t # s => SameRows(t)
    BY <1>6, <1>8 DEF SameRows
  <1>11. ASSUME Fresh(s) PROVE Fresh(s)'
    <2>1. PICK P : P = scans[s].packages
      OBVIOUS
    <2>2. scans'[s].packages = P
      BY <1>5, <2>1
    <2>3. \A n : Matches(n, P)' = Matches(n, P)
      BY <1>6, MatchesStay
    <2>4. scans[s].found = Matches(m, P)
      BY <1>0, <1>3, <1>11, <2>1 DEF Fresh, AfterRead
    <2>5. Supported(s)'
      <3>1. \A pair \in scans[s].found : Compatible(pair, Sources)
        BY <2>4, MatchesAreSupported
      <3>2. ASSUME NEW f \in findings', f.scan = s, f.from = "cve-db"
            PROVE  Compatible(f.pair, Sources)
        BY <1>8, <1>11, <3>1, <3>2 DEF Fresh, Supported
      <3> QED BY <1>6, <3>2 DEF Supported, Compatible
    <2>6. Found(s, m)'
      <3>1. Matches(m, P)' \subseteq Of(s)'
        BY <1>8, <2>3, <2>4
      <3> QED BY <2>2, <3>1 DEF Found
    <2>7. CASE m = "cve"
      <3>1. scans'[s].at = "cpe-read"
        BY <1>2, <1>5, <2>7 DEF AfterWrite
      <3> QED BY <2>5, <2>6, <2>7, <3>1 DEF Fresh
    <2>8. CASE m = "cpe"
      <3>1. scans'[s].at = "summary"
        BY <1>2, <1>5, <2>8 DEF AfterWrite
      <3>2. Matches("cve", P) \subseteq Of(s)
        BY <1>3, <1>11, <2>1, <2>8 DEF Fresh, Found, AfterRead
      <3>3. Matches("cve", P)' \subseteq Of(s)'
        BY <1>8, <2>3, <3>2
      <3>4. Found(s, "cve")'
        BY <2>2, <3>3 DEF Found
      <3> QED BY <2>5, <2>6, <2>8, <3>1, <3>4 DEF Fresh
    <2> QED BY <1>0, <2>7, <2>8
  <1>12. /\ \A t \in ScanIds : t # s => scans'[t] = scans[t] /\ SameRows(t)
         /\ \A f \in findings' : f \in findings \/ f.scan = s
         /\ \A x \in summary' : x \in summary \/ x[1] = s
         /\ scans[s].degraded => scans'[s].degraded
         /\ Fresh(s) => scans'[s].degraded \/ Fresh(s)'
         /\ scans'[s].at \in IngestSteps \cup {"done"}
    BY <1>3, <1>5, <1>6, <1>8, <1>10, <1>11
  <1> HIDE DEF FindingsInv
  <1> QED BY <1>3, <1>6, <1>9, <1>12, IngestKeeps

\* A matcher fails, and the scan is degraded.
LEMMA IngestMatchFailsKeeps ==
  ASSUME FindingsInv, NEW s \in ScanIds, NEW m \in Matchers, IngestMatchFails(s, m)
  PROVE  FindingsInv'
  <1> USE DEF FindingsInv
  <1>0. m = "cve" \/ m = "cpe"
    BY DEF Matchers
  <1>1. scans[s] \in Scan /\ scans \in [ScanIds -> Scan]
    BY DEF FindingsTypeOK
  <1>2. PICK at \in IngestSteps \cup {"done"} : at = AfterWrite(m)
    BY <1>0 DEF AfterWrite, IngestSteps
  <1>3. scans[s].at \in IngestSteps
    BY <1>0 DEF IngestMatchFails, ReadStep, AfterRead, IngestSteps
  <1>4. scans' = [scans EXCEPT ![s].at = at, ![s].found = {}, ![s].degraded = TRUE]
    BY <1>2 DEF IngestMatchFails
  <1>5. /\ scans' \in [ScanIds -> Scan]
        /\ \A t \in ScanIds : t # s => scans'[t] = scans[t]
        /\ scans'[s].at = at /\ scans'[s].packages = scans[s].packages
        /\ scans'[s].found = {} /\ scans'[s].degraded = TRUE
    <2>1. {} \in SUBSET Pairs
      OBVIOUS
    <2> QED BY <1>1, <1>4, <2>1, ScanDegrades, Zenon
  <1>6. /\ UNCHANGED <<products, findings, summary, pass, owed, rescan, disturbed>>
        /\ UNCHANGED <<imports, reports>>
        /\ matchFaults' \in 0..MatchFaults
    BY FindingsConstants DEF IngestMatchFails, FindingsTypeOK
  <1>7. FindingsTypeOK'
    BY <1>5, <1>6 DEF FindingsTypeOK
  <1>8. /\ \A t \in ScanIds : t # s => scans'[t] = scans[t] /\ SameRows(t)
        /\ \A f \in findings' : f \in findings \/ f.scan = s
        /\ \A x \in summary' : x \in summary \/ x[1] = s
        /\ scans[s].degraded => scans'[s].degraded
        /\ Fresh(s) => scans'[s].degraded \/ Fresh(s)'
        /\ scans'[s].at \in IngestSteps \cup {"done"}
    BY <1>5, <1>6 DEF SameRows
  <1> HIDE DEF FindingsInv
  <1> QED BY <1>3, <1>6, <1>7, <1>8, IngestKeeps

\* handleReport counts the findings of its scan.
LEMMA SummaryKeeps ==
  ASSUME FindingsInv, NEW s \in ScanIds, RebuildPackageVulnerabilitySummariesForScan(s)
  PROVE  FindingsInv'
  <1> USE DEF FindingsInv
  <1>1. scans[s] \in Scan /\ scans \in [ScanIds -> Scan]
    BY DEF FindingsTypeOK
  <1>2. PICK at \in IngestSteps \cup {"done"} : at = "complete"
    BY DEF IngestSteps
  <1>3. scans[s].at \in IngestSteps /\ at \in IngestSteps /\ scans[s].at = "summary"
    BY <1>2 DEF RebuildPackageVulnerabilitySummariesForScan, IngestSteps
  <1>4. scans' = [scans EXCEPT ![s].at = at]
    BY <1>2 DEF RebuildPackageVulnerabilitySummariesForScan
  <1>5. /\ scans' \in [ScanIds -> Scan]
        /\ \A t \in ScanIds : t # s => scans'[t] = scans[t]
        /\ scans'[s].at = at /\ scans'[s].packages = scans[s].packages
        /\ scans'[s].found = scans[s].found /\ scans'[s].degraded = scans[s].degraded
    BY <1>1, <1>4, ScanGoesOn, Zenon
  <1>6. /\ UNCHANGED <<products, findings, pass, owed, rescan, disturbed>>
        /\ UNCHANGED <<imports, reports, matchFaults>>
        /\ summary' = Summarised(s)
    BY DEF RebuildPackageVulnerabilitySummariesForScan
  <1>7. Of(s) \subseteq Pairs
    BY DEF Of, FindingsTypeOK, Finding
  <1>8. /\ summary' \subseteq ScanIds \X Pairs
        /\ \A x \in summary' : x \in summary \/ x[1] = s
        /\ \A x : x[1] # s => (x \in summary' <=> x \in summary)
    BY <1>6, <1>7 DEF Summarised, FindingsTypeOK
  <1>9. {x \in summary' : x[1] = s} = {s} \X Of(s)
    BY <1>6, <1>7 DEF Summarised, FindingsTypeOK
  <1>10. FindingsTypeOK'
    BY <1>5, <1>6, <1>8 DEF FindingsTypeOK
  <1>11. ASSUME Fresh(s) PROVE Fresh(s)'
    <2>1. PICK P : P = scans[s].packages
      OBVIOUS
    <2>2. scans'[s].packages = P
      BY <1>5, <2>1
    <2>3. \A n : Matches(n, P)' = Matches(n, P)
      BY <1>6, MatchesStay
    <2>4. Of(s)' = Of(s)
      BY <1>6 DEF Of
    <2>5. Matches("cve", P) \subseteq Of(s) /\ Matches("cpe", P) \subseteq Of(s)
      BY <1>3, <1>11, <2>1 DEF Fresh, Found
    <2>6. Matches("cve", P)' \subseteq Of(s)' /\ Matches("cpe", P)' \subseteq Of(s)'
      BY <2>3, <2>4, <2>5
    <2>7. Found(s, "cve")' /\ Found(s, "cpe")'
      BY <2>2, <2>6 DEF Found
    <2>8. Supported(s)'
      BY <1>6, <1>11 DEF Fresh, Supported, Compatible
    <2>9. Counted(s)'
      BY <1>9, <2>4 DEF Counted
    <2>10. scans'[s].at = "complete"
      BY <1>2, <1>5
    <2> QED BY <2>7, <2>8, <2>9, <2>10 DEF Fresh
  <1>12. /\ \A t \in ScanIds : t # s => scans'[t] = scans[t] /\ SameRows(t)
         /\ \A f \in findings' : f \in findings \/ f.scan = s
         /\ scans[s].degraded => scans'[s].degraded
         /\ Fresh(s) => scans'[s].degraded \/ Fresh(s)'
         /\ scans'[s].at \in IngestSteps \cup {"done"}
    BY <1>3, <1>5, <1>6, <1>8, <1>11 DEF SameRows
  <1> HIDE DEF FindingsInv
  <1> QED BY <1>3, <1>6, <1>8, <1>10, <1>12, IngestKeeps

\* The scan is completed.
LEMMA CompleteKeeps ==
  ASSUME FindingsInv, NEW s \in ScanIds, CompleteScan(s)
  PROVE  FindingsInv'
  <1> USE DEF FindingsInv
  <1>1. scans[s] \in Scan /\ scans \in [ScanIds -> Scan]
    BY DEF FindingsTypeOK
  <1>2. PICK at \in IngestSteps \cup {"done"} : at = "done"
    BY DEF IngestSteps
  <1>3. scans[s].at \in IngestSteps /\ scans[s].at = "complete"
    BY DEF CompleteScan, IngestSteps
  <1>4. scans' = [scans EXCEPT ![s].at = at]
    BY <1>2 DEF CompleteScan
  <1>5. /\ scans' \in [ScanIds -> Scan]
        /\ \A t \in ScanIds : t # s => scans'[t] = scans[t]
        /\ scans'[s].at = at /\ scans'[s].packages = scans[s].packages
        /\ scans'[s].found = scans[s].found /\ scans'[s].degraded = scans[s].degraded
    BY <1>1, <1>4, ScanGoesOn, Zenon
  <1>6. /\ UNCHANGED <<products, findings, summary, pass, owed, rescan, disturbed>>
        /\ UNCHANGED <<imports, reports, matchFaults>>
    BY DEF CompleteScan
  <1>7. FindingsTypeOK'
    BY <1>5, <1>6 DEF FindingsTypeOK
  <1>8. ASSUME Fresh(s) PROVE Fresh(s)'
    <2>1. PICK P : P = scans[s].packages
      OBVIOUS
    <2>2. scans'[s].packages = P
      BY <1>5, <2>1
    <2>3. \A n : Matches(n, P)' = Matches(n, P)
      BY <1>6, MatchesStay
    <2>4. Of(s)' = Of(s)
      BY <1>6 DEF Of
    <2>5. Matches("cve", P) \subseteq Of(s) /\ Matches("cpe", P) \subseteq Of(s)
      BY <1>3, <1>8, <2>1 DEF Fresh, Found
    <2>6. Matches("cve", P)' \subseteq Of(s)' /\ Matches("cpe", P)' \subseteq Of(s)'
      BY <2>3, <2>4, <2>5
    <2>7. Found(s, "cve")' /\ Found(s, "cpe")'
      BY <2>2, <2>6 DEF Found
    <2>8. Supported(s)'
      BY <1>6, <1>8 DEF Fresh, Supported, Compatible
    <2>9. Counted(s)'
      BY <1>3, <1>6, <1>8, <2>4 DEF Fresh, Counted
    <2>10. scans'[s].at = "done"
      BY <1>2, <1>5
    <2> QED BY <2>7, <2>8, <2>9, <2>10 DEF Fresh
  <1>9. /\ \A t \in ScanIds : t # s => scans'[t] = scans[t] /\ SameRows(t)
        /\ \A f \in findings' : f \in findings \/ f.scan = s
        /\ \A x \in summary' : x \in summary \/ x[1] = s
        /\ scans[s].degraded => scans'[s].degraded
        /\ Fresh(s) => scans'[s].degraded \/ Fresh(s)'
        /\ scans'[s].at \in IngestSteps \cup {"done"}
    BY <1>2, <1>5, <1>6, <1>8 DEF SameRows
  <1> HIDE DEF FindingsInv
  <1> QED BY <1>3, <1>6, <1>7, <1>9, IngestKeeps

\* A report begins: the new scan is the newest, has nothing but what was brought, and
\* disturbs a pass that is running.
LEMMA BeginIngestKeeps ==
  ASSUME FindingsInv, NEW s \in ScanIds, BeginIngest(s), rescan' \in BOOLEAN,
         reports' \in 0..MaxReports
  PROVE  FindingsInv'
  <1> USE DEF FindingsInv
  <1>1. PICK pkgs \in SUBSET Packages : \E brought \in SUBSET (pkgs \X Cves) :
           /\ scans' = [scans EXCEPT ![s] = [NoScan EXCEPT !.at = "cve-read", !.packages = pkgs]]
           /\ findings' = findings \cup {[scan |-> s, pair |-> p, from |-> "scanner"] : p \in brought}
    BY DEF BeginIngest
  <1>2. PICK brought \in SUBSET (pkgs \X Cves) :
           /\ scans' = [scans EXCEPT ![s] = [NoScan EXCEPT !.at = "cve-read", !.packages = pkgs]]
           /\ findings' = findings \cup {[scan |-> s, pair |-> p, from |-> "scanner"] : p \in brought}
    BY <1>1
  <1>3. PICK r : r = [NoScan EXCEPT !.at = "cve-read", !.packages = pkgs]
    OBVIOUS
  <1>4. r \in Scan /\ r.at = "cve-read" /\ r.packages = pkgs
    BY <1>3 DEF NoScan, Scan, IngestSteps
  <1>5. /\ scans' \in [ScanIds -> Scan]
        /\ scans'[s] = r
        /\ \A t \in ScanIds : t # s => scans'[t] = scans[t]
    BY <1>2, <1>3, <1>4 DEF FindingsTypeOK
  <1>6. /\ UNCHANGED <<products, summary, pass, owed, imports, matchFaults>>
        /\ disturbed' = (disturbed \/ pass.at # "idle")
        /\ s \notin Used /\ \A t \in 1..(s - 1) : t \in Used
    BY DEF BeginIngest
  <1>7. /\ findings' \subseteq Finding
        /\ \A f : f.scan # s => (f \in findings' <=> f \in findings)
        /\ \A f \in findings' : f \in findings \/ (f.scan = s /\ f.from = "scanner")
    BY <1>2 DEF Finding, Pairs, FindingsTypeOK
  <1>8. disturbed' \in BOOLEAN
    BY <1>6, Zenon DEF FindingsTypeOK
  <1>9. FindingsTypeOK'
    BY <1>5, <1>6, <1>7, <1>8 DEF FindingsTypeOK
  <1>10. \A t \in ScanIds : t # s => SameRows(t)
    BY <1>6, <1>7 DEF SameRows
  <1>11. Used' = Used \cup {s} /\ Live' = Live \cup {s} /\ s \notin Live
    BY <1>4, <1>5, <1>6 DEF Used, Live
  <1>12. Completed' = Completed /\ Latest' = Latest
    <2>1. Completed' = Completed
      BY <1>4, <1>5, <1>6 DEF Completed, Used
    <2> QED BY <2>1 DEF Latest
  <1>13. \A t \in Live : t < s
    <2> SUFFICES ASSUME NEW t \in Live, ~(t < s) PROVE FALSE
      OBVIOUS
    <2>1. t \in Used /\ t \in Nat /\ s \in Nat /\ 1 <= s
      BY DEF Live, Used, ScanIds
    <2>2. s \in 1..t
      BY <2>1
    <2>3. s \in Used
      BY <2>1, <2>2 DEF FindingsShape
    <2> QED BY <1>6, <2>3
  <1>14. FindingsShape'
    <2>1. ASSUME NEW t \in Used', NEW q \in 1..t PROVE q \in Used'
      <3>1. CASE t \in Used
        BY <1>11, <2>1, <3>1 DEF FindingsShape
      <3>2. CASE t = s
        <4>1. q = s \/ q \in 1..(s - 1)
          BY <2>1, <3>2 DEF ScanIds
        <4> QED BY <1>6, <1>11, <4>1
      <3> QED BY <1>11, <2>1, <3>1, <3>2
    <2>2. \A f \in findings' : f.scan \in Live'
      BY <1>7, <1>11 DEF FindingsShape
    <2>3. \A x \in summary' : x[1] \in Live'
      BY <1>6, <1>11 DEF FindingsShape
    <2>4. pass'.at = "idle" => ~owed'
      BY <1>6 DEF FindingsShape
    <2>5. ASSUME pass'.found # {}
          PROVE  pass'.scan \in ScanIds /\ scans'[pass'.scan].at \in {"done", "gone"}
      <3>1. pass.scan \in ScanIds /\ scans[pass.scan].at \in {"done", "gone"}
        BY <1>6, <2>5 DEF FindingsShape
      <3>2. pass.scan # s
        BY <1>6, <3>1 DEF Used
      <3> QED BY <1>5, <1>6, <3>1, <3>2
    <2> QED BY <2>1, <2>2, <2>3, <2>4, <2>5 DEF FindingsShape
  <1>15. Fresh(s)'
    <2>1. Supported(s)'
      BY <1>7, <1>11 DEF Supported, FindingsShape
    <2> QED BY <1>4, <1>5, <2>1 DEF Fresh
  <1>16. NewestIsFresh'
    <2> SUFFICES ASSUME NEW t \in Live', Newest(t)'
                 PROVE  Fresh(t)'
      BY DEF NewestIsFresh
    <2>1. s <= t /\ (t \in Live \/ t = s)
      BY <1>11 DEF Newest
    <2>2. t = s
      <3>1. t \in Nat /\ s \in Nat
        BY DEF Live, ScanIds
      <3> QED BY <1>13, <2>1, <3>1
    <2> QED BY <1>15, <2>2
  <1>17. pass'.at # "idle" => disturbed'
    BY <1>6
  <1>18. AloneUnlessDisturbed' /\ PassRefreshes'
    BY <1>17 DEF AloneUnlessDisturbed, PassRefreshes
  <1> QED BY <1>9, <1>14, <1>16, <1>18

\* What is stale of a scan depends on its rows and on the database.
LEMMA StaleStays ==
  ASSUME NEW s, products' = products, \A f : f.scan = s => (f \in findings' <=> f \in findings)
  PROVE  {g \in StaleRematched : g.scan = s}' = {g \in StaleRematched : g.scan = s}
  BY DEF StaleRematched, Compatible

\* A pass that stands still, over a scan that a step leaves alone, has still done what
\* it had done.
LEMMA RefreshedStays ==
  ASSUME NEW s, products' = products, scans'[s] = scans[s], SameRows(s), pass' = pass,
         Refreshed(s)
  PROVE  Refreshed(s)'
  <1>1. PICK P : P = scans[s].packages
    OBVIOUS
  <1>2. \A m : Matches(m, P)' = Matches(m, P)
    BY MatchesStay
  <1>3. \A m \in Matchers : pass.found = Matches(m, scans[s].packages)
           => pass'.found = Matches(m, scans[s].packages)'
    BY <1>1, <1>2
  <1>4. {f.pair : f \in {g \in StaleRematched : g.scan = s}}' =
        {f.pair : f \in {g \in StaleRematched : g.scan = s}}
    <2>1. {g \in StaleRematched : g.scan = s}' = {g \in StaleRematched : g.scan = s}
      BY StaleStays DEF SameRows
    <2> QED BY <2>1
  <1>5. /\ Supported(s) => Supported(s)'
        /\ \A m \in Matchers : Found(s, m) => Found(s, m)'
        /\ Counted(s) => Counted(s)'
    BY FreshStays
  <1>6. "cve" \in Matchers /\ "cpe" \in Matchers
    BY DEF Matchers
  <1> QED BY <1>3, <1>4, <1>5, <1>6 DEF Refreshed

\* The retention removes an older scan.
LEMMA PruneKeeps ==
  ASSUME FindingsInv, NEW s \in ScanIds, PruneScan(s)
  PROVE  FindingsInv'
  <1> USE DEF FindingsInv
  <1>1. s \in Completed /\ s # Latest /\ scans[s].at = "done"
    BY DEF PruneScan, Completed
  <1>2. PICK r : r = [NoScan EXCEPT !.at = "gone"]
    OBVIOUS
  <1>3. r \in Scan /\ r.at = "gone"
    BY <1>2 DEF NoScan, Scan
  <1>4. /\ scans' \in [ScanIds -> Scan]
        /\ scans'[s] = r
        /\ \A t \in ScanIds : t # s => scans'[t] = scans[t]
    BY <1>2, <1>3 DEF FindingsTypeOK, PruneScan
  <1>5. /\ UNCHANGED <<products, pass, owed, rescan, disturbed>>
        /\ UNCHANGED <<imports, reports, matchFaults>>
        /\ findings' = {f \in findings : f.scan # s}
        /\ summary' = summary \ ({s} \X Pairs)
    BY DEF PruneScan
  <1>6. FindingsTypeOK'
    BY <1>4, <1>5 DEF FindingsTypeOK
  <1>7. \A t \in ScanIds : t # s => SameRows(t)
    BY <1>5 DEF SameRows
  <1>8. /\ Used' = Used /\ Live' = Live \ {s} /\ Completed' = Completed \ {s}
        /\ Ingesting' = Ingesting
    BY <1>1, <1>3, <1>4 DEF Used, Live, Completed, Ingesting, IngestSteps
  <1>9. Latest \in Completed /\ \A t \in Completed : t <= Latest
    BY <1>1, LatestIsHighest
  <1>10. Latest' = Latest
    <2>1. Completed' # {} /\ Latest \in Completed' /\ \A t \in Completed' : t <= Latest
      BY <1>1, <1>8, <1>9
    <2>2. Latest' \in Completed' /\ \A t \in Completed' : t <= Latest'
      BY <2>1 DEF Latest
    <2>3. Latest \in Nat /\ Latest' \in Nat
      BY <1>8, <1>9, <2>2 DEF Completed, ScanIds
    <2> QED BY <2>1, <2>2, <2>3
  <1>11. FindingsShape'
    <2>1. \A t \in Used' : \A q \in 1..t : q \in Used'
      BY <1>8 DEF FindingsShape
    <2>2. \A f \in findings' : f.scan \in Live'
      BY <1>5, <1>8 DEF FindingsShape
    <2>3. \A x \in summary' : x[1] \in Live'
      BY <1>5, <1>8 DEF FindingsShape, FindingsTypeOK
    <2>4. pass'.at = "idle" => ~owed'
      BY <1>5 DEF FindingsShape
    <2>5. ASSUME pass'.found # {}
          PROVE  pass'.scan \in ScanIds /\ scans'[pass'.scan].at \in {"done", "gone"}
      <3>1. pass.scan \in ScanIds /\ scans[pass.scan].at \in {"done", "gone"}
        BY <1>5, <2>5 DEF FindingsShape
      <3> QED BY <1>3, <1>4, <1>5, <3>1
    <2> QED BY <2>1, <2>2, <2>3, <2>4, <2>5 DEF FindingsShape
  <1>12. NewestIsFresh'
    <2> SUFFICES ASSUME (pass.at = "idle" /\ (disturbed => ~rescan))', NEW t \in Live',
                        Newest(t)'
                 PROVE  (scans[t].degraded \/ Fresh(t))'
      BY DEF NewestIsFresh
    <2>1. t \in Live /\ t # s /\ t \in ScanIds
      BY <1>8 DEF Live
    <2>2. Newest(t)
      <3>1. Latest \in Live'
        BY <1>1, <1>8, <1>9 DEF Live, Completed
      <3>2. s <= Latest /\ Latest <= t
        BY <1>1, <1>9, <3>1 DEF Newest
      <3>3. s <= t
        BY <1>9, <2>1, <3>2 DEF Completed, ScanIds
      <3> QED BY <1>8, <2>1, <3>3 DEF Newest
    <2>3. scans[t].degraded \/ Fresh(t)
      BY <1>5, <2>1, <2>2 DEF NewestIsFresh
    <2> QED BY <1>4, <1>5, <1>7, <2>1, <2>3, FreshStays
  <1>13. AloneUnlessDisturbed'
    BY <1>5, <1>8 DEF AloneUnlessDisturbed
  <1>14. PassRefreshes'
    <2> SUFFICES ASSUME (pass.at # "idle" /\ ~disturbed /\ ~owed)', NEW t \in Completed',
                        t = Latest'
                 PROVE  Refreshed(t)'
      BY DEF PassRefreshes
    <2>1. t \in Completed /\ t = Latest /\ t # s /\ t \in ScanIds
      BY <1>8, <1>10 DEF Completed
    <2>2. Refreshed(t)
      BY <1>5, <2>1 DEF PassRefreshes
    <2> QED BY <1>4, <1>5, <1>7, <2>1, <2>2, RefreshedStays
  <1> QED BY <1>6, <1>11, <1>12, <1>13, <1>14

\* A step of the pass, which changes neither the scans nor the database, preserves the
\* invariant, provided that it does for the latest scan what it is there for.
LEMMA PassKeeps ==
  ASSUME FindingsInv, FindingsTypeOK', FindingsShape', pass.at # "idle", pass'.at # "idle",
         UNCHANGED <<products, scans, owed>>, disturbed => disturbed',
         \A s \in Completed : s = Latest /\ Refreshed(s) /\ ~disturbed' => Refreshed(s)'
  PROVE  FindingsInv'
  <1> USE DEF FindingsInv
  <1>1. Completed' = Completed /\ Latest' = Latest /\ Ingesting' = Ingesting
    <2>1. Completed' = Completed
      BY DEF Completed
    <2> QED BY <2>1 DEF Latest, Ingesting
  <1>2. NewestIsFresh'
    BY DEF NewestIsFresh
  <1>3. AloneUnlessDisturbed'
    BY <1>1 DEF AloneUnlessDisturbed
  <1>4. PassRefreshes'
    BY <1>1 DEF PassRefreshes
  <1> QED BY <1>2, <1>3, <1>4

\* Steps of the pass that write nothing leave the rows and the scans in order.
LEMMA ReadingKeepsShape ==
  ASSUME FindingsInv, UNCHANGED <<scans, owed>>,
         \A f \in findings' : f \in findings \/ (f.scan \in ScanIds /\ scans[f.scan].at = "done"),
         \A x \in summary' : x \in summary \/ (x[1] \in ScanIds /\ scans[x[1]].at = "done"),
         pass'.at # "idle",
         pass'.found # {} => pass'.scan \in ScanIds /\ scans[pass'.scan].at \in {"done", "gone"}
  PROVE  FindingsShape'
  <1>1. Used' = Used /\ Live' = Live
    BY DEF Used, Live
  <1>2. \A s \in ScanIds : scans[s].at = "done" => s \in Live
    BY DEF Live
  <1>3. \A s \in Used' : \A t \in 1..s : t \in Used'
    BY <1>1 DEF FindingsInv, FindingsShape
  <1>4. \A f \in findings' : f.scan \in Live'
    BY <1>1, <1>2 DEF FindingsInv, FindingsShape
  <1>5. \A x \in summary' : x[1] \in Live'
    BY <1>1, <1>2 DEF FindingsInv, FindingsShape
  <1> QED BY <1>3, <1>4, <1>5 DEF FindingsShape

\* RemoveStaleRematchedVulnerabilities reads.
LEMMA ReadStaleKeeps ==
  ASSUME FindingsInv, ReadStale
  PROVE  FindingsInv'
  <1> USE DEF FindingsInv
  <1> DEFINE F == {f.pair : f \in {g \in StaleRematched : g.scan = Latest}}
  <1>1. pass.at = "cleanup"
    BY DEF ReadStale, PassIsAt
  <1>2. F \in SUBSET Pairs
    BY DEF StaleRematched, FindingsTypeOK, Finding
  <1>3. Latest \in ScanIds \cup {0} /\ (Latest # 0 => Latest \in Completed)
    <2>1. Completed = {} => Latest = 0
      BY LatestIsHighest
    <2>2. Completed # {} => Latest \in Completed
      BY LatestIsHighest
    <2> QED BY <2>1, <2>2 DEF Completed
  <1>4. F # {} => Latest \in Completed
    <2>1. \A f \in findings : f.scan \in ScanIds
      BY DEF FindingsTypeOK, Finding
    <2>2. F # {} => Latest # 0
      BY <2>1 DEF StaleRematched, ScanIds
    <2> QED BY <1>3, <2>2
  <1>5. pass' = [pass EXCEPT !.at = "delete", !.scan = Latest, !.found = F]
    BY DEF ReadStale
  <1> HIDE DEF F
  <1>6. /\ pass' \in [at : PassSteps \cup {"idle"}, scan : ScanIds \cup {0}, found : SUBSET Pairs]
        /\ pass'.at = "delete" /\ pass'.scan = Latest /\ pass'.found = F
    BY <1>2, <1>3, <1>5 DEF FindingsTypeOK, PassSteps
  <1>7. UNCHANGED <<products, scans, findings, summary, owed, rescan, disturbed,
                    imports, reports, matchFaults>>
    BY DEF ReadStale
  <1>8. FindingsTypeOK'
    BY <1>6, <1>7 DEF FindingsTypeOK
  <1>9. FindingsShape'
    <2>1. /\ \A f \in findings' : f \in findings
          /\ \A x \in summary' : x \in summary
          /\ pass'.at # "idle"
          /\ pass'.found # {} => pass'.scan \in ScanIds /\ scans[pass'.scan].at \in {"done", "gone"}
      BY <1>4, <1>6, <1>7 DEF Completed
    <2> HIDE DEF FindingsInv
    <2> QED BY <1>7, <2>1, ReadingKeepsShape
  <1>10. ASSUME NEW s \in Completed, s = Latest, Refreshed(s) PROVE Refreshed(s)'
    <2>1. {g \in StaleRematched : g.scan = s}' = {g \in StaleRematched : g.scan = s}
      BY <1>7, StaleStays
    <2>2. pass'.found = {f.pair : f \in {g \in StaleRematched : g.scan = s}}'
      BY <1>6, <1>10, <2>1 DEF F
    <2> QED BY <1>6, <1>10, <2>2 DEF Refreshed
  <1> HIDE DEF FindingsInv
  <1> QED BY <1>1, <1>6, <1>7, <1>8, <1>9, <1>10, PassKeeps

\* ... and deletes: what it leaves of the latest scan is supported.
LEMMA DeleteStaleKeeps ==
  ASSUME FindingsInv, DeleteStale
  PROVE  FindingsInv'
  <1> USE DEF FindingsInv
  <1>1. pass.at = "delete"
    BY DEF DeleteStale, PassIsAt
  <1>2. pass' = [Idle EXCEPT !.at = "cve-read"]
    BY DEF DeleteStale
  <1>3. /\ pass' \in [at : PassSteps \cup {"idle"}, scan : ScanIds \cup {0}, found : SUBSET Pairs]
        /\ pass'.at = "cve-read" /\ pass'.found = {}
    BY <1>2 DEF Idle, PassSteps
  <1>4. /\ UNCHANGED <<products, scans, summary, owed, rescan, disturbed, imports, reports, matchFaults>>
        /\ findings' = {f \in findings :
                          ~(f.scan = pass.scan /\ f.pair \in pass.found /\ f.from = "cve-db")}
    BY DEF DeleteStale
  <1>5. FindingsTypeOK'
    BY <1>3, <1>4 DEF FindingsTypeOK
  <1>6. FindingsShape'
    <2>1. /\ \A f \in findings' : f \in findings
          /\ \A x \in summary' : x \in summary
          /\ pass'.at # "idle" /\ pass'.found = {}
      BY <1>3, <1>4
    <2> HIDE DEF FindingsInv
    <2> QED BY <1>4, <2>1, ReadingKeepsShape
  <1>7. ASSUME NEW s \in Completed, s = Latest, Refreshed(s) PROVE Refreshed(s)'
    <2>1. pass.scan = s /\ pass.found = {f.pair : f \in {g \in StaleRematched : g.scan = s}}
      BY <1>1, <1>7 DEF Refreshed
    <2>2. ASSUME NEW f \in findings', f.scan = s, f.from = "cve-db"
          PROVE  Compatible(f.pair, Sources)
      <3>1. f \in findings /\ f.pair \notin pass.found
        BY <1>4, <2>1, <2>2
      <3>2. f \notin StaleRematched
        BY <2>1, <2>2, <3>1
      <3> QED BY <2>2, <3>1, <3>2 DEF StaleRematched
    <2>3. Supported(s)'
      BY <1>4, <2>2 DEF Supported, Compatible
    <2> QED BY <1>3, <2>3 DEF Refreshed
  <1> HIDE DEF FindingsInv
  <1> QED BY <1>1, <1>3, <1>4, <1>5, <1>6, <1>7, PassKeeps

\* The pass reads for a matcher.
LEMMA PassReadKeeps ==
  ASSUME FindingsInv, NEW m \in Matchers, PassRead(m)
  PROVE  FindingsInv'
  <1> USE DEF FindingsInv
  <1> DEFINE F == IF Latest = 0 THEN {} ELSE Matches(m, scans[Latest].packages)
  <1>0. m = "cve" \/ m = "cpe"
    BY DEF Matchers
  <1>1. pass.at = ReadStep(m)
    BY DEF PassRead, PassIsAt
  <1>2. Latest \in ScanIds \cup {0} /\ (Latest # 0 => Latest \in Completed)
    <2>1. Completed = {} => Latest = 0
      BY LatestIsHighest
    <2>2. Completed # {} => Latest \in Completed
      BY LatestIsHighest
    <2> QED BY <2>1, <2>2 DEF Completed
  <1>3. F \in SUBSET Pairs
    <2>1. Latest # 0 => scans[Latest].packages \in SUBSET Packages
      BY <1>2 DEF FindingsTypeOK, Scan
    <2> QED BY <2>1, MatchesArePairs
  <1>4. F # {} => Latest \in Completed
    BY <1>2
  <1>5. pass' = [at |-> AfterRead(m), scan |-> Latest, found |-> F]
    BY DEF PassRead
  <1>6. \A s \in Completed : s = Latest => F = Matches(m, scans[s].packages)
    BY DEF Completed, ScanIds
  <1> HIDE DEF F
  <1>7. AfterRead(m) \in PassSteps /\ pass.at # "idle"
    BY <1>0, <1>1 DEF AfterRead, ReadStep, PassSteps
  <1>8. /\ pass' \in [at : PassSteps \cup {"idle"}, scan : ScanIds \cup {0}, found : SUBSET Pairs]
        /\ pass'.at = AfterRead(m) /\ pass'.scan = Latest /\ pass'.found = F /\ pass'.at # "idle"
    BY <1>2, <1>3, <1>5, <1>7 DEF PassSteps
  <1>9. UNCHANGED <<products, scans, findings, summary, owed, rescan, disturbed,
                    imports, reports, matchFaults>>
    BY DEF PassRead
  <1>10. FindingsTypeOK'
    BY <1>8, <1>9 DEF FindingsTypeOK
  <1>11. FindingsShape'
    <2>1. /\ \A f \in findings' : f \in findings
          /\ \A x \in summary' : x \in summary
          /\ pass'.at # "idle"
          /\ pass'.found # {} => pass'.scan \in ScanIds /\ scans[pass'.scan].at \in {"done", "gone"}
      BY <1>4, <1>8, <1>9 DEF Completed
    <2> HIDE DEF FindingsInv
    <2> QED BY <1>9, <2>1, ReadingKeepsShape
  <1>12. ASSUME NEW s \in Completed, s = Latest, Refreshed(s) PROVE Refreshed(s)'
    <2>1. PICK P : P = scans[s].packages
      OBVIOUS
    <2>2. \A n : Matches(n, P)' = Matches(n, P)
      BY <1>9, MatchesStay
    <2>3. scans'[s].packages = P
      BY <1>9, <2>1
    <2>4. pass'.found = Matches(m, scans[s].packages)'
      <3>1. pass'.found = Matches(m, P)
        BY <1>6, <1>8, <1>12, <2>1
      <3> QED BY <2>2, <2>3, <3>1
    <2>5. SameRows(s) /\ scans'[s] = scans[s]
      BY <1>9 DEF SameRows
    <2>6. /\ Supported(s) => Supported(s)'
          /\ Found(s, "cve") => Found(s, "cve")'
      BY <1>9, <2>5, FreshStays DEF Matchers
    <2>7. CASE m = "cve"
      BY <1>1, <1>8, <1>12, <2>4, <2>6, <2>7 DEF Refreshed, ReadStep, AfterRead
    <2>8. CASE m = "cpe"
      BY <1>1, <1>8, <1>12, <2>4, <2>6, <2>8 DEF Refreshed, ReadStep, AfterRead
    <2> QED BY <1>0, <2>7, <2>8
  <1> HIDE DEF FindingsInv
  <1> QED BY <1>7, <1>8, <1>9, <1>10, <1>11, <1>12, PassKeeps

\* The pass inserts what it has read for a matcher, unless its scan was pruned.
LEMMA PassWriteKeeps ==
  ASSUME FindingsInv, NEW m \in Matchers, PassWrite(m)
  PROVE  FindingsInv'
  <1> USE DEF FindingsInv
  <1> DEFINE lost == pass.found # {} /\ scans[pass.scan].at = "gone"
  <1>0. m = "cve" \/ m = "cpe"
    BY DEF Matchers
  <1>1. pass.at = AfterRead(m) /\ pass.at # "idle"
    BY <1>0 DEF PassWrite, PassIsAt, AfterRead
  <1>2. pass' = [Idle EXCEPT !.at = PassAfter(m)]
    BY DEF PassWrite
  <1>3. /\ pass' \in [at : PassSteps \cup {"idle"}, scan : ScanIds \cup {0}, found : SUBSET Pairs]
        /\ pass'.at = PassAfter(m) /\ pass'.found = {} /\ pass'.at # "idle"
    BY <1>0, <1>2 DEF Idle, PassSteps, PassAfter
  <1>4. /\ UNCHANGED <<products, scans, summary, owed, rescan, imports, reports, matchFaults>>
        /\ findings' = IF lost \/ pass.found = {} THEN findings
                       ELSE findings \cup Inserted(pass.scan, pass.found)
    BY DEF PassWrite
  <1>5. disturbed' = (disturbed \/ lost)
    BY DEF PassWrite
  <1>6. disturbed' \in BOOLEAN /\ (disturbed => disturbed')
    BY <1>5, Zenon DEF FindingsTypeOK
  <1>7. ASSUME findings' # findings
        PROVE  /\ ~lost /\ pass.scan \in ScanIds /\ scans[pass.scan].at = "done"
               /\ findings' = findings \cup Inserted(pass.scan, pass.found)
    BY <1>4, <1>7 DEF FindingsShape
  <1>8. /\ findings' \subseteq Finding
        /\ \A f \in findings' : f \in findings \/ (f.scan \in ScanIds /\ scans[f.scan].at = "done")
    <2>1. CASE findings' = findings
      BY <2>1 DEF FindingsTypeOK
    <2>2. CASE findings' # findings
      <3>1. PICK s \in ScanIds, F \in SUBSET Pairs : s = pass.scan /\ F = pass.found
        BY <1>7, <2>2 DEF FindingsTypeOK
      <3>2. findings' = findings \cup Inserted(s, F)
        BY <1>7, <2>2, <3>1
      <3>3. /\ findings' \subseteq Finding
            /\ \A f \in findings' : f \in findings \/ f.scan = s
        BY <3>2, InsertionAdds
      <3> QED BY <1>7, <2>2, <3>1, <3>3
    <2> QED BY <2>1, <2>2
  <1>9. FindingsTypeOK'
    BY <1>3, <1>4, <1>6, <1>8 DEF FindingsTypeOK
  <1>10. FindingsShape'
    <2>1. \A x \in summary' : x \in summary
      BY <1>4
    <2> HIDE DEF FindingsInv, lost
    <2> QED BY <1>3, <1>4, <1>8, <2>1, ReadingKeepsShape
  <1>11. ASSUME NEW s \in Completed, s = Latest, Refreshed(s) PROVE Refreshed(s)'
    <2>1. PICK P : P = scans[s].packages
      OBVIOUS
    <2>2. \A n : Matches(n, P)' = Matches(n, P)
      BY <1>4, MatchesStay
    <2>3. scans'[s].packages = P
      BY <1>4, <2>1
    <2>4. pass.scan = s /\ pass.found = Matches(m, P) /\ Supported(s)
      BY <1>0, <1>1, <1>11, <2>1 DEF Refreshed, AfterRead
    <2>5. PICK F \in SUBSET Pairs : F = pass.found
      BY DEF FindingsTypeOK
    <2>6. s \in ScanIds /\ scans[s].at = "done"
      BY DEF Completed
    <2>7. findings' = findings \cup Inserted(s, F)
      <3>1. ~lost
        BY <2>4, <2>6
      <3>2. CASE F = {}
        BY <1>4, <2>5, <3>2 DEF Inserted
      <3>3. CASE F # {}
        BY <1>4, <2>4, <2>5, <3>1, <3>3
      <3> QED BY <3>2, <3>3
    <2>8. /\ Of(s)' = Of(s) \cup F
          /\ \A f \in findings' : f.scan = s /\ f.from = "cve-db" =>
                                    f \in findings \/ f.pair \in F
      BY <2>6, <2>7, InsertionAdds
    <2>9. Supported(s)'
      <3>1. \A pair \in F : Compatible(pair, Sources)
        BY <2>4, <2>5, MatchesAreSupported
      <3>2. ASSUME NEW f \in findings', f.scan = s, f.from = "cve-db"
            PROVE  Compatible(f.pair, Sources)
        BY <2>4, <2>8, <3>1, <3>2 DEF Supported
      <3> QED BY <1>4, <3>2 DEF Supported, Compatible
    <2>10. Found(s, m)'
      <3>1. Matches(m, P)' \subseteq Of(s)'
        BY <2>2, <2>4, <2>5, <2>8
      <3> QED BY <2>3, <3>1 DEF Found
    <2>11. CASE m = "cve"
      <3>1. pass'.at = "cpe-read"
        BY <1>3, <2>11 DEF PassAfter
      <3> QED BY <2>9, <2>10, <2>11, <3>1 DEF Refreshed
    <2>12. CASE m = "cpe"
      <3>1. pass'.at = "summaries"
        BY <1>3, <2>12 DEF PassAfter
      <3>2. Matches("cve", P) \subseteq Of(s)
        BY <1>1, <1>11, <2>1, <2>12 DEF Refreshed, Found, AfterRead
      <3>3. Matches("cve", P)' \subseteq Of(s)'
        BY <2>2, <2>8, <3>2
      <3>4. Found(s, "cve")'
        BY <2>3, <3>3 DEF Found
      <3> QED BY <2>9, <2>10, <2>12, <3>1, <3>4 DEF Refreshed
    <2> QED BY <1>0, <2>11, <2>12
  <1> HIDE DEF FindingsInv, lost
  <1> QED BY <1>1, <1>3, <1>4, <1>6, <1>9, <1>10, <1>11, PassKeeps

\* A step of the pass fails: nothing is promised of a disturbed pass.
LEMMA PassStepFailsKeeps ==
  ASSUME FindingsInv, PassStepFails
  PROVE  FindingsInv'
  <1> USE DEF FindingsInv
  <1>1. pass.at # "idle" /\ pass.at \in PassSteps
    BY DEF PassStepFails, PassSteps
  <1>2. PICK to \in PassSteps : pass' = [Idle EXCEPT !.at = to]
    <2>1. pass.at \in {"cleanup", "delete"} => pass' = [Idle EXCEPT !.at = "cve-read"]
      BY DEF PassStepFails
    <2>2. pass.at \in {"cve-read", "cve-write"} => pass' = [Idle EXCEPT !.at = "cpe-read"]
      BY DEF PassStepFails
    <2>3. pass.at \in {"cpe-read", "cpe-write"} => pass' = [Idle EXCEPT !.at = "summaries"]
      BY DEF PassStepFails
    <2>4. pass.at = "summaries" => pass' = [Idle EXCEPT !.at = "rescan"]
      BY DEF PassStepFails
    <2>5. pass.at # "rescan"
      BY DEF PassStepFails
    <2> QED BY <1>1, <2>1, <2>2, <2>3, <2>4, <2>5 DEF PassSteps
  <1>3. /\ pass' \in [at : PassSteps \cup {"idle"}, scan : ScanIds \cup {0}, found : SUBSET Pairs]
        /\ pass'.at # "idle" /\ pass'.found = {}
    BY <1>2 DEF Idle, PassSteps
  <1>4. /\ UNCHANGED <<products, scans, findings, summary, owed, rescan, imports, reports>>
        /\ disturbed' = TRUE /\ matchFaults' \in 0..MatchFaults
    BY FindingsConstants DEF PassStepFails, FindingsTypeOK
  <1>5. FindingsTypeOK'
    BY <1>3, <1>4 DEF FindingsTypeOK
  <1>6. FindingsShape'
    <2>1. /\ \A f \in findings' : f \in findings
          /\ \A x \in summary' : x \in summary
      BY <1>4
    <2> HIDE DEF FindingsInv
    <2> QED BY <1>3, <1>4, <2>1, ReadingKeepsShape
  <1> HIDE DEF FindingsInv
  <1> QED BY <1>1, <1>3, <1>4, <1>5, <1>6, PassKeeps

\* The pass counts the findings of the latest scan.
LEMMA PassSummaryKeeps ==
  ASSUME FindingsInv, RebuildLatestPackageVulnerabilitySummaries
  PROVE  FindingsInv'
  <1> USE DEF FindingsInv
  <1>1. pass.at = "summaries" /\ pass' = [Idle EXCEPT !.at = "rescan"]
    BY DEF RebuildLatestPackageVulnerabilitySummaries, PassIsAt
  <1>2. /\ pass' \in [at : PassSteps \cup {"idle"}, scan : ScanIds \cup {0}, found : SUBSET Pairs]
        /\ pass'.at = "rescan" /\ pass'.found = {}
    BY <1>1 DEF Idle, PassSteps
  <1>3. /\ UNCHANGED <<products, scans, findings, owed, rescan, disturbed,
                       imports, reports, matchFaults>>
        /\ summary' = IF Latest = 0 THEN summary ELSE Summarised(Latest)
    BY DEF RebuildLatestPackageVulnerabilitySummaries
  <1>4. Latest = 0 \/ Latest \in Completed
    <2>1. Completed = {} => Latest = 0
      BY LatestIsHighest
    <2>2. Completed # {} => Latest \in Completed
      BY LatestIsHighest
    <2> QED BY <2>1, <2>2
  <1>5. /\ summary' \subseteq ScanIds \X Pairs
        /\ \A x \in summary' : x \in summary \/ (x[1] \in ScanIds /\ scans[x[1]].at = "done")
    <2>1. CASE Latest = 0
      BY <1>3, <2>1 DEF FindingsTypeOK
    <2>2. CASE Latest # 0
      <3>1. PICK s \in Completed : s = Latest
        BY <1>4, <2>2
      <3>2. summary' = Summarised(s)
        BY <1>3, <2>2, <3>1
      <3>3. Of(s) \subseteq Pairs
        BY DEF Of, FindingsTypeOK, Finding
      <3> QED BY <3>2, <3>3 DEF Summarised, FindingsTypeOK, Completed
    <2> QED BY <2>1, <2>2
  <1>6. FindingsTypeOK'
    BY <1>2, <1>3, <1>5 DEF FindingsTypeOK
  <1>7. FindingsShape'
    <2>1. \A f \in findings' : f \in findings
      BY <1>3
    <2> HIDE DEF FindingsInv
    <2> QED BY <1>2, <1>3, <1>5, <2>1, ReadingKeepsShape
  <1>8. ASSUME NEW s \in Completed, s = Latest, Refreshed(s) PROVE Refreshed(s)'
    <2>1. PICK P : P = scans[s].packages
      OBVIOUS
    <2>2. scans'[s].packages = P
      BY <1>3, <2>1
    <2>3. \A n : Matches(n, P)' = Matches(n, P)
      BY <1>3, MatchesStay
    <2>4. Of(s)' = Of(s)
      BY <1>3 DEF Of
    <2>5. Matches("cve", P) \subseteq Of(s) /\ Matches("cpe", P) \subseteq Of(s)
      BY <1>1, <1>8, <2>1 DEF Refreshed, Found
    <2>6. Matches("cve", P)' \subseteq Of(s)' /\ Matches("cpe", P)' \subseteq Of(s)'
      BY <2>3, <2>4, <2>5
    <2>7. Found(s, "cve")' /\ Found(s, "cpe")'
      BY <2>2, <2>6 DEF Found
    <2>8. Supported(s)'
      BY <1>1, <1>3, <1>8 DEF Refreshed, Supported, Compatible
    <2>9. summary' = Summarised(s)
      BY <1>3, <1>8 DEF Completed, ScanIds
    <2>10. Of(s) \subseteq Pairs
      BY DEF Of, FindingsTypeOK, Finding
    <2>11. {x \in summary' : x[1] = s} = {s} \X Of(s)
      BY <2>9, <2>10 DEF Summarised, FindingsTypeOK
    <2>12. Counted(s)'
      BY <2>4, <2>11 DEF Counted
    <2> QED BY <1>2, <2>7, <2>8, <2>12 DEF Refreshed
  <1>9. pass.at # "idle" /\ pass'.at # "idle"
    BY <1>1, <1>2
  <1> HIDE DEF FindingsInv
  <1> QED BY <1>3, <1>6, <1>7, <1>8, <1>9, PassKeeps

\* A pass that begins has done nothing yet.
LEMMA BeginningKeeps ==
  ASSUME FindingsInv, FindingsTypeOK', UNCHANGED <<scans, findings, summary>>, owed' = FALSE,
         pass' = [Idle EXCEPT !.at = "cleanup"], disturbed' = (Ingesting # {})
  PROVE  FindingsInv'
  <1>1. pass'.at = "cleanup" /\ pass'.found = {}
    BY DEF Idle
  <1>2. FindingsShape'
    BY <1>1 DEF FindingsInv, FindingsShape, Used, Live
  <1>3. Ingesting' = Ingesting
    BY DEF Ingesting
  <1>4. NewestIsFresh' /\ AloneUnlessDisturbed'
    BY <1>1, <1>3 DEF NewestIsFresh, AloneUnlessDisturbed
  <1>5. PassRefreshes'
    BY <1>1 DEF PassRefreshes, Refreshed
  <1> QED BY <1>2, <1>4, <1>5 DEF FindingsInv

\* An import starts a pass, or asks for another one.
LEMMA ImportKeeps ==
  ASSUME FindingsInv, ImportSource
  PROVE  FindingsInv'
  <1> USE DEF FindingsInv
  <1>1. /\ UNCHANGED <<scans, findings, summary, rescan, reports, matchFaults>>
        /\ imports' \in 0..MaxImports
    BY FindingsConstants DEF ImportSource, FindingsTypeOK
  <1>2. products' \in [Cves \X Sources -> SUBSET Packages]
    <2>1. PICK src \in Sources, rows \in [Cves -> SUBSET Packages] :
             products' = [x \in Cves \X Sources |-> IF x[2] = src THEN rows[x[1]] ELSE products[x]]
      BY DEF ImportSource
    <2>2. ASSUME NEW x \in Cves \X Sources
          PROVE  (IF x[2] = src THEN rows[x[1]] ELSE products[x]) \in SUBSET Packages
      BY DEF FindingsTypeOK
    <2> QED BY <2>1, <2>2
  <1>3. CASE pass.at = "idle"
    <2>1. /\ pass' = [Idle EXCEPT !.at = "cleanup"]
          /\ disturbed' = (Ingesting # {})
          /\ owed' = owed
      BY <1>3 DEF ImportSource
    <2>2. owed' = FALSE
      BY <1>3, <2>1 DEF FindingsShape, FindingsTypeOK
    <2>3. pass' \in [at : PassSteps \cup {"idle"}, scan : ScanIds \cup {0}, found : SUBSET Pairs]
      BY <2>1 DEF Idle, PassSteps
    <2>4. disturbed' \in BOOLEAN
      BY <2>1
    <2>5. FindingsTypeOK'
      BY <1>1, <1>2, <2>2, <2>3, <2>4 DEF FindingsTypeOK
    <2> HIDE DEF FindingsInv
    <2> QED BY <1>1, <2>1, <2>2, <2>5, BeginningKeeps
  <1>4. CASE pass.at # "idle"
    <2>1. owed' = TRUE /\ pass' = pass /\ disturbed' = disturbed
      BY <1>4 DEF ImportSource
    <2>2. FindingsTypeOK'
      BY <1>1, <1>2, <2>1 DEF FindingsTypeOK
    <2>3. FindingsShape'
      BY <1>1, <1>4, <2>1 DEF FindingsShape, Used, Live
    <2>4. Ingesting' = Ingesting
      BY <1>1 DEF Ingesting
    <2>5. NewestIsFresh' /\ AloneUnlessDisturbed'
      BY <1>4, <2>1, <2>4 DEF NewestIsFresh, AloneUnlessDisturbed
    <2>6. PassRefreshes'
      BY <2>1 DEF PassRefreshes
    <2> QED BY <2>2, <2>3, <2>5, <2>6
  <1> QED BY <1>3, <1>4

\* A pass ends: what it did to the latest scan, which is the newest when no report is
\* under way, makes that scan fresh.
LEMMA EndPassKeeps ==
  ASSUME FindingsInv, EndPass
  PROVE  FindingsInv'
  <1> USE DEF FindingsInv
  <1>1. /\ pass.at = "rescan" /\ rescan' = TRUE /\ owed' = FALSE
        /\ UNCHANGED <<products, scans, findings, summary, imports, reports, matchFaults>>
    BY DEF EndPass, PassIsAt
  <1>2. CASE owed
    <2>1. /\ pass' = [Idle EXCEPT !.at = "cleanup"]
          /\ disturbed' = (Ingesting # {})
      BY <1>2 DEF EndPass
    <2>2. pass' \in [at : PassSteps \cup {"idle"}, scan : ScanIds \cup {0}, found : SUBSET Pairs]
      BY <2>1 DEF Idle, PassSteps
    <2>3. disturbed' \in BOOLEAN
      BY <2>1
    <2>4. FindingsTypeOK'
      BY <1>1, <2>2, <2>3 DEF FindingsTypeOK
    <2> HIDE DEF FindingsInv
    <2> QED BY <1>1, <2>1, <2>4, BeginningKeeps
  <1>3. CASE ~owed
    <2>1. pass' = Idle /\ disturbed' = disturbed
      BY <1>3 DEF EndPass
    <2>2. /\ pass' \in [at : PassSteps \cup {"idle"}, scan : ScanIds \cup {0}, found : SUBSET Pairs]
          /\ pass'.at = "idle" /\ pass'.found = {}
      BY <2>1 DEF Idle, PassSteps
    <2>3. FindingsTypeOK'
      BY <1>1, <2>1, <2>2 DEF FindingsTypeOK
    <2>4. FindingsShape'
      BY <1>1, <2>2 DEF FindingsShape, Used, Live
    <2>5. NewestIsFresh'
      <3> SUFFICES ASSUME ~disturbed, NEW t \in Live', Newest(t)'
                   PROVE  (scans[t].degraded \/ Fresh(t))'
        BY <1>1, <2>1 DEF NewestIsFresh
      <3>1. Ingesting = {} /\ Live' = Live
        BY <1>1 DEF AloneUnlessDisturbed, Live
      <3>2. t \in ScanIds /\ scans[t] \in Scan /\ scans[t].at \notin {"none", "gone"}
        BY <3>1 DEF Live, FindingsTypeOK
      <3>3. scans[t].at = "done"
        BY <3>1, <3>2 DEF Ingesting, Scan
      <3>4. t \in Completed /\ \A q \in Completed : q <= t
        BY <3>1, <3>2, <3>3 DEF Completed, Newest, Live
      <3>5. t = Latest
        BY <3>4, HighestIsLatest
      <3>6. Refreshed(t)
        BY <1>1, <1>3, <3>4, <3>5 DEF PassRefreshes
      <3>7. Supported(t) /\ Found(t, "cve") /\ Found(t, "cpe") /\ Counted(t)
        BY <1>1, <3>6 DEF Refreshed
      <3>8. Fresh(t)
        BY <3>3, <3>7 DEF Fresh
      <3>9. SameRows(t) /\ scans'[t] = scans[t]
        BY <1>1 DEF SameRows
      <3> QED BY <1>1, <3>8, <3>9, FreshStays
    <2>6. AloneUnlessDisturbed' /\ PassRefreshes'
      BY <2>2 DEF AloneUnlessDisturbed, PassRefreshes
    <2> QED BY <2>3, <2>4, <2>5, <2>6
  <1> QED BY <1>2, <1>3

\* A host without scans satisfies the invariant.
LEMMA FindingsStart == InitFindings => FindingsInv
  <1> SUFFICES ASSUME InitFindings PROVE FindingsInv
    OBVIOUS
  <1>1. \A s \in ScanIds : scans[s] = NoScan
    BY DEF InitFindings
  <1>2. Used = {} /\ Live = {} /\ Completed = {}
    BY <1>1 DEF Used, Live, Completed, NoScan
  <1>3. FindingsTypeOK
    <2>1. NoScan \in Scan
      BY DEF NoScan, Scan
    <2>2. scans \in [ScanIds -> Scan]
      BY <2>1 DEF InitFindings
    <2>3. pass \in [at : PassSteps \cup {"idle"}, scan : ScanIds \cup {0}, found : SUBSET Pairs]
      BY DEF InitFindings, Idle
    <2>4. MaxImports \in Nat /\ MaxReports \in Nat /\ MatchFaults \in Nat
      BY FindingsConstants
    <2>5. /\ products \in [Cves \X Sources -> SUBSET Packages]
          /\ findings = {} /\ summary = {}
          /\ owed \in BOOLEAN /\ rescan \in BOOLEAN /\ disturbed \in BOOLEAN
          /\ imports = 0 /\ reports = 0 /\ matchFaults = 0
      BY DEF InitFindings
    <2> QED BY <2>2, <2>3, <2>4, <2>5 DEF FindingsTypeOK
  <1>4. pass.at = "idle" /\ pass.found = {} /\ owed = FALSE /\ findings = {} /\ summary = {}
    BY DEF InitFindings, Idle
  <1>5. FindingsShape
    BY <1>2, <1>4 DEF FindingsShape
  <1>6. NewestIsFresh /\ AloneUnlessDisturbed /\ PassRefreshes
    BY <1>2, <1>4 DEF NewestIsFresh, AloneUnlessDisturbed, PassRefreshes
  <1> QED BY <1>3, <1>5, <1>6 DEF FindingsInv

\* Every step preserves the invariant.
LEMMA FindingsStep == FindingsInv /\ [NextFindings]_findingVars => FindingsInv'
  <1> SUFFICES ASSUME FindingsInv, [NextFindings]_findingVars PROVE FindingsInv'
    OBVIOUS
  <1>1. CASE ImportSource
    BY <1>1, ImportKeeps
  <1>2. ASSUME NEW s \in ScanIds, Report(s) PROVE FindingsInv'
    <2>1. BeginIngest(s) /\ rescan' \in BOOLEAN /\ reports' \in 0..MaxReports
      BY <1>2, FindingsConstants DEF Report, FindingsInv, FindingsTypeOK
    <2> QED BY <2>1, BeginIngestKeeps
  <1>3. ASSUME NEW s \in ScanIds, Rescan(s) PROVE FindingsInv'
    <2>1. BeginIngest(s) /\ rescan' \in BOOLEAN /\ reports' \in 0..MaxReports
      BY <1>3 DEF Rescan, FindingsInv, FindingsTypeOK
    <2> QED BY <2>1, BeginIngestKeeps
  <1>4. ASSUME NEW s \in ScanIds, IngestStep(s) PROVE FindingsInv'
    BY <1>4, IngestReadKeeps, IngestWriteKeeps, SummaryKeeps, CompleteKeeps DEF IngestStep
  <1>5. ASSUME NEW s \in ScanIds, PruneScan(s) PROVE FindingsInv'
    BY <1>5, PruneKeeps
  <1>6. ASSUME NEW s \in ScanIds, NEW m \in Matchers, IngestMatchFails(s, m) PROVE FindingsInv'
    BY <1>6, IngestMatchFailsKeeps
  <1>7. CASE PassStep
    BY <1>7, ReadStaleKeeps, DeleteStaleKeeps, PassReadKeeps, PassWriteKeeps, PassSummaryKeeps,
       EndPassKeeps DEF PassStep
  <1>8. CASE PassStepFails
    BY <1>8, PassStepFailsKeeps
  <1>9. CASE UNCHANGED findingVars
    <2>1. UNCHANGED <<products, scans, findings, summary, pass, owed, rescan, disturbed,
                      imports, reports, matchFaults>>
      BY <1>9 DEF findingVars
    <2>2. FindingsTypeOK' /\ FindingsShape' /\ AloneUnlessDisturbed'
      BY <2>1 DEF FindingsInv, FindingsTypeOK, FindingsShape, AloneUnlessDisturbed, Used, Live,
                  Ingesting
    <2>3. \A s \in ScanIds : SameRows(s) /\ scans'[s] = scans[s]
      BY <2>1 DEF SameRows
    <2>4. Live' = Live /\ Completed' = Completed /\ Latest' = Latest
      <3>1. Completed' = Completed
        BY <2>1 DEF Completed
      <3> QED BY <2>1, <3>1 DEF Live, Latest
    <2>5. NewestIsFresh'
      <3> SUFFICES ASSUME (pass.at = "idle" /\ (disturbed => ~rescan))', NEW t \in Live',
                          Newest(t)'
                   PROVE  (scans[t].degraded \/ Fresh(t))'
        BY DEF NewestIsFresh
      <3>1. t \in ScanIds /\ Newest(t)
        BY <2>4 DEF Live, Newest
      <3>2. scans[t].degraded \/ Fresh(t)
        BY <2>1, <2>4, <3>1 DEF FindingsInv, NewestIsFresh
      <3> QED BY <2>1, <2>3, <3>1, <3>2, FreshStays
    <2>6. PassRefreshes'
      <3> SUFFICES ASSUME (pass.at # "idle" /\ ~disturbed /\ ~owed)', NEW t \in Completed',
                          t = Latest'
                   PROVE  Refreshed(t)'
        BY DEF PassRefreshes
      <3>1. t \in Completed /\ t \in ScanIds /\ t = Latest
        BY <2>4 DEF Completed
      <3>2. Refreshed(t)
        BY <2>1, <3>1 DEF FindingsInv, PassRefreshes
      <3> QED BY <2>1, <2>3, <3>1, <3>2, RefreshedStays
    <2> QED BY <2>2, <2>5, <2>6 DEF FindingsInv
  <1> QED BY <1>1, <1>2, <1>3, <1>4, <1>5, <1>6, <1>7, <1>8, <1>9 DEF NextFindings

\* At rest, what is fresh is current.
LEMMA FreshIsCurrent == FindingsInv => FindingsAreCurrent
  <1> SUFFICES ASSUME FindingsInv, AtRest, Latest # 0, ~scans[Latest].degraded
               PROVE  Current(Latest)
    BY DEF FindingsAreCurrent
  <1>1. Latest \in Completed /\ \A t \in Completed : t <= Latest
    BY LatestIsHighest DEF FindingsInv
  <1>2. PICK s \in Completed : s = Latest
    BY <1>1
  <1>3. s \in Live /\ scans[s].at = "done"
    BY DEF Completed, Live
  <1>4. Newest(s)
    <2> SUFFICES ASSUME NEW t \in Live PROVE t <= s
      BY <1>3 DEF Newest
    <2>1. t \in ScanIds /\ scans[t] \in Scan /\ scans[t].at \notin {"none", "gone"}
      BY DEF Live, FindingsInv, FindingsTypeOK
    <2>2. t \in Completed
      BY <2>1 DEF AtRest, Ingesting, Completed, Scan
    <2> QED BY <1>1, <1>2, <2>2
  <1>5. Fresh(s)
    BY <1>2, <1>3, <1>4 DEF AtRest, FindingsInv, NewestIsFresh
  <1>6. Supported(s) /\ Found(s, "cve") /\ Found(s, "cpe") /\ Counted(s)
    BY <1>3, <1>5 DEF Fresh
  <1>7. Current(s)
    BY <1>6 DEF Current, Supported, Found, Counted, Matchers
  <1> QED BY <1>2, <1>7

\* Once nothing is going on, the findings of the latest scan and their summary are
\* those of the present database, for every number of scans, packages, CVEs, sources,
\* imports, reports and failing calls.
THEOREM FindingsStayCurrent == FindingsSpec => []FindingsAreCurrent
  <1>1. InitFindings => FindingsInv
    BY FindingsStart
  <1>2. FindingsInv /\ [NextFindings]_findingVars => FindingsInv'
    BY FindingsStep
  <1>3. FindingsInv => FindingsAreCurrent
    BY FreshIsCurrent
  <1> QED BY <1>1, <1>2, <1>3, PTL DEF FindingsSpec

-----------------------------------------------------------------------------
(* The export bundles.                                                     *)

\* One builder at a time is between taking and giving back the lock.
OneStores ==
    \A b \in Builders : builder[b].pc \in {"data", "meta"} => storing = {b}

\* What is past its records is a bundle.
BuiltIsBundle ==
    \A b \in Builders : builder[b].pc \notin {"idle", "content"} => builder[b].bundle \in Bundle

\* Between the renames the data file is the new one, ...
DataIsRenamed ==
    \A b \in Builders :
        builder[b].pc = "meta" => data[builder[b].variant] = builder[b].bundle

\* ... and without a fault that is the only moment at which a description is not its file's.
OnlyStoresDiffer ==
    bfaults = BundleFaults =>
        \A v \in Variants :
            \/ meta[v].size = data[v]
            \/ \E b \in Builders : builder[b].pc = "meta" /\ builder[b].variant = v

\* What a download has looked at is the file, unless a store has overtaken it.
LookedAt ==
    /\ download.pc = "stat" =>
          data[download.variant] = download.meta.size \/ download.overtaken
    /\ ServedIsDescribed

\* The inductive invariant.
BundleInv ==
    /\ BundleCacheTypeOK /\ OneStores /\ BuiltIsBundle
    /\ DataIsRenamed /\ OnlyStoresDiffer /\ LookedAt

\* A table of builds in which one is replaced.
LEMMA BuildIsReplaced ==
  ASSUME NEW S \in [Builders -> Build], NEW b \in Builders, NEW r \in Build
  PROVE  /\ [S EXCEPT ![b] = r] \in [Builders -> Build]
         /\ [S EXCEPT ![b] = r][b] = r
         /\ \A c \in Builders : c # b => [S EXCEPT ![b] = r][c] = S[c]
  OBVIOUS

\* A step of a builder that writes no file.
LEMMA BuilderMoves ==
  ASSUME BundleInv, NEW b \in Builders, NEW r \in Build, builder' = [builder EXCEPT ![b] = r],
         builder[b].pc # "meta", r.pc # "meta",
         r.pc \notin {"idle", "content"} => r.bundle \in Bundle,
         \/ r.pc = "data" /\ storing = {} /\ storing' = {b}
         \/ r.pc # "data" /\ builder[b].pc # "data" /\ storing' = storing,
         UNCHANGED <<cve, trivy, data, meta, download>>,
         bfaults' \in 0..BundleFaults, bfaults' <= bfaults
  PROVE  BundleInv'
  <1> USE DEF BundleInv
  <1>1. /\ builder' \in [Builders -> Build]
        /\ builder'[b] = r
        /\ \A c \in Builders : c # b => builder'[c] = builder[c]
    BY BuildIsReplaced DEF BundleCacheTypeOK
  <1>2. BundleCacheTypeOK'
    BY <1>1 DEF BundleCacheTypeOK
  <1>3. OneStores' /\ BuiltIsBundle'
    BY <1>1 DEF OneStores, BuiltIsBundle
  <1>4. DataIsRenamed'
    BY <1>1 DEF DataIsRenamed
  <1>5. OnlyStoresDiffer'
    <2> SUFFICES ASSUME bfaults' = BundleFaults, NEW v \in Variants, meta[v].size # data[v]
                 PROVE  \E c \in Builders : builder'[c].pc = "meta" /\ builder'[c].variant = v
      BY DEF OnlyStoresDiffer
    <2>1. bfaults = BundleFaults
      BY BundleCacheAssumption DEF BundleCacheTypeOK
    <2>2. PICK c \in Builders : builder[c].pc = "meta" /\ builder[c].variant = v
      BY <2>1 DEF OnlyStoresDiffer
    <2>3. c # b
      BY <2>2
    <2> QED BY <1>1, <2>2, <2>3
  <1>6. LookedAt'
    BY DEF LookedAt, ServedIsDescribed
  <1> QED BY <1>2, <1>3, <1>4, <1>5, <1>6

\* The steps of a build that write no file, and a build that begins.
LEMMA BuildKeeps ==
  ASSUME BundleInv, NEW b \in Builders,
         \/ BeginRebuild(b) \/ \E v \in Variants : BeginExport(b, v)
         \/ WriteContent(b) \/ ArchiveTrivy(b) \/ ReadLabel(b) \/ BuildFails(b) \/ BeginStore(b)
  PROVE  BundleInv'
  <1>0. /\ builder[b] \in Build /\ cve \in Revs /\ trivy \in 0..1 /\ bfaults \in 0..BundleFaults
        /\ bfaults <= bfaults
        /\ builder[b].pc \notin {"idle", "content"} => builder[b].bundle \in Bundle
    BY DEF BundleInv, BundleCacheTypeOK, BuiltIsBundle
  <1>1. ASSUME BeginRebuild(b) \/ \E v \in Variants : BeginExport(b, v) PROVE BundleInv'
    <2>1. PICK v \in Variants : \/ BeginExport(b, v)
                                \/ BeginRebuild(b) /\ v = builder[b].variant
      BY <1>0, <1>1 DEF Build
    <2>2. builder[b] = NoBuild /\ builder[b].pc = "idle"
      BY <1>1 DEF BeginRebuild, BeginExport, NoBuild
    <2>3. PICK r : r = [NoBuild EXCEPT !.pc = "content", !.variant = v]
      OBVIOUS
    <2>4. r \in Build /\ r.pc = "content"
      <3>1. NoBuild \in Build
        BY BundleCacheAssumption DEF NoBuild, Build, Revs, Variants
      <3> QED BY <2>3, <3>1 DEF Build
    <2>5. builder' = [builder EXCEPT ![b] = r]
      <3>1. CASE BeginExport(b, v)
        BY <2>2, <2>3, <3>1 DEF BeginExport
      <3>2. CASE BeginRebuild(b) /\ v = builder[b].variant
        <4>1. r = [NoBuild EXCEPT !.pc = "content"]
          BY <2>2, <2>3, <3>2 DEF NoBuild
        <4> QED BY <2>2, <3>2, <4>1 DEF BeginRebuild
      <3> QED BY <2>1, <3>1, <3>2
    <2>6. UNCHANGED <<cve, trivy, data, meta, storing, download, bfaults>>
      BY <1>1 DEF BeginRebuild, BeginExport, cacheVars
    <2>7. \/ r.pc = "data" /\ storing = {} /\ storing' = {b}
          \/ r.pc # "data" /\ builder[b].pc # "data" /\ storing' = storing
      BY <2>2, <2>4, <2>6
    <2> QED BY <1>0, <2>2, <2>4, <2>5, <2>6, <2>7, BuilderMoves
  <1>2. ASSUME WriteContent(b) PROVE BundleInv'
    <2>1. PICK r : r = [builder[b] EXCEPT !.pc = "trivy", !.bundle = [cve |-> cve, trivy |-> 0]]
      OBVIOUS
    <2>2. r \in Build /\ r.pc = "trivy" /\ r.bundle \in Bundle
      <3>1. [cve |-> cve, trivy |-> 0] \in Bundle
        BY <1>0 DEF Bundle
      <3> QED BY <1>0, <2>1, <3>1 DEF Build
    <2>3. builder' = [builder EXCEPT ![b] = r] /\ builder[b].pc = "content"
      BY <1>2, <2>1 DEF WriteContent, BuildGoes
    <2>4. UNCHANGED <<cve, trivy, data, meta, storing, download, bfaults>>
      BY <1>2 DEF WriteContent, cacheVars
    <2>5. \/ r.pc = "data" /\ storing = {} /\ storing' = {b}
          \/ r.pc # "data" /\ builder[b].pc # "data" /\ storing' = storing
      BY <2>2, <2>3, <2>4
    <2> QED BY <1>0, <2>2, <2>3, <2>4, <2>5, BuilderMoves
  <1>3. ASSUME ArchiveTrivy(b) PROVE BundleInv'
    <2>1. PICK t \in 0..1 : t = IF builder[b].variant = "with-trivy" THEN trivy ELSE 0
      BY <1>0
    <2>2. PICK r : r = [builder[b] EXCEPT !.pc = "label", !.bundle.trivy = t]
      OBVIOUS
    <2>3. [builder[b].bundle EXCEPT !.trivy = t] \in Bundle
      BY <1>0, <1>3 DEF Bundle, ArchiveTrivy, BuildGoes
    <2>4. r \in Build /\ r.pc = "label" /\ r.bundle \in Bundle
      BY <1>0, <2>2, <2>3 DEF Build
    <2>5. builder' = [builder EXCEPT ![b] = r] /\ builder[b].pc = "trivy"
      BY <1>3, <2>1, <2>2 DEF ArchiveTrivy, BuildGoes
    <2>6. UNCHANGED <<cve, trivy, data, meta, storing, download, bfaults>>
      BY <1>3 DEF ArchiveTrivy, cacheVars
    <2>7. \/ r.pc = "data" /\ storing = {} /\ storing' = {b}
          \/ r.pc # "data" /\ builder[b].pc # "data" /\ storing' = storing
      BY <2>4, <2>5, <2>6
    <2> QED BY <1>0, <2>4, <2>5, <2>6, <2>7, BuilderMoves
  <1>4. ASSUME ReadLabel(b) PROVE BundleInv'
    <2>1. PICK r : r = [builder[b] EXCEPT !.pc = "store", !.label = cve]
      OBVIOUS
    <2>2. r \in Build /\ r.pc = "store" /\ r.bundle \in Bundle
      BY <1>0, <1>4, <2>1 DEF Build, ReadLabel, BuildGoes
    <2>3. builder' = [builder EXCEPT ![b] = r] /\ builder[b].pc = "label"
      BY <1>4, <2>1 DEF ReadLabel, BuildGoes
    <2>4. UNCHANGED <<cve, trivy, data, meta, storing, download, bfaults>>
      BY <1>4 DEF ReadLabel, cacheVars
    <2>5. \/ r.pc = "data" /\ storing = {} /\ storing' = {b}
          \/ r.pc # "data" /\ builder[b].pc # "data" /\ storing' = storing
      BY <2>2, <2>3, <2>4
    <2> QED BY <1>0, <2>2, <2>3, <2>4, <2>5, BuilderMoves
  <1>5. ASSUME BuildFails(b) PROVE BundleInv'
    <2>1. PICK r : r = NoBuild
      OBVIOUS
    <2>2. r \in Build /\ r.pc = "idle"
      BY <2>1, BundleCacheAssumption DEF NoBuild, Build, Variants, Revs
    <2>3. builder' = [builder EXCEPT ![b] = r] /\ builder[b].pc \in {"content", "trivy", "label"}
      BY <1>5, <2>1 DEF BuildFails
    <2>4. UNCHANGED <<cve, trivy, data, meta, storing, download>>
      BY <1>5 DEF BuildFails, cacheVars
    <2>5. bfaults' \in 0..BundleFaults /\ bfaults' <= bfaults
      BY <1>0, <1>5, BundleCacheAssumption DEF BuildFails, BundleFault
    <2>6. \/ r.pc = "data" /\ storing = {} /\ storing' = {b}
          \/ r.pc # "data" /\ builder[b].pc # "data" /\ storing' = storing
      BY <2>2, <2>3, <2>4
    <2> QED BY <1>0, <2>2, <2>3, <2>4, <2>5, <2>6, BuilderMoves
  <1>6. ASSUME BeginStore(b) PROVE BundleInv'
    <2>1. PICK r : r = [builder[b] EXCEPT !.pc = "data"]
      OBVIOUS
    <2>2. r \in Build /\ r.pc = "data" /\ r.bundle \in Bundle
      BY <1>0, <1>6, <2>1 DEF Build, BeginStore, BuildGoes
    <2>3. builder' = [builder EXCEPT ![b] = r] /\ builder[b].pc = "store"
      BY <1>6, <2>1 DEF BeginStore, BuildGoes
    <2>4. /\ UNCHANGED <<cve, trivy, data, meta, download, bfaults>>
          /\ storing = {} /\ storing' = {b}
      BY <1>6 DEF BeginStore
    <2>5. \/ r.pc = "data" /\ storing = {} /\ storing' = {b}
          \/ r.pc # "data" /\ builder[b].pc # "data" /\ storing' = storing
      BY <2>2, <2>3, <2>4
    <2> QED BY <1>0, <2>2, <2>3, <2>4, <2>5, BuilderMoves
  <1> QED BY <1>1, <1>2, <1>3, <1>4, <1>5, <1>6

\* The data file is renamed: a download that has looked at another is overtaken.
LEMMA StoreDataKeeps ==
  ASSUME BundleInv, NEW b \in Builders, StoreData(b)
  PROVE  BundleInv'
  <1> USE DEF BundleInv
  <1>0. builder[b] \in Build
    BY DEF BundleCacheTypeOK
  <1>1. PICK r : r = [builder[b] EXCEPT !.pc = "meta"]
    OBVIOUS
  <1>2. /\ r \in Build /\ r.pc = "meta"
        /\ r.variant = builder[b].variant /\ r.bundle = builder[b].bundle
    BY <1>0, <1>1 DEF Build
  <1>3. builder' = [builder EXCEPT ![b] = r] /\ builder[b].pc = "data"
    BY <1>1 DEF StoreData, BuildGoes
  <1>4. /\ builder' \in [Builders -> Build] /\ builder'[b] = r
        /\ \A c \in Builders : c # b => builder'[c] = builder[c]
    BY <1>2, <1>3, BuildIsReplaced DEF BundleCacheTypeOK
  <1>5. UNCHANGED <<cve, trivy, meta, storing, bfaults>>
    BY DEF StoreData
  <1>6. builder[b].variant \in Variants /\ builder[b].bundle \in Bundle \cup {Absent}
    BY <1>0 DEF Build
  <1>7. /\ data' \in [Variants -> Bundle \cup {Absent}]
        /\ data'[builder[b].variant] = builder[b].bundle
        /\ \A v \in Variants : v # builder[b].variant => data'[v] = data[v]
    BY <1>6 DEF StoreData, BundleCacheTypeOK
  <1>8. PICK over \in BOOLEAN : over = (download.overtaken \/ (download.pc = "stat"
                                          /\ download.variant = builder[b].variant))
    BY Zenon DEF BundleCacheTypeOK
  <1>9. download' = [download EXCEPT !.overtaken = over]
    BY <1>8 DEF StoreData
  <1>10. /\ download' \in [pc: {"idle", "meta", "stat", "serving"}, variant: Variants,
                   meta: Meta \cup {NoMeta}, file: Bundle \cup {Absent}, overtaken: BOOLEAN]
         /\ download'.pc = download.pc /\ download'.variant = download.variant
         /\ download'.meta = download.meta /\ download'.file = download.file
         /\ download'.overtaken = over /\ download.variant \in Variants
    BY <1>9 DEF BundleCacheTypeOK
  <1>11. BundleCacheTypeOK'
    BY <1>4, <1>5, <1>7, <1>10 DEF BundleCacheTypeOK
  <1>12. OneStores' /\ BuiltIsBundle'
    BY <1>2, <1>3, <1>4, <1>5 DEF OneStores, BuiltIsBundle
  <1>13. \A c \in Builders : c # b => builder[c].pc # "meta"
    BY <1>3 DEF OneStores
  <1>14. DataIsRenamed'
    BY <1>2, <1>4, <1>7, <1>13 DEF DataIsRenamed
  <1>15. OnlyStoresDiffer'
    <2> SUFFICES ASSUME bfaults' = BundleFaults, NEW v \in Variants, meta'[v].size # data'[v]
                 PROVE  \E c \in Builders : builder'[c].pc = "meta" /\ builder'[c].variant = v
      BY DEF OnlyStoresDiffer
    <2>1. CASE v = builder[b].variant
      BY <1>2, <1>4, <2>1
    <2>2. CASE v # builder[b].variant
      BY <1>5, <1>7, <1>13, <1>3, <2>2 DEF OnlyStoresDiffer
    <2> QED BY <2>1, <2>2
  <1>16. LookedAt'
    <2>1. ASSUME download.pc = "stat" PROVE data'[download.variant] = download.meta.size \/ over
      BY <1>7, <1>8, <1>10, <2>1 DEF LookedAt
    <2>2. ASSUME download.pc = "serving" PROVE download.file = download.meta.size \/ over
      BY <1>8, <2>2 DEF LookedAt, ServedIsDescribed
    <2> QED BY <1>10, <2>1, <2>2 DEF LookedAt, ServedIsDescribed
  <1> QED BY <1>11, <1>12, <1>14, <1>15, <1>16

\* The description is renamed, or the store breaks off.
LEMMA StoreEndsKeeps ==
  ASSUME BundleInv, NEW b \in Builders, StoreMeta(b) \/ StoreFails(b)
  PROVE  BundleInv'
  <1> USE DEF BundleInv
  <1>0. builder[b] \in Build /\ bfaults \in 0..BundleFaults
    BY DEF BundleCacheTypeOK
  <1>1. builder' = [builder EXCEPT ![b] = NoBuild] /\ builder[b].pc \in {"data", "meta"}
    BY DEF StoreMeta, StoreFails, BuildGoes
  <1>2. NoBuild \in Build /\ NoBuild.pc = "idle"
    BY BundleCacheAssumption DEF NoBuild, Build, Variants, Revs
  <1>3. /\ builder' \in [Builders -> Build] /\ builder'[b] = NoBuild
        /\ \A c \in Builders : c # b => builder'[c] = builder[c]
    BY <1>1, <1>2, BuildIsReplaced DEF BundleCacheTypeOK
  <1>4. \A c \in Builders : c # b => builder[c].pc \notin {"data", "meta"}
    BY <1>1 DEF OneStores
  <1>5. UNCHANGED <<cve, trivy, data, download>> /\ storing' = storing \ {b}
    BY DEF StoreMeta, StoreFails
  <1>6. \A c \in Builders : builder'[c].pc \notin {"data", "meta"}
    BY <1>2, <1>3, <1>4
  <1>7. OneStores' /\ BuiltIsBundle' /\ DataIsRenamed'
    BY <1>2, <1>3, <1>6 DEF OneStores, BuiltIsBundle, DataIsRenamed
  <1>8. LookedAt'
    BY <1>5 DEF LookedAt, ServedIsDescribed
  <1>9. CASE StoreMeta(b)
    <2>1. /\ builder[b].variant \in Variants /\ builder[b].bundle \in Bundle
          /\ builder[b].label \in Revs /\ builder[b].pc = "meta" /\ bfaults' = bfaults
      BY <1>0, <1>9 DEF Build, BuiltIsBundle, StoreMeta, BuildGoes
    <2>2. PICK m \in Meta : m = [revision |-> builder[b].label, size |-> builder[b].bundle]
      BY <2>1 DEF Meta
    <2>3. m.size = builder[b].bundle
      BY <2>2
    <2>4. meta' = [meta EXCEPT ![builder[b].variant] = m]
      BY <1>9, <2>2 DEF StoreMeta
    <2>5. /\ meta' \in [Variants -> Meta \cup {NoMeta}]
          /\ meta'[builder[b].variant] = m
          /\ \A v \in Variants : v # builder[b].variant => meta'[v] = meta[v]
      BY <2>1, <2>4 DEF BundleCacheTypeOK
    <2>6. BundleCacheTypeOK'
      BY <1>3, <1>5, <2>1, <2>5 DEF BundleCacheTypeOK
    <2>7. OnlyStoresDiffer'
      <3> SUFFICES ASSUME bfaults = BundleFaults, NEW v \in Variants PROVE meta'[v].size = data[v]
        BY <1>5, <2>1 DEF OnlyStoresDiffer
      <3>1. CASE v = builder[b].variant
        BY <2>1, <2>3, <2>5, <3>1 DEF DataIsRenamed
      <3>2. CASE v # builder[b].variant
        BY <1>4, <2>5, <3>2 DEF OnlyStoresDiffer
      <3> QED BY <3>1, <3>2
    <2> QED BY <1>7, <1>8, <2>6, <2>7
  <1>10. CASE StoreFails(b)
    <2>1. /\ meta' = meta /\ bfaults' \in 0..BundleFaults /\ bfaults' # BundleFaults
      BY <1>0, <1>10, BundleCacheAssumption DEF StoreFails, BundleFault
    <2>2. BundleCacheTypeOK'
      BY <1>3, <1>5, <2>1 DEF BundleCacheTypeOK
    <2>3. OnlyStoresDiffer'
      BY <2>1 DEF OnlyStoresDiffer
    <2> QED BY <1>7, <1>8, <2>2, <2>3
  <1> QED BY <1>9, <1>10

\* A download looks, opens and ends.
LEMMA DownloadKeeps ==
  ASSUME BundleInv, (\E v \in Variants : ReadMeta(v)) \/ StatData \/ OpenData \/ DownloadEnds
  PROVE  BundleInv'
  <1> USE DEF BundleInv
  <1> DEFINE Downloads == [pc: {"idle", "meta", "stat", "serving"}, variant: Variants,
                   meta: Meta \cup {NoMeta}, file: Bundle \cup {Absent}, overtaken: BOOLEAN]
  <1>1. NoDownload \in Downloads /\ NoDownload.pc = "idle"
    BY DEF NoDownload, Variants
  <1>2. download \in Downloads
    BY DEF BundleCacheTypeOK
  <1>3. UNCHANGED <<cve, trivy, data, meta, storing, builder, bfaults>>
    BY DEF ReadMeta, StatData, OpenData, DownloadEnds, cacheVars
  <1>4. download' \in Downloads /\ LookedAt'
    <2>1. ASSUME NEW v \in Variants, ReadMeta(v) PROVE download' \in Downloads /\ LookedAt'
      <3>1. download' = [NoDownload EXCEPT !.pc = "meta", !.variant = v, !.meta = meta[v]]
        BY <2>1 DEF ReadMeta
      <3>2. meta[v] \in Meta \cup {NoMeta}
        BY DEF BundleCacheTypeOK
      <3>3. download' \in Downloads /\ download'.pc = "meta"
        BY <1>1, <3>1, <3>2
      <3> QED BY <3>3 DEF LookedAt, ServedIsDescribed
    <2>2. ASSUME StatData PROVE download' \in Downloads /\ LookedAt'
      <3>1. CASE data[download.variant] = download.meta.size
        <4>1. download' = [download EXCEPT !.pc = "stat"]
          BY <2>2, <3>1 DEF StatData
        <4>2. /\ download' \in Downloads /\ download'.pc = "stat"
              /\ download'.variant = download.variant /\ download'.meta = download.meta
          BY <1>2, <4>1
        <4> QED BY <1>3, <3>1, <4>2 DEF LookedAt, ServedIsDescribed
      <3>2. CASE data[download.variant] # download.meta.size
        <4>1. download' = NoDownload
          BY <2>2, <3>2 DEF StatData
        <4> QED BY <1>1, <4>1 DEF LookedAt, ServedIsDescribed
      <3> QED BY <3>1, <3>2
    <2>3. ASSUME OpenData PROVE download' \in Downloads /\ LookedAt'
      <3>1. /\ download.pc = "stat"
            /\ download' = [download EXCEPT !.pc = "serving", !.file = data[download.variant]]
        BY <2>3 DEF OpenData
      <3>2. data[download.variant] \in Bundle \cup {Absent}
        BY <1>2 DEF BundleCacheTypeOK
      <3>3. /\ download' \in Downloads /\ download'.pc = "serving"
            /\ download'.file = data[download.variant] /\ download'.meta = download.meta
            /\ download'.overtaken = download.overtaken
        BY <1>2, <3>1, <3>2
      <3> QED BY <3>1, <3>3 DEF LookedAt, ServedIsDescribed
    <2>4. ASSUME DownloadEnds PROVE download' \in Downloads /\ LookedAt'
      BY <1>1, <2>4 DEF DownloadEnds, LookedAt, ServedIsDescribed
    <2> QED BY <2>1, <2>2, <2>3, <2>4
  <1>5. BundleCacheTypeOK'
    BY <1>3, <1>4 DEF BundleCacheTypeOK
  <1>6. OneStores' /\ BuiltIsBundle' /\ DataIsRenamed' /\ OnlyStoresDiffer'
    BY <1>3 DEF OneStores, BuiltIsBundle, DataIsRenamed, OnlyStoresDiffer
  <1> QED BY <1>4, <1>5, <1>6

\* The server stops and starts again.
LEMMA CrashBundleKeeps ==
  ASSUME BundleInv, CrashBundleCache
  PROVE  BundleInv'
  <1> USE DEF BundleInv
  <1>1. NoBuild \in Build /\ NoBuild.pc = "idle"
    BY BundleCacheAssumption DEF NoBuild, Build, Variants, Revs
  <1>2. /\ builder' \in [Builders -> Build]
        /\ \A b \in Builders : builder'[b].pc = "idle"
    BY <1>1 DEF CrashBundleCache
  <1>3. /\ download' \in [pc: {"idle", "meta", "stat", "serving"}, variant: Variants,
                   meta: Meta \cup {NoMeta}, file: Bundle \cup {Absent}, overtaken: BOOLEAN]
        /\ download'.pc = "idle"
    BY DEF CrashBundleCache, NoDownload, Variants
  <1>4. /\ UNCHANGED <<cve, trivy, data, meta>> /\ storing' = {}
        /\ bfaults' \in 0..BundleFaults /\ bfaults' # BundleFaults
    BY BundleCacheAssumption DEF CrashBundleCache, BundleFault, BundleCacheTypeOK
  <1>5. BundleCacheTypeOK'
    BY <1>2, <1>3, <1>4 DEF BundleCacheTypeOK
  <1>6. OneStores' /\ BuiltIsBundle' /\ DataIsRenamed'
    BY <1>2 DEF OneStores, BuiltIsBundle, DataIsRenamed
  <1>7. OnlyStoresDiffer' /\ LookedAt'
    BY <1>3, <1>4 DEF OnlyStoresDiffer, LookedAt, ServedIsDescribed
  <1> QED BY <1>5, <1>6, <1>7

\* The database moves on.
LEMMA ContentMoves ==
  ASSUME BundleInv, cve' \in Revs, trivy' \in 0..1,
         UNCHANGED <<data, meta, storing, builder, download, bfaults>>
  PROVE  BundleInv'
  <1>1. BundleCacheTypeOK'
    BY DEF BundleInv, BundleCacheTypeOK
  <1>2. OneStores' /\ BuiltIsBundle' /\ DataIsRenamed' /\ OnlyStoresDiffer' /\ LookedAt'
    BY DEF BundleInv, OneStores, BuiltIsBundle, DataIsRenamed, OnlyStoresDiffer, LookedAt,
           ServedIsDescribed
  <1> QED BY <1>1, <1>2 DEF BundleInv

\* An empty cache satisfies the invariant.
LEMMA BundleStart == InitBundleCache => BundleInv
  <1> SUFFICES ASSUME InitBundleCache PROVE BundleInv
    OBVIOUS
  <1>1. NoBuild \in Build /\ NoBuild.pc = "idle"
    BY BundleCacheAssumption DEF NoBuild, Build, Variants, Revs
  <1>2. /\ builder \in [Builders -> Build]
        /\ \A b \in Builders : builder[b].pc = "idle"
    BY <1>1 DEF InitBundleCache
  <1>3. /\ download \in [pc: {"idle", "meta", "stat", "serving"}, variant: Variants,
                   meta: Meta \cup {NoMeta}, file: Bundle \cup {Absent}, overtaken: BOOLEAN]
        /\ download.pc = "idle"
    BY DEF InitBundleCache, NoDownload, Variants
  <1>4. \A v \in Variants : meta[v].size = data[v]
    BY DEF InitBundleCache, NoMeta
  <1>5. BundleCacheTypeOK
    BY <1>2, <1>3, BundleCacheAssumption DEF InitBundleCache, BundleCacheTypeOK, Revs
  <1>6. OneStores /\ BuiltIsBundle /\ DataIsRenamed /\ OnlyStoresDiffer /\ LookedAt
    BY <1>2, <1>3, <1>4 DEF OneStores, BuiltIsBundle, DataIsRenamed, OnlyStoresDiffer, LookedAt,
                            ServedIsDescribed
  <1> QED BY <1>5, <1>6 DEF BundleInv

\* Every step preserves it.
LEMMA BundleStep == BundleInv /\ [NextBundleCache]_bundleVars => BundleInv'
  <1> SUFFICES ASSUME BundleInv, [NextBundleCache]_bundleVars PROVE BundleInv'
    OBVIOUS
  <1>0. cve \in Revs /\ trivy \in 0..1
    BY DEF BundleInv, BundleCacheTypeOK
  <1>1. CASE CveCommit
    BY <1>0, <1>1, ContentMoves, BundleCacheAssumption DEF CveCommit, Revs, cacheVars
  <1>2. CASE TrivyChanges
    BY <1>0, <1>2, ContentMoves DEF TrivyChanges, cacheVars
  <1>3. ASSUME NEW b \in Builders, BeginRebuild(b) \/ BuildStep(b) PROVE BundleInv'
    BY <1>3, BuildKeeps, StoreDataKeeps, StoreEndsKeeps DEF BuildStep
  <1>4. ASSUME NEW b \in Builders, NEW v \in Variants, BeginExport(b, v) PROVE BundleInv'
    BY <1>4, BuildKeeps
  <1>5. ASSUME (\E v \in Variants : ReadMeta(v)) \/ StatData \/ OpenData \/ DownloadEnds
        PROVE BundleInv'
    BY <1>5, DownloadKeeps
  <1>6. CASE CrashBundleCache
    BY <1>6, CrashBundleKeeps
  <1>7. CASE UNCHANGED bundleVars
    BY <1>0, <1>7, ContentMoves DEF bundleVars, cacheVars
  <1> QED BY <1>1, <1>2, <1>3, <1>4, <1>5, <1>6, <1>7 DEF NextBundleCache

\* The cache serves the bundles that its descriptions were written for, and without a
\* fault a description is its file's whenever no store is between its two renames: for
\* every number of builders, of revisions and of faults.
THEOREM TheCacheIsSound == BundleCacheSpec => []CacheIsSound
  <1>1. InitBundleCache => BundleInv
    BY BundleStart
  <1>2. BundleInv /\ [NextBundleCache]_bundleVars => BundleInv'
    BY BundleStep
  <1>3. BundleInv => CacheIsSound
    BY DEF BundleInv, CacheIsSound, PairsAgree, OnlyStoresDiffer, LookedAt
  <1> QED BY <1>1, <1>2, <1>3, PTL DEF BundleCacheSpec

-----------------------------------------------------------------------------
(* The caches of statistics and of the revision.                           *)

Times == Nat \cup {Unread, Unknown}

Errand == [step: {"idle", "missed", "stale", "begin", "waiting", "building",
                  "stored", "asking", "committed", "clear"},
           ask: {"no", "ask", "wait", "fetch", "fetched", "told"},
           read: Times, rev: Times, gen: Nat, revGen: Nat]

\* The counters and the caches are what they are.
CachesAreTyped ==
    /\ tables \in Nat /\ cleared \in Nat /\ generation \in Nat /\ cleared <= tables
    /\ stats \in [age: {"none", "fresh", "stale"}, read: Nat, rev: Times]
    /\ revision \in [held: BOOLEAN, of: Nat]
    /\ building \in BOOLEAN /\ fetching \in BOOLEAN
    /\ asker \in [Actors -> Errand]

\* What an actor has read since the last clear is not older than it, and the revision is
\* asked for at its place only.
InOrder(a, r) ==
    /\ r.step \in {"idle", "missed", "stale", "begin", "waiting", "clear"} => r.ask = "no"
    /\ r.step = "stored" => r.ask = "told"
    /\ r.gen <= generation /\ r.revGen <= generation
    /\ r.step = "building" /\ r.read \notin {Unread, Unknown} /\ r.gen = generation
          => r.read >= cleared
    /\ r.ask = "fetched" =>
          /\ r.rev # Unread
          /\ r.rev # Unknown /\ r.revGen = generation => r.rev >= cleared
    /\ a = Refresher => r.step \in {"idle", "building", "stored"}

ErrandsAreInOrder == \A a \in Actors : InOrder(a, asker[a])

\* The flags are up for one worker, and the sets of those who wait are exact.
OneBuilds ==
    /\ building <=> \E a \in Actors : BuildsStats(a)
    /\ \A a, b \in Actors : BuildsStats(a) /\ BuildsStats(b) => a = b
    /\ \A a \in Actors : asker[a].step = "waiting" <=> a \in statsWaiters
    /\ \A a \in Actors : asker[a].step = "waiting" => building

OneFetches ==
    /\ fetching <=> \E a \in Actors : Fetches(a)
    /\ \A a, b \in Actors : Fetches(a) /\ Fetches(b) => a = b
    /\ \A a \in Actors : asker[a].ask = "wait" <=> a \in revisionWaiters
    /\ \A a \in Actors : asker[a].ask = "wait" => fetching

\* The inductive invariant.
StatsInv == CachesAreTyped /\ ErrandsAreInOrder /\ OneBuilds /\ OneFetches /\ CachesAreFresh

Builds(r) == r.step \in {"building", "stored"}
FetchesIt(r) == r.ask \in {"fetch", "fetched"}

\* An actor takes a step, and what the flags and the sets of those who wait say of it
\* follows.
LEMMA ActorMoves ==
  ASSUME StatsInv, NEW a \in Actors, NEW r \in Errand, asker' = [asker EXCEPT ![a] = r],
         UNCHANGED <<cleared, generation>>, tables' \in Nat, cleared <= tables',
         CachesAreFresh', InOrder(a, r),
         stats' \in [age: {"none", "fresh", "stale"}, read: Nat, rev: Times],
         revision' \in [held: BOOLEAN, of: Nat],
         \/ building' = building /\ (Builds(r) <=> BuildsStats(a))
         \/ building = FALSE /\ building' = TRUE /\ Builds(r),
         \/ fetching' = fetching /\ (FetchesIt(r) <=> Fetches(a))
         \/ fetching = FALSE /\ fetching' = TRUE /\ FetchesIt(r),
         \A c \in Actors : c # a => (c \in statsWaiters' <=> c \in statsWaiters),
         \A c \in Actors : c # a => (c \in revisionWaiters' <=> c \in revisionWaiters),
         r.step = "waiting" <=> a \in statsWaiters', r.step = "waiting" => building',
         r.ask = "wait" <=> a \in revisionWaiters', r.ask = "wait" => fetching'
  PROVE  StatsInv'
  <1> USE DEF StatsInv
  <1>1. /\ asker' \in [Actors -> Errand] /\ asker'[a] = r
        /\ \A c \in Actors : c # a => asker'[c] = asker[c]
    BY DEF CachesAreTyped
  <1>2. CachesAreTyped'
    <2>1. building' \in BOOLEAN /\ fetching' \in BOOLEAN
      BY DEF CachesAreTyped
    <2> QED BY <1>1, <2>1 DEF CachesAreTyped
  <1>3. ErrandsAreInOrder'
    <2> SUFFICES ASSUME NEW c \in Actors PROVE InOrder(c, asker[c])'
      BY DEF ErrandsAreInOrder
    <2>1. CASE c = a
      BY <1>1, <2>1 DEF InOrder
    <2>2. CASE c # a
      BY <1>1, <2>2 DEF InOrder, ErrandsAreInOrder
    <2> QED BY <2>1, <2>2
  <1>4. \A c \in Actors : c # a => (BuildsStats(c)' <=> BuildsStats(c))
                                    /\ (Fetches(c)' <=> Fetches(c))
    BY <1>1 DEF BuildsStats, Fetches
  <1>5. (BuildsStats(a)' <=> Builds(r)) /\ (Fetches(a)' <=> FetchesIt(r))
    BY <1>1 DEF BuildsStats, Fetches, Builds, FetchesIt
  <1>6. OneBuilds'
    <2>1. building' <=> \E c \in Actors : BuildsStats(c)'
      BY <1>4, <1>5 DEF OneBuilds
    <2>2. \A c, d \in Actors : BuildsStats(c)' /\ BuildsStats(d)' => c = d
      BY <1>4, <1>5 DEF OneBuilds
    <2>3. building => building'
      OBVIOUS
    <2>4. \A c \in Actors : asker'[c].step = "waiting" <=> c \in statsWaiters'
      BY <1>1 DEF OneBuilds
    <2>5. \A c \in Actors : asker'[c].step = "waiting" => building'
      BY <1>1, <2>3 DEF OneBuilds
    <2> QED BY <2>1, <2>2, <2>4, <2>5 DEF OneBuilds
  <1>7. OneFetches'
    <2>1. fetching' <=> \E c \in Actors : Fetches(c)'
      BY <1>4, <1>5 DEF OneFetches
    <2>2. \A c, d \in Actors : Fetches(c)' /\ Fetches(d)' => c = d
      BY <1>4, <1>5 DEF OneFetches
    <2>3. fetching => fetching'
      OBVIOUS
    <2>4. \A c \in Actors : asker'[c].ask = "wait" <=> c \in revisionWaiters'
      BY <1>1 DEF OneFetches
    <2>5. \A c \in Actors : asker'[c].ask = "wait" => fetching'
      BY <1>1, <2>3 DEF OneFetches
    <2> QED BY <2>1, <2>2, <2>4, <2>5 DEF OneFetches
  <1> QED BY <1>2, <1>3, <1>6, <1>7

\* A step that changes nothing but what an actor has read or does next.
LEMMA ErrandGoesOn ==
  ASSUME StatsInv, NEW a \in Actors, NEW r \in Errand, asker' = [asker EXCEPT ![a] = r],
         UNCHANGED <<tableVars, statsCacheVars, revisionVars>>, InOrder(a, r),
         Builds(r) <=> BuildsStats(a), FetchesIt(r) <=> Fetches(a),
         r.step = "waiting" <=> asker[a].step = "waiting",
         r.ask = "wait" <=> asker[a].ask = "wait"
  PROVE  StatsInv'
  <1>1. /\ UNCHANGED <<tables, cleared, generation, stats, building, statsWaiters, revision,
                       fetching, revisionWaiters>>
    BY DEF tableVars, statsCacheVars, revisionVars
  <1>2. CachesAreFresh'
    BY <1>1 DEF StatsInv, CachesAreFresh
  <1>3. /\ tables' \in Nat /\ cleared <= tables'
        /\ stats' \in [age: {"none", "fresh", "stale"}, read: Nat, rev: Times]
        /\ revision' \in [held: BOOLEAN, of: Nat]
    BY <1>1 DEF StatsInv, CachesAreTyped
  <1>4. /\ r.step = "waiting" <=> a \in statsWaiters'
        /\ r.step = "waiting" => building'
        /\ r.ask = "wait" <=> a \in revisionWaiters'
        /\ r.ask = "wait" => fetching'
    BY <1>1 DEF StatsInv, OneBuilds, OneFetches
  <1>5. UNCHANGED <<cleared, generation>> /\ building' = building /\ fetching' = fetching
    BY <1>1
  <1>6. /\ \A c \in Actors : c # a => (c \in statsWaiters' <=> c \in statsWaiters)
        /\ \A c \in Actors : c # a => (c \in revisionWaiters' <=> c \in revisionWaiters)
    BY <1>1
  <1> QED BY <1>2, <1>3, <1>4, <1>5, <1>6, ActorMoves

\* What is known of an actor.
LEMMA ErrandOf ==
  ASSUME StatsInv, NEW a \in Actors
  PROVE  /\ asker[a] \in Errand /\ InOrder(a, asker[a])
         /\ tables \in Nat /\ cleared \in Nat /\ generation \in Nat /\ cleared <= tables
         /\ stats \in [age: {"none", "fresh", "stale"}, read: Nat, rev: Times]
         /\ revision \in [held: BOOLEAN, of: Nat]
         /\ building \in BOOLEAN /\ fetching \in BOOLEAN
  BY DEF StatsInv, CachesAreTyped, ErrandsAreInOrder

\* The revision is there, or a query has answered.
LEMMA RevisionReadKeeps ==
  ASSUME StatsInv, NEW a \in Actors, RevisionHit(a) \/ FetchRevision(a)
  PROVE  StatsInv'
  <1>1. /\ asker[a] \in Errand /\ InOrder(a, asker[a]) /\ tables \in Nat /\ cleared \in Nat
        /\ generation \in Nat /\ cleared <= tables /\ revision.of \in Nat
    BY ErrandOf
  <1>2. UNCHANGED <<tableVars, statsCacheVars, revisionVars>>
    BY DEF RevisionHit, FetchRevision
  <1>3. CASE RevisionHit(a)
    <2>1. PICK r : r = [asker[a] EXCEPT !.ask = "told", !.rev = revision.of]
      OBVIOUS
    <2>2. asker' = [asker EXCEPT ![a] = r] /\ asker[a].ask = "ask"
      BY <1>3, <2>1 DEF RevisionHit
    <2>3. /\ r \in Errand /\ r.step = asker[a].step /\ r.ask = "told" /\ r.read = asker[a].read
          /\ r.gen = asker[a].gen /\ r.revGen = asker[a].revGen
      BY <1>1, <2>1 DEF Errand, Times
    <2>4. InOrder(a, r)
      BY <1>1, <2>2, <2>3 DEF InOrder
    <2>5. /\ Builds(r) <=> BuildsStats(a)
          /\ FetchesIt(r) <=> Fetches(a)
          /\ r.ask = "wait" <=> asker[a].ask = "wait"
      BY <2>2, <2>3 DEF Builds, BuildsStats, FetchesIt, Fetches
    <2> QED BY <1>2, <2>2, <2>3, <2>4, <2>5, ErrandGoesOn
  <1>4. CASE FetchRevision(a)
    <2>1. PICK v \in {tables, Unknown} : asker' = [asker EXCEPT ![a].ask = "fetched", ![a].rev = v]
      BY <1>4 DEF FetchRevision, GetSecurityDBRevision
    <2>2. PICK r : r = [asker[a] EXCEPT !.ask = "fetched", !.rev = v]
      OBVIOUS
    <2>3. asker' = [asker EXCEPT ![a] = r] /\ asker[a].ask = "fetch"
      BY <1>4, <2>1, <2>2 DEF FetchRevision
    <2>4. /\ r \in Errand /\ r.step = asker[a].step /\ r.ask = "fetched" /\ r.rev = v
          /\ r.read = asker[a].read /\ r.gen = asker[a].gen /\ r.revGen = asker[a].revGen
      BY <1>1, <2>2 DEF Errand, Times
    <2>5. InOrder(a, r)
      BY <1>1, <2>3, <2>4 DEF InOrder, Unread, Unknown
    <2>6. /\ Builds(r) <=> BuildsStats(a)
          /\ FetchesIt(r) <=> Fetches(a)
          /\ r.ask = "wait" <=> asker[a].ask = "wait"
      BY <2>3, <2>4 DEF Builds, BuildsStats, FetchesIt, Fetches
    <2> QED BY <1>2, <2>3, <2>4, <2>5, <2>6, ErrandGoesOn
  <1> QED BY <1>3, <1>4

\* Somebody asks for the revision, or is told it.
LEMMA AskKeeps ==
  ASSUME StatsInv, NEW c \in StatsClients, AskRevision(c) \/ AnswerRevision(c) \/ MissStats(c)
  PROVE  StatsInv'
  <1>1. c \in Actors /\ c # Refresher
    BY StatsCacheAssumption DEF Actors
  <1>2. /\ asker[c] \in Errand /\ InOrder(c, asker[c]) /\ generation \in Nat
    BY <1>1, ErrandOf
  <1>3. UNCHANGED <<tableVars, statsCacheVars, revisionVars>>
    BY DEF AskRevision, AnswerRevision, MissStats
  <1>4. CASE AskRevision(c)
    <2>1. PICK r : r = [NoErrand EXCEPT !.step = "asking", !.ask = "ask", !.gen = generation]
      OBVIOUS
    <2>2. asker' = [asker EXCEPT ![c] = r] /\ asker[c].step = "idle"
      BY <1>4, <2>1 DEF AskRevision, Begins
    <2>3. r \in Errand /\ r.step = "asking" /\ r.ask = "ask" /\ r.gen = generation /\ r.revGen = 0
      BY <1>2, <2>1 DEF NoErrand, Errand, Times
    <2>4. InOrder(c, r)
      BY <1>1, <1>2, <2>3 DEF InOrder
    <2>5. asker[c].ask = "no"
      BY <1>2, <2>2 DEF InOrder
    <2>6. /\ Builds(r) <=> BuildsStats(c)
          /\ FetchesIt(r) <=> Fetches(c)
          /\ r.step = "waiting" <=> asker[c].step = "waiting"
          /\ r.ask = "wait" <=> asker[c].ask = "wait"
      BY <2>2, <2>3, <2>5 DEF Builds, BuildsStats, FetchesIt, Fetches
    <2> QED BY <1>1, <1>3, <2>2, <2>3, <2>4, <2>6, ErrandGoesOn
  <1>5. CASE AnswerRevision(c)
    <2>1. asker[c].step = "asking" /\ asker[c].ask = "told"
          /\ asker' = [a \in Actors |-> IF a \in {c} THEN NoErrand ELSE asker[a]]
      BY <1>5 DEF AnswerRevision, Ends
    <2>2. PICK r : r = NoErrand
      OBVIOUS
    <2>3. asker' = [asker EXCEPT ![c] = r]
      BY <1>1, <2>1, <2>2 DEF StatsInv, CachesAreTyped
    <2>4. /\ r \in Errand /\ r.step = "idle" /\ r.ask = "no" /\ r.gen = 0 /\ r.revGen = 0
      BY <2>2 DEF NoErrand, Errand, Times
    <2>5. InOrder(c, r)
      BY <1>1, <1>2, <2>4 DEF InOrder
    <2>6. /\ Builds(r) <=> BuildsStats(c)
          /\ FetchesIt(r) <=> Fetches(c)
          /\ r.step = "waiting" <=> asker[c].step = "waiting"
          /\ r.ask = "wait" <=> asker[c].ask = "wait"
      BY <2>1, <2>4 DEF Builds, BuildsStats, FetchesIt, Fetches
    <2> QED BY <1>1, <1>3, <2>3, <2>4, <2>5, <2>6, ErrandGoesOn
  <1>6. CASE MissStats(c)
    <2>1. PICK r : r = [asker[c] EXCEPT !.step = "missed"]
      OBVIOUS
    <2>2. asker' = [asker EXCEPT ![c] = r] /\ asker[c].step = "idle"
      BY <1>6, <2>1 DEF MissStats, Enters
    <2>3. /\ r \in Errand /\ r.step = "missed" /\ r.ask = asker[c].ask /\ r.gen = asker[c].gen
          /\ r.revGen = asker[c].revGen
      BY <1>2, <2>1 DEF Errand
    <2>4. InOrder(c, r)
      BY <1>1, <1>2, <2>2, <2>3 DEF InOrder
    <2>5. /\ Builds(r) <=> BuildsStats(c)
          /\ FetchesIt(r) <=> Fetches(c)
          /\ r.step = "waiting" <=> asker[c].step = "waiting"
      BY <2>2, <2>3 DEF Builds, BuildsStats, FetchesIt, Fetches
    <2> QED BY <1>1, <1>3, <2>2, <2>3, <2>4, <2>5, ErrandGoesOn
  <1> QED BY <1>4, <1>5, <1>6

\* A request looks for the stale answer, and a build reads its facts.
LEMMA LookKeeps ==
  ASSUME StatsInv, NEW a \in Actors, LookForStale(a) \/ ReadStats(a)
  PROVE  StatsInv'
  <1>1. /\ asker[a] \in Errand /\ InOrder(a, asker[a]) /\ tables \in Nat /\ cleared \in Nat
        /\ generation \in Nat /\ cleared <= tables
    BY ErrandOf
  <1>2. UNCHANGED <<tableVars, statsCacheVars, revisionVars>>
    BY DEF LookForStale, ReadStats
  <1>3. CASE LookForStale(a)
    <2>1. PICK to \in {"stale", "begin"} : to = IF stats.age = "stale" THEN "stale" ELSE "begin"
      OBVIOUS
    <2>2. PICK r : r = [asker[a] EXCEPT !.step = to]
      OBVIOUS
    <2>3. asker' = [asker EXCEPT ![a] = r] /\ asker[a].step = "missed"
      BY <1>3, <2>1, <2>2 DEF LookForStale, Enters
    <2>4. /\ r \in Errand /\ r.step = to /\ r.ask = asker[a].ask /\ r.gen = asker[a].gen
          /\ r.revGen = asker[a].revGen
      BY <1>1, <2>2 DEF Errand
    <2>5. InOrder(a, r)
      BY <1>1, <2>3, <2>4 DEF InOrder
    <2>6. /\ Builds(r) <=> BuildsStats(a)
          /\ FetchesIt(r) <=> Fetches(a)
          /\ r.step = "waiting" <=> asker[a].step = "waiting"
      BY <2>3, <2>4 DEF Builds, BuildsStats, FetchesIt, Fetches
    <2> QED BY <1>2, <2>3, <2>4, <2>5, <2>6, ErrandGoesOn
  <1>4. CASE ReadStats(a)
    <2>1. PICK v \in {tables, Unknown} : asker' = [asker EXCEPT ![a].read = v]
      BY <1>4 DEF ReadStats
    <2>2. PICK r : r = [asker[a] EXCEPT !.read = v]
      OBVIOUS
    <2>3. asker' = [asker EXCEPT ![a] = r] /\ asker[a].step = "building"
      BY <1>4, <2>1, <2>2 DEF ReadStats
    <2>4. /\ r \in Errand /\ r.step = asker[a].step /\ r.ask = asker[a].ask /\ r.read = v
          /\ r.rev = asker[a].rev /\ r.gen = asker[a].gen /\ r.revGen = asker[a].revGen
      BY <1>1, <2>2 DEF Errand, Times
    <2>5. InOrder(a, r)
      BY <1>1, <2>3, <2>4 DEF InOrder
    <2>6. /\ Builds(r) <=> BuildsStats(a)
          /\ FetchesIt(r) <=> Fetches(a)
      BY <2>4 DEF Builds, BuildsStats, FetchesIt, Fetches
    <2> QED BY <1>2, <2>3, <2>4, <2>5, <2>6, ErrandGoesOn
  <1> QED BY <1>3, <1>4

\* An actor waits for the revision, or fetches it, or gives up.
LEMMA RevisionWaitKeeps ==
  ASSUME StatsInv, NEW a \in Actors,
         WaitForRevision(a) \/ BeginRevision(a) \/ GiveUpRevision(a)
  PROVE  StatsInv'
  <1>1. /\ asker[a] \in Errand /\ InOrder(a, asker[a]) /\ tables \in Nat /\ cleared \in Nat
        /\ generation \in Nat /\ cleared <= tables
        /\ stats \in [age: {"none", "fresh", "stale"}, read: Nat, rev: Times]
        /\ revision \in [held: BOOLEAN, of: Nat]
        /\ building \in BOOLEAN /\ fetching \in BOOLEAN
    BY ErrandOf
  <1>2. UNCHANGED <<tables, cleared, generation, stats, building, statsWaiters, revision>>
    BY DEF WaitForRevision, BeginRevision, GiveUpRevision, tableVars, statsCacheVars
  <1>3. CachesAreFresh'
    BY <1>2 DEF StatsInv, CachesAreFresh
  <1>4. /\ asker[a].step = "waiting" <=> a \in statsWaiters
        /\ asker[a].step = "waiting" => building
        /\ asker[a].ask = "wait" <=> a \in revisionWaiters
        /\ asker[a].ask = "wait" => fetching
    BY DEF StatsInv, OneBuilds, OneFetches
  <1>5. CASE WaitForRevision(a)
    <2>1. PICK r : r = [asker[a] EXCEPT !.ask = "wait"]
      OBVIOUS
    <2>2. asker' = [asker EXCEPT ![a] = r] /\ asker[a].ask = "ask"
      BY <1>5, <2>1 DEF WaitForRevision
    <2>3. /\ fetching /\ fetching' = fetching
          /\ revisionWaiters' = revisionWaiters \cup {a}
      BY <1>5 DEF WaitForRevision
    <2>4. /\ r \in Errand /\ r.step = asker[a].step /\ r.ask = "wait" /\ r.read = asker[a].read
          /\ r.rev = asker[a].rev /\ r.gen = asker[a].gen /\ r.revGen = asker[a].revGen
      BY <1>1, <2>1 DEF Errand
    <2>5. InOrder(a, r)
      BY <1>1, <2>2, <2>4 DEF InOrder
    <2>6. /\ Builds(r) <=> BuildsStats(a)
          /\ FetchesIt(r) <=> Fetches(a)
          /\ r.step = "waiting" <=> a \in statsWaiters'
          /\ r.step = "waiting" => building'
          /\ r.ask = "wait" <=> a \in revisionWaiters'
          /\ r.ask = "wait" => fetching'
      BY <1>2, <1>4, <2>2, <2>3, <2>4 DEF Builds, BuildsStats, FetchesIt, Fetches
    <2>7. /\ \A c \in Actors : c # a => (c \in statsWaiters' <=> c \in statsWaiters)
          /\ \A c \in Actors : c # a => (c \in revisionWaiters' <=> c \in revisionWaiters)
      BY <1>2, <2>3
    <2> QED BY <1>1, <1>2, <1>3, <2>2, <2>3, <2>4, <2>5, <2>6, <2>7, ActorMoves
  <1>6. CASE BeginRevision(a)
    <2>1. PICK r : r = [asker[a] EXCEPT !.ask = "fetch", !.revGen = generation]
      OBVIOUS
    <2>2. asker' = [asker EXCEPT ![a] = r] /\ asker[a].ask = "ask"
      BY <1>6, <2>1 DEF BeginRevision
    <2>3. fetching = FALSE /\ fetching' = TRUE /\ revisionWaiters' = revisionWaiters
      BY <1>1, <1>6 DEF BeginRevision
    <2>4. /\ r \in Errand /\ r.step = asker[a].step /\ r.ask = "fetch" /\ r.read = asker[a].read
          /\ r.rev = asker[a].rev /\ r.gen = asker[a].gen /\ r.revGen = generation
      BY <1>1, <2>1 DEF Errand
    <2>5. InOrder(a, r)
      BY <1>1, <2>2, <2>4 DEF InOrder
    <2>6. /\ Builds(r) <=> BuildsStats(a)
          /\ FetchesIt(r)
          /\ r.step = "waiting" <=> a \in statsWaiters'
          /\ r.step = "waiting" => building'
          /\ r.ask = "wait" <=> a \in revisionWaiters'
          /\ r.ask = "wait" => fetching'
      BY <1>2, <1>4, <2>2, <2>3, <2>4 DEF Builds, BuildsStats, FetchesIt
    <2>7. /\ \A c \in Actors : c # a => (c \in statsWaiters' <=> c \in statsWaiters)
          /\ \A c \in Actors : c # a => (c \in revisionWaiters' <=> c \in revisionWaiters)
      BY <1>2, <2>3
    <2> QED BY <1>1, <1>2, <1>3, <2>2, <2>3, <2>4, <2>5, <2>6, <2>7, ActorMoves
  <1>7. CASE GiveUpRevision(a)
    <2>1. PICK r : r = [asker[a] EXCEPT !.ask = "told", !.rev = Unknown]
      OBVIOUS
    <2>2. asker' = [asker EXCEPT ![a] = r] /\ asker[a].ask = "wait"
      BY <1>7, <2>1 DEF GiveUpRevision
    <2>3. fetching' = fetching /\ revisionWaiters' = revisionWaiters \ {a}
      BY <1>7 DEF GiveUpRevision
    <2>4. /\ r \in Errand /\ r.step = asker[a].step /\ r.ask = "told" /\ r.read = asker[a].read
          /\ r.gen = asker[a].gen /\ r.revGen = asker[a].revGen
      BY <1>1, <2>1 DEF Errand, Times
    <2>5. InOrder(a, r)
      BY <1>1, <2>2, <2>4 DEF InOrder
    <2>6. /\ Builds(r) <=> BuildsStats(a)
          /\ FetchesIt(r) <=> Fetches(a)
          /\ r.step = "waiting" <=> a \in statsWaiters'
          /\ r.step = "waiting" => building'
          /\ r.ask = "wait" <=> a \in revisionWaiters'
          /\ r.ask = "wait" => fetching'
      BY <1>2, <1>4, <2>2, <2>3, <2>4 DEF Builds, BuildsStats, FetchesIt, Fetches
    <2>7. /\ \A c \in Actors : c # a => (c \in statsWaiters' <=> c \in statsWaiters)
          /\ \A c \in Actors : c # a => (c \in revisionWaiters' <=> c \in revisionWaiters)
      BY <1>2, <2>3
    <2> QED BY <1>1, <1>2, <1>3, <2>2, <2>3, <2>4, <2>5, <2>6, <2>7, ActorMoves
  <1> QED BY <1>5, <1>6, <1>7

\* A request begins to build the statistics, or waits for them, or goes away.
LEMMA StatsWaitKeeps ==
  ASSUME StatsInv, NEW a \in Actors, BeginOrWait(a) \/ GiveUpStats(a)
  PROVE  StatsInv'
  <1>1. /\ asker[a] \in Errand /\ InOrder(a, asker[a]) /\ tables \in Nat /\ cleared \in Nat
        /\ generation \in Nat /\ cleared <= tables
        /\ stats \in [age: {"none", "fresh", "stale"}, read: Nat, rev: Times]
        /\ revision \in [held: BOOLEAN, of: Nat]
        /\ building \in BOOLEAN /\ fetching \in BOOLEAN
    BY ErrandOf
  <1>2. UNCHANGED <<tables, cleared, generation, stats, revision, fetching, revisionWaiters>>
    BY DEF BeginOrWait, GiveUpStats, tableVars, revisionVars
  <1>3. CachesAreFresh'
    BY <1>2 DEF StatsInv, CachesAreFresh
  <1>4. /\ asker[a].step = "waiting" <=> a \in statsWaiters
        /\ asker[a].step = "waiting" => building
        /\ asker[a].ask = "wait" <=> a \in revisionWaiters
        /\ asker[a].ask = "wait" => fetching
    BY DEF StatsInv, OneBuilds, OneFetches
  <1>5. asker[a].ask = "no" /\ asker[a].step \in {"begin", "waiting"} /\ a # Refresher
    BY <1>1 DEF BeginOrWait, GiveUpStats, InOrder
  <1>6. CASE BeginOrWait(a) /\ building
    <2>1. PICK r : r = [asker[a] EXCEPT !.step = "waiting"]
      OBVIOUS
    <2>2. /\ asker' = [asker EXCEPT ![a] = r] /\ asker[a].step = "begin"
          /\ building' = building /\ statsWaiters' = statsWaiters \cup {a}
      BY <1>6, <2>1 DEF BeginOrWait, Enters
    <2>3. /\ r \in Errand /\ r.step = "waiting" /\ r.ask = asker[a].ask /\ r.gen = asker[a].gen
          /\ r.revGen = asker[a].revGen
      BY <1>1, <2>1 DEF Errand
    <2>4. InOrder(a, r)
      BY <1>1, <1>5, <2>3 DEF InOrder
    <2>5. /\ Builds(r) <=> BuildsStats(a)
          /\ FetchesIt(r) <=> Fetches(a)
          /\ r.step = "waiting" <=> a \in statsWaiters'
          /\ r.step = "waiting" => building'
          /\ r.ask = "wait" <=> a \in revisionWaiters'
          /\ r.ask = "wait" => fetching'
      BY <1>2, <1>4, <1>6, <2>2, <2>3 DEF Builds, BuildsStats, FetchesIt, Fetches
    <2>6. /\ \A c \in Actors : c # a => (c \in statsWaiters' <=> c \in statsWaiters)
          /\ \A c \in Actors : c # a => (c \in revisionWaiters' <=> c \in revisionWaiters)
      BY <1>2, <2>2
    <2> QED BY <1>1, <1>2, <1>3, <2>2, <2>3, <2>4, <2>5, <2>6, ActorMoves
  <1>7. CASE BeginOrWait(a) /\ ~building
    <2>1. PICK r : r = [NoErrand EXCEPT !.step = "building", !.ask = "ask", !.gen = generation]
      OBVIOUS
    <2>2. /\ asker' = [asker EXCEPT ![a] = r] /\ asker[a].step = "begin"
          /\ building = FALSE /\ building' = TRUE /\ statsWaiters' = statsWaiters
      BY <1>1, <1>7, <2>1 DEF BeginOrWait, Begins
    <2>3. /\ r \in Errand /\ r.step = "building" /\ r.ask = "ask" /\ r.read = Unread
          /\ r.gen = generation /\ r.revGen = 0
      BY <1>1, <2>1 DEF NoErrand, Errand, Times
    <2>4. InOrder(a, r)
      BY <1>1, <2>3 DEF InOrder
    <2>5. /\ Builds(r)
          /\ FetchesIt(r) <=> Fetches(a)
          /\ r.step = "waiting" <=> a \in statsWaiters'
          /\ r.step = "waiting" => building'
          /\ r.ask = "wait" <=> a \in revisionWaiters'
          /\ r.ask = "wait" => fetching'
      BY <1>2, <1>4, <1>5, <2>2, <2>3 DEF Builds, FetchesIt, Fetches
    <2>6. /\ \A c \in Actors : c # a => (c \in statsWaiters' <=> c \in statsWaiters)
          /\ \A c \in Actors : c # a => (c \in revisionWaiters' <=> c \in revisionWaiters)
      BY <1>2, <2>2
    <2> QED BY <1>1, <1>2, <1>3, <2>2, <2>3, <2>4, <2>5, <2>6, ActorMoves
  <1>8. CASE GiveUpStats(a)
    <2>1. PICK r : r = NoErrand
      OBVIOUS
    <2>2. /\ asker' = [c \in Actors |-> IF c \in {a} THEN NoErrand ELSE asker[c]]
          /\ asker[a].step = "waiting" /\ building' = building
          /\ statsWaiters' = statsWaiters \ {a}
      BY <1>8 DEF GiveUpStats, Ends
    <2>3. asker' = [asker EXCEPT ![a] = r]
      BY <2>1, <2>2 DEF StatsInv, CachesAreTyped
    <2>4. r \in Errand /\ r.step = "idle" /\ r.ask = "no" /\ r.gen = 0 /\ r.revGen = 0
      BY <2>1 DEF NoErrand, Errand, Times
    <2>5. InOrder(a, r)
      BY <1>1, <2>4 DEF InOrder
    <2>6. /\ Builds(r) <=> BuildsStats(a)
          /\ FetchesIt(r) <=> Fetches(a)
          /\ r.step = "waiting" <=> a \in statsWaiters'
          /\ r.step = "waiting" => building'
          /\ r.ask = "wait" <=> a \in revisionWaiters'
          /\ r.ask = "wait" => fetching'
      BY <1>2, <1>4, <1>5, <2>2, <2>4 DEF Builds, BuildsStats, FetchesIt, Fetches
    <2>7. /\ \A c \in Actors : c # a => (c \in statsWaiters' <=> c \in statsWaiters)
          /\ \A c \in Actors : c # a => (c \in revisionWaiters' <=> c \in revisionWaiters)
      BY <1>2, <2>2
    <2> QED BY <1>1, <1>2, <1>3, <2>2, <2>3, <2>4, <2>5, <2>6, <2>7, ActorMoves
  <1> QED BY <1>6, <1>7, <1>8

\* A build stores what it has read, if nothing was cleared since it began.
LEMMA StoreStatsKeeps ==
  ASSUME StatsInv, NEW a \in Actors, StoreStats(a)
  PROVE  StatsInv'
  <1>1. /\ asker[a] \in Errand /\ InOrder(a, asker[a]) /\ tables \in Nat /\ cleared \in Nat
        /\ generation \in Nat /\ cleared <= tables
        /\ stats \in [age: {"none", "fresh", "stale"}, read: Nat, rev: Times]
        /\ revision \in [held: BOOLEAN, of: Nat]
        /\ building \in BOOLEAN /\ fetching \in BOOLEAN
    BY ErrandOf
  <1>2. UNCHANGED <<tables, cleared, generation, building, statsWaiters, revision, fetching,
                    revisionWaiters>>
    BY DEF StoreStats, tableVars, revisionVars
  <1>3. /\ asker[a].step = "building" /\ asker[a].read # Unread /\ asker[a].read # Unknown
        /\ asker[a].ask = "told"
    BY DEF StoreStats, Built
  <1>4. PICK r : r = [asker[a] EXCEPT !.step = "stored"]
    OBVIOUS
  <1>5. asker' = [asker EXCEPT ![a] = r]
    BY <1>4 DEF StoreStats, Enters
  <1>6. /\ r \in Errand /\ r.step = "stored" /\ r.ask = "told" /\ r.gen = asker[a].gen
        /\ r.revGen = asker[a].revGen
    BY <1>1, <1>3, <1>4 DEF Errand
  <1>7. InOrder(a, r)
    BY <1>1, <1>6 DEF InOrder
  <1>8. asker[a].read \in Nat /\ asker[a].rev \in Times
    BY <1>1, <1>3 DEF Errand, Times
  <1>9. /\ stats' \in [age: {"none", "fresh", "stale"}, read: Nat, rev: Times]
        /\ stats'.age # "none" => stats'.read >= cleared
    <2>1. CASE asker[a].gen = generation
      <3>1. stats' = [age |-> "fresh", read |-> asker[a].read, rev |-> asker[a].rev]
        BY <2>1 DEF StoreStats, Keeps
      <3>2. asker[a].read >= cleared
        BY <1>1, <1>3, <2>1 DEF InOrder
      <3> QED BY <1>8, <3>1, <3>2
    <2>2. CASE asker[a].gen # generation
      <3>1. stats' = stats
        BY <2>2 DEF StoreStats, Keeps
      <3> QED BY <1>1, <3>1 DEF StatsInv, CachesAreFresh
    <2> QED BY <2>1, <2>2
  <1>10. CachesAreFresh'
    BY <1>2, <1>9 DEF StatsInv, CachesAreFresh
  <1>11. /\ Builds(r) <=> BuildsStats(a)
         /\ FetchesIt(r) <=> Fetches(a)
         /\ r.step = "waiting" <=> a \in statsWaiters'
         /\ r.step = "waiting" => building'
         /\ r.ask = "wait" <=> a \in revisionWaiters'
         /\ r.ask = "wait" => fetching'
    BY <1>2, <1>3, <1>6 DEF Builds, BuildsStats, FetchesIt, Fetches, StatsInv, OneBuilds, OneFetches
  <1>12. /\ \A c \in Actors : c # a => (c \in statsWaiters' <=> c \in statsWaiters)
         /\ \A c \in Actors : c # a => (c \in revisionWaiters' <=> c \in revisionWaiters)
    BY <1>2
  <1>13. tables' \in Nat /\ cleared <= tables' /\ revision' \in [held: BOOLEAN, of: Nat]
    BY <1>1, <1>2
  <1> QED BY <1>2, <1>5, <1>6, <1>7, <1>9, <1>10, <1>11, <1>12, <1>13, ActorMoves

\* The tables change: what is cached stays as new as the last clear.
LEMMA CommitKeeps ==
  ASSUME StatsInv, NEW i \in Importers, CommitTables(i)
  PROVE  StatsInv'
  <1>0. i \in Actors /\ i # Refresher
    BY StatsCacheAssumption DEF Actors
  <1>1. /\ asker[i] \in Errand /\ InOrder(i, asker[i]) /\ tables \in Nat /\ cleared \in Nat
        /\ generation \in Nat /\ cleared <= tables
        /\ stats \in [age: {"none", "fresh", "stale"}, read: Nat, rev: Times]
        /\ revision \in [held: BOOLEAN, of: Nat]
        /\ building \in BOOLEAN /\ fetching \in BOOLEAN
    BY <1>0, ErrandOf
  <1>2. UNCHANGED <<cleared, generation, stats, building, statsWaiters, revision, fetching,
                    revisionWaiters>> /\ tables' = tables + 1 /\ asker[i].step = "idle"
    BY DEF CommitTables, statsCacheVars, revisionVars
  <1>3. asker[i].ask = "no"
    BY <1>1, <1>2 DEF InOrder
  <1>4. PICK r \in Errand : /\ asker' = [asker EXCEPT ![i] = r] /\ InOrder(i, r)
                            /\ r.step \in {"committed", "clear"} /\ r.ask \in {"no", "ask"}
    <2>1. CASE Begins(i, "committed")
      <3>1. PICK r : r = [NoErrand EXCEPT !.step = "committed", !.ask = "ask", !.gen = generation]
        OBVIOUS
      <3>2. asker' = [asker EXCEPT ![i] = r]
        BY <2>1, <3>1 DEF Begins
      <3>3. /\ r \in Errand /\ r.step = "committed" /\ r.ask = "ask" /\ r.gen = generation
            /\ r.revGen = 0
        BY <1>1, <3>1 DEF NoErrand, Errand, Times
      <3>4. InOrder(i, r)
        BY <1>0, <1>1, <3>3 DEF InOrder
      <3> QED BY <3>2, <3>3, <3>4
    <2>2. CASE Enters(i, "clear")
      <3>1. PICK r : r = [asker[i] EXCEPT !.step = "clear"]
        OBVIOUS
      <3>2. asker' = [asker EXCEPT ![i] = r]
        BY <2>2, <3>1 DEF Enters
      <3>3. /\ r \in Errand /\ r.step = "clear" /\ r.ask = asker[i].ask /\ r.gen = asker[i].gen
            /\ r.revGen = asker[i].revGen
        BY <1>1, <3>1 DEF Errand
      <3>4. InOrder(i, r)
        BY <1>0, <1>1, <1>3, <3>3 DEF InOrder
      <3> QED BY <1>3, <3>2, <3>3, <3>4
    <2> QED BY <2>1, <2>2 DEF CommitTables
  <1>5. CachesAreFresh'
    BY <1>2 DEF StatsInv, CachesAreFresh
  <1>6. /\ Builds(r) <=> BuildsStats(i)
        /\ FetchesIt(r) <=> Fetches(i)
        /\ r.step = "waiting" <=> i \in statsWaiters'
        /\ r.step = "waiting" => building'
        /\ r.ask = "wait" <=> i \in revisionWaiters'
        /\ r.ask = "wait" => fetching'
    BY <1>0, <1>2, <1>3, <1>4
       DEF Builds, BuildsStats, FetchesIt, Fetches, StatsInv, OneBuilds, OneFetches
  <1>7. /\ \A c \in Actors : c # i => (c \in statsWaiters' <=> c \in statsWaiters)
        /\ \A c \in Actors : c # i => (c \in revisionWaiters' <=> c \in revisionWaiters)
    BY <1>2
  <1>8. /\ tables' \in Nat /\ cleared <= tables'
        /\ stats' \in [age: {"none", "fresh", "stale"}, read: Nat, rev: Times]
        /\ revision' \in [held: BOOLEAN, of: Nat]
        /\ UNCHANGED <<cleared, generation>> /\ building' = building /\ fetching' = fetching
    BY <1>1, <1>2
  <1> QED BY <1>0, <1>4, <1>5, <1>6, <1>7, <1>8, ActorMoves

\* The fetch ends, and tells all who wait; the flag goes down.
LEMMA FinishRevisionKeeps ==
  ASSUME StatsInv, NEW a \in Actors, FinishRevision(a)
  PROVE  StatsInv'
  <1> DEFINE W == revisionWaiters \cup {a}
  <1>1. /\ asker[a] \in Errand /\ InOrder(a, asker[a]) /\ tables \in Nat /\ cleared \in Nat
        /\ generation \in Nat /\ cleared <= tables
        /\ stats \in [age: {"none", "fresh", "stale"}, read: Nat, rev: Times]
        /\ revision \in [held: BOOLEAN, of: Nat]
        /\ building \in BOOLEAN /\ fetching \in BOOLEAN
    BY ErrandOf
  <1>2. /\ UNCHANGED <<tables, cleared, generation, stats, building, statsWaiters>>
        /\ fetching' = FALSE /\ revisionWaiters' = {} /\ asker[a].ask = "fetched"
    BY DEF FinishRevision, tableVars, statsCacheVars
  <1>3. asker' = [b \in Actors |->
                 IF b \in W THEN [asker[b] EXCEPT !.ask = "told", !.rev = asker[a].rev, !.revGen = 0]
                 ELSE asker[b]]
    BY DEF FinishRevision
  <1>4. \A b \in Actors : b \in W <=> asker[b].ask = "wait" \/ Fetches(b)
    BY <1>2 DEF StatsInv, OneFetches, Fetches
  <1> HIDE DEF W
  <1>5. ASSUME NEW b \in Actors, b \in W
        PROVE  /\ asker'[b] \in Errand /\ asker'[b].step = asker[b].step /\ asker'[b].ask = "told"
               /\ InOrder(b, asker[b])'
    <2>1. asker[b] \in Errand /\ InOrder(b, asker[b])
      BY ErrandOf
    <2>2. asker'[b] = [asker[b] EXCEPT !.ask = "told", !.rev = asker[a].rev, !.revGen = 0]
      BY <1>3, <1>5
    <2>6. PICK v \in Times : v = asker[a].rev
      BY <1>1 DEF Errand
    <2>7. PICK r : r = [asker[b] EXCEPT !.ask = "told", !.rev = v, !.revGen = 0]
      OBVIOUS
    <2>8. asker'[b] = r
      BY <2>2, <2>6, <2>7
    <2>9. /\ r \in Errand /\ r.step = asker[b].step /\ r.ask = "told"
          /\ r.read = asker[b].read /\ r.gen = asker[b].gen /\ r.revGen = 0
      BY <2>1, <2>7 DEF Errand
    <2>3. /\ asker'[b] \in Errand /\ asker'[b].step = asker[b].step /\ asker'[b].ask = "told"
          /\ asker'[b].read = asker[b].read /\ asker'[b].gen = asker[b].gen /\ asker'[b].revGen = 0
      BY <2>8, <2>9
    <2>4. asker[b].ask \in {"wait", "fetch", "fetched"}
      BY <1>4, <1>5 DEF Fetches
    <2>5. InOrder(b, asker[b])'
      BY <1>1, <1>2, <2>1, <2>3, <2>4 DEF InOrder
    <2> QED BY <2>3, <2>5
  <1>6. ASSUME NEW b \in Actors, b \notin W
        PROVE  /\ asker'[b] = asker[b] /\ asker[b] \in Errand /\ InOrder(b, asker[b])'
               /\ asker[b].ask \notin {"wait", "fetch", "fetched"}
    <2>1. asker'[b] = asker[b]
      BY <1>3, <1>6
    <2>2. asker[b] \in Errand /\ InOrder(b, asker[b])
      BY ErrandOf
    <2>3. asker[b].ask \notin {"wait", "fetch", "fetched"}
      BY <1>4, <1>6 DEF Fetches
    <2> QED BY <1>2, <2>1, <2>2, <2>3 DEF InOrder
  <1>7. asker' \in [Actors -> Errand]
    BY <1>3, <1>5, <1>6
  <1>8. /\ revision' \in [held: BOOLEAN, of: Nat]
        /\ revision'.held => revision'.of >= cleared
    <2>1. CASE asker[a].rev # Unknown /\ asker[a].revGen = generation
      <3>1. revision' = [held |-> TRUE, of |-> asker[a].rev]
        BY <2>1 DEF FinishRevision, Keeps
      <3>2. asker[a].rev >= cleared /\ asker[a].rev # Unread
        BY <1>1, <1>2, <2>1 DEF InOrder
      <3>3. asker[a].rev \in Nat
        BY <1>1, <2>1, <3>2 DEF Errand, Times
      <3> QED BY <3>1, <3>2, <3>3
    <2>2. CASE ~(asker[a].rev # Unknown /\ asker[a].revGen = generation)
      <3>1. revision' = revision
        BY <2>2 DEF FinishRevision, Keeps
      <3> QED BY <1>1, <3>1 DEF StatsInv, CachesAreFresh
    <2> QED BY <2>1, <2>2
  <1>9. CachesAreTyped'
    BY <1>1, <1>2, <1>7, <1>8 DEF CachesAreTyped
  <1>10. ErrandsAreInOrder'
    BY <1>5, <1>6 DEF ErrandsAreInOrder
  <1>11. \A b \in Actors : asker'[b].step = asker[b].step
    BY <1>5, <1>6
  <1>12. OneBuilds'
    BY <1>2, <1>11 DEF StatsInv, OneBuilds, BuildsStats
  <1>13. \A b \in Actors : asker'[b].ask \notin {"wait", "fetch", "fetched"}
    BY <1>5, <1>6
  <1>14. OneFetches'
    BY <1>2, <1>13 DEF OneFetches, Fetches
  <1>15. CachesAreFresh'
    BY <1>2, <1>8 DEF StatsInv, CachesAreFresh
  <1> QED BY <1>9, <1>10, <1>12, <1>14, <1>15 DEF StatsInv

\* The build ends, and tells all who wait; the flag goes down.
LEMMA FinishStatsKeeps ==
  ASSUME StatsInv, NEW a \in Actors, FinishStats(a)
  PROVE  StatsInv'
  <1> DEFINE W == {a} \cup statsWaiters
  <1>1. /\ tables \in Nat /\ cleared \in Nat /\ generation \in Nat
        /\ InOrder(a, asker[a])
    BY ErrandOf
  <1>2. /\ UNCHANGED <<tables, cleared, generation, stats, revision, fetching, revisionWaiters>>
        /\ building' = FALSE /\ statsWaiters' = {}
    BY DEF FinishStats, tableVars, revisionVars
  <1>3. asker' = [b \in Actors |-> IF b \in W THEN NoErrand ELSE asker[b]]
    BY DEF FinishStats, Ends
  <1>4. BuildsStats(a) /\ asker[a].ask = "told"
    BY <1>1 DEF FinishStats, BuildEnded, Built, BuildsStats, InOrder
  <1>5. \A b \in Actors : b \in W <=> asker[b].step = "waiting" \/ BuildsStats(b)
    BY <1>4 DEF StatsInv, OneBuilds
  <1>6. \A b \in Actors : b \in W => asker[b].ask \in {"no", "told"}
    <2> SUFFICES ASSUME NEW b \in Actors, b \in W, b # a PROVE asker[b].ask = "no"
      BY <1>4
    <2>1. InOrder(b, asker[b]) /\ asker[b].step = "waiting"
      BY <1>4, <1>5, ErrandOf DEF StatsInv, OneBuilds
    <2> QED BY <2>1 DEF InOrder
  <1> HIDE DEF W
  <1>7. NoErrand \in Errand /\ NoErrand.step = "idle" /\ NoErrand.ask = "no"
        /\ NoErrand.gen = 0 /\ NoErrand.revGen = 0
    BY DEF NoErrand, Errand, Times
  <1>8. ASSUME NEW b \in Actors
        PROVE  /\ asker'[b] \in Errand /\ InOrder(b, asker[b])'
               /\ asker'[b].step \notin {"waiting", "building", "stored"}
               /\ Fetches(b)' <=> Fetches(b)
               /\ asker'[b].ask = "wait" <=> asker[b].ask = "wait"
    <2>1. asker[b] \in Errand /\ InOrder(b, asker[b])
      BY ErrandOf
    <2>2. CASE b \in W
      <3>1. asker'[b] = NoErrand
        BY <1>3, <2>2
      <3>2. InOrder(b, asker[b])'
        BY <1>1, <1>2, <1>7, <3>1 DEF InOrder
      <3> QED BY <1>6, <1>7, <2>2, <3>1, <3>2 DEF Fetches
    <2>3. CASE b \notin W
      <3>1. asker'[b] = asker[b]
        BY <1>3, <2>3
      <3>2. InOrder(b, asker[b])'
        BY <1>2, <2>1, <3>1 DEF InOrder
      <3>3. asker[b].step \notin {"waiting", "building", "stored"}
        BY <1>5, <2>3 DEF BuildsStats
      <3> QED BY <2>1, <3>1, <3>2, <3>3 DEF Fetches
    <2> QED BY <2>2, <2>3
  <1>9. asker' \in [Actors -> Errand]
    BY <1>3, <1>8
  <1>10. CachesAreTyped'
    BY <1>2, <1>9 DEF StatsInv, CachesAreTyped
  <1>11. ErrandsAreInOrder'
    BY <1>8 DEF ErrandsAreInOrder
  <1>12. OneBuilds'
    BY <1>2, <1>8 DEF OneBuilds, BuildsStats
  <1>13. OneFetches'
    BY <1>2, <1>8 DEF StatsInv, OneFetches
  <1>14. CachesAreFresh'
    BY <1>2 DEF StatsInv, CachesAreFresh
  <1> QED BY <1>10, <1>11, <1>12, <1>13, <1>14 DEF StatsInv

\* A stale answer is served, and the goroutine started if nobody builds.
LEMMA ServeStaleKeeps ==
  ASSUME StatsInv, NEW c \in Actors, ServeStale(c)
  PROVE  StatsInv'
  <1>1. /\ asker[c] \in Errand /\ InOrder(c, asker[c]) /\ tables \in Nat /\ cleared \in Nat
        /\ generation \in Nat /\ cleared <= tables
        /\ stats \in [age: {"none", "fresh", "stale"}, read: Nat, rev: Times]
        /\ revision \in [held: BOOLEAN, of: Nat]
        /\ building \in BOOLEAN /\ fetching \in BOOLEAN
    BY ErrandOf
  <1>2. /\ UNCHANGED <<tables, cleared, generation, stats, statsWaiters, revision, fetching,
                       revisionWaiters>>
        /\ asker[c].step = "stale" /\ building' = TRUE
    BY DEF ServeStale, tableVars, revisionVars
  <1>3. c # Refresher /\ asker[c].ask = "no" /\ Refresher \in Actors
    BY <1>1, <1>2 DEF InOrder, Actors
  <1>4. /\ NoErrand \in Errand /\ NoErrand.step = "idle" /\ NoErrand.ask = "no"
        /\ NoErrand.gen = 0 /\ NoErrand.revGen = 0
    BY DEF NoErrand, Errand, Times
  <1>5. CachesAreFresh'
    BY <1>2 DEF StatsInv, CachesAreFresh
  <1>6. InOrder(c, NoErrand)
    BY <1>1, <1>3, <1>4 DEF InOrder
  <1>7. CASE building
    <2>1. PICK r : r = NoErrand
      OBVIOUS
    <2>2. asker' = [asker EXCEPT ![c] = NoErrand, ![Refresher] = @]
      BY <1>7 DEF ServeStale
    <2>3. asker' = [asker EXCEPT ![c] = r]
      BY <1>3, <2>1, <2>2 DEF StatsInv, CachesAreTyped
    <2>4. building' = building
      BY <1>1, <1>2, <1>7
    <2>5. /\ Builds(r) <=> BuildsStats(c)
          /\ FetchesIt(r) <=> Fetches(c)
          /\ r.step = "waiting" <=> c \in statsWaiters'
          /\ r.step = "waiting" => building'
          /\ r.ask = "wait" <=> c \in revisionWaiters'
          /\ r.ask = "wait" => fetching'
      BY <1>2, <1>3, <1>4, <2>1
         DEF Builds, BuildsStats, FetchesIt, Fetches, StatsInv, OneBuilds, OneFetches
    <2>6. /\ \A d \in Actors : d # c => (d \in statsWaiters' <=> d \in statsWaiters)
          /\ \A d \in Actors : d # c => (d \in revisionWaiters' <=> d \in revisionWaiters)
      BY <1>2
    <2>7. /\ r \in Errand /\ InOrder(c, r) /\ tables' \in Nat /\ cleared <= tables'
          /\ stats' \in [age: {"none", "fresh", "stale"}, read: Nat, rev: Times]
          /\ revision' \in [held: BOOLEAN, of: Nat]
          /\ UNCHANGED <<cleared, generation>> /\ fetching' = fetching
      BY <1>1, <1>2, <1>4, <1>6, <2>1
    <2> QED BY <1>5, <2>3, <2>4, <2>5, <2>6, <2>7, ActorMoves
  <1>8. CASE ~building
    <2>1. PICK r : r = [NoErrand EXCEPT !.step = "building", !.ask = "ask", !.gen = generation]
      OBVIOUS
    <2>2. /\ r \in Errand /\ r.step = "building" /\ r.ask = "ask" /\ r.read = Unread
          /\ r.gen = generation /\ r.revGen = 0
      BY <1>1, <2>1 DEF NoErrand, Errand, Times
    <2>3. asker' = [asker EXCEPT ![c] = NoErrand, ![Refresher] = r]
      BY <1>8, <2>1 DEF ServeStale
    <2>4. /\ asker' \in [Actors -> Errand] /\ asker'[c] = NoErrand /\ asker'[Refresher] = r
          /\ \A d \in Actors : d # c /\ d # Refresher => asker'[d] = asker[d]
      BY <1>3, <1>4, <2>2, <2>3 DEF StatsInv, CachesAreTyped
    <2>5. \A d \in Actors : ~BuildsStats(d) /\ asker[d].step # "waiting"
      BY <1>8 DEF StatsInv, OneBuilds
    <2>6. asker[Refresher].ask = "no"
      <3>1. InOrder(Refresher, asker[Refresher])
        BY <1>3, ErrandOf
      <3> QED BY <1>3, <2>5, <3>1 DEF InOrder, BuildsStats
    <2>7. CachesAreTyped'
      BY <1>1, <1>2, <2>4 DEF CachesAreTyped
    <2>8. ErrandsAreInOrder'
      <3> SUFFICES ASSUME NEW d \in Actors PROVE InOrder(d, asker[d])'
        BY DEF ErrandsAreInOrder
      <3>1. CASE d = c
        BY <1>2, <1>6, <2>4, <3>1 DEF InOrder
      <3>2. CASE d = Refresher
        BY <1>1, <1>2, <2>2, <2>4, <3>2 DEF InOrder
      <3>3. CASE d # c /\ d # Refresher
        BY <1>2, <2>4, <3>3, ErrandOf DEF InOrder
      <3> QED BY <3>1, <3>2, <3>3
    <2>9. \A d \in Actors : BuildsStats(d)' <=> d = Refresher
      BY <1>3, <1>4, <2>2, <2>4, <2>5 DEF BuildsStats
    <2>10. \A d \in Actors : asker'[d].step # "waiting"
      BY <1>4, <2>2, <2>4, <2>5
    <2>11. OneBuilds'
      <3>1. \A d \in Actors : d \notin statsWaiters'
        BY <1>2, <2>5 DEF StatsInv, OneBuilds
      <3> QED BY <1>2, <1>3, <2>9, <2>10, <3>1 DEF OneBuilds
    <2>12. \A d \in Actors : /\ Fetches(d)' <=> Fetches(d)
                             /\ asker'[d].ask = "wait" <=> asker[d].ask = "wait"
      BY <1>3, <1>4, <2>2, <2>4, <2>6 DEF Fetches
    <2>13. OneFetches'
      BY <1>2, <2>12 DEF StatsInv, OneFetches
    <2> QED BY <1>5, <2>7, <2>8, <2>11, <2>13 DEF StatsInv
  <1> QED BY <1>7, <1>8

\* The caches are emptied: whoever builds or fetches began before, and does not keep it.
LEMMA ClearKeeps ==
  ASSUME StatsInv, NEW i \in Importers, ClearCveStatsCache(i)
  PROVE  StatsInv'
  <1>0. i \in Actors /\ i # Refresher
    BY StatsCacheAssumption DEF Actors
  <1>1. /\ tables \in Nat /\ cleared \in Nat /\ generation \in Nat /\ InOrder(i, asker[i])
    BY <1>0, ErrandOf
  <1>2. /\ UNCHANGED <<tables, building, statsWaiters, fetching, revisionWaiters>>
        /\ stats' = NoStats /\ revision' = [held |-> FALSE, of |-> 0]
        /\ generation' = generation + 1 /\ cleared' = tables
        /\ asker' = [b \in Actors |-> IF b \in {i} THEN NoErrand ELSE asker[b]]
    BY DEF ClearCveStatsCache, Ends
  <1>3. asker[i].step \in {"clear", "committed"} /\ asker[i].ask \in {"no", "told"}
    BY <1>1 DEF ClearCveStatsCache, InOrder
  <1>4. /\ NoErrand \in Errand /\ NoErrand.step = "idle" /\ NoErrand.ask = "no"
        /\ NoErrand.gen = 0 /\ NoErrand.revGen = 0
    BY DEF NoErrand, Errand, Times
  <1>5. ASSUME NEW b \in Actors
        PROVE  /\ asker'[b] \in Errand /\ InOrder(b, asker[b])'
               /\ asker'[b].step = "waiting" <=> asker[b].step = "waiting"
               /\ asker'[b].ask = "wait" <=> asker[b].ask = "wait"
               /\ BuildsStats(b)' <=> BuildsStats(b)
               /\ Fetches(b)' <=> Fetches(b)
    <2>1. asker[b] \in Errand /\ InOrder(b, asker[b])
      BY ErrandOf
    <2>2. CASE b = i
      <3>1. asker'[b] = NoErrand
        BY <1>2, <2>2
      <3>2. InOrder(b, asker[b])'
        BY <1>0, <1>1, <1>2, <1>4, <2>2, <3>1 DEF InOrder
      <3> QED BY <1>3, <1>4, <2>2, <3>1, <3>2 DEF BuildsStats, Fetches
    <2>3. CASE b # i
      <3>1. asker'[b] = asker[b]
        BY <1>2, <2>3
      <3>2. asker[b].gen \in Nat /\ asker[b].revGen \in Nat
        BY <2>1 DEF Errand
      <3>3. InOrder(b, asker[b])'
        BY <1>1, <1>2, <2>1, <3>1, <3>2 DEF InOrder
      <3> QED BY <2>1, <3>1, <3>3 DEF BuildsStats, Fetches
    <2> QED BY <2>2, <2>3
  <1>6. asker' \in [Actors -> Errand]
    BY <1>2, <1>5
  <1>7. stats' \in [age: {"none", "fresh", "stale"}, read: Nat, rev: Times]
        /\ stats'.age = "none" /\ revision' \in [held: BOOLEAN, of: Nat] /\ ~revision'.held
    BY <1>2 DEF NoStats, Times
  <1>8. CachesAreTyped'
    <2>1. building' \in BOOLEAN /\ fetching' \in BOOLEAN
      BY <1>2 DEF StatsInv, CachesAreTyped
    <2> QED BY <1>1, <1>2, <1>6, <1>7, <2>1 DEF CachesAreTyped
  <1>9. ErrandsAreInOrder'
    BY <1>5 DEF ErrandsAreInOrder
  <1>10. OneBuilds'
    BY <1>2, <1>5 DEF StatsInv, OneBuilds
  <1>11. OneFetches'
    BY <1>2, <1>5 DEF StatsInv, OneFetches
  <1>12. CachesAreFresh'
    BY <1>7 DEF CachesAreFresh
  <1> QED BY <1>8, <1>9, <1>10, <1>11, <1>12 DEF StatsInv

\* What is cached grows old, or goes.
LEMMA AgeingKeeps ==
  ASSUME StatsInv, StatsAge \/ RevisionExpires
  PROVE  StatsInv'
  <1>1. UNCHANGED <<tables, cleared, generation, building, statsWaiters, fetching,
                    revisionWaiters, asker>>
    BY DEF StatsAge, RevisionExpires, tableVars, statsCacheVars, revisionVars
  <1>2. /\ tables \in Nat /\ cleared \in Nat /\ generation \in Nat
        /\ stats \in [age: {"none", "fresh", "stale"}, read: Nat, rev: Times]
        /\ revision \in [held: BOOLEAN, of: Nat]
    BY DEF StatsInv, CachesAreTyped
  <1>3. CASE StatsAge
    <2>1. revision' = revision
      BY <1>3 DEF StatsAge, revisionVars
    <2>4. /\ stats' \in [age: {"none", "fresh", "stale"}, read: Nat, rev: Times]
          /\ stats'.age # "none" => stats'.read >= cleared
      <3>1. CASE stats.age = "fresh"
        <4>1. stats' = [stats EXCEPT !.age = "stale"]
          BY <1>3, <3>1 DEF StatsAge
        <4> QED BY <1>2, <3>1, <4>1 DEF StatsInv, CachesAreFresh
      <3>2. CASE stats.age # "fresh"
        <4>1. stats' = NoStats
          BY <1>3, <3>2 DEF StatsAge
        <4> QED BY <4>1 DEF NoStats, Times
      <3> QED BY <3>1, <3>2
    <2>5. CachesAreFresh'
      BY <1>1, <2>1, <2>4 DEF StatsInv, CachesAreFresh
    <2>6. CachesAreTyped'
      BY <1>1, <2>1, <2>4 DEF StatsInv, CachesAreTyped
    <2>7. ErrandsAreInOrder' /\ OneBuilds' /\ OneFetches'
      BY <1>1 DEF StatsInv, ErrandsAreInOrder, InOrder, OneBuilds, OneFetches, BuildsStats, Fetches
    <2> QED BY <2>5, <2>6, <2>7 DEF StatsInv
  <1>4. CASE RevisionExpires
    <2>1. stats' = stats /\ revision' = [held |-> FALSE, of |-> 0]
      BY <1>4 DEF RevisionExpires, statsCacheVars
    <2>2. revision' \in [held: BOOLEAN, of: Nat] /\ ~revision'.held
      BY <2>1
    <2>5. CachesAreFresh'
      BY <1>1, <2>1, <2>2 DEF StatsInv, CachesAreFresh
    <2>6. CachesAreTyped'
      BY <1>1, <2>1, <2>2 DEF StatsInv, CachesAreTyped
    <2>7. ErrandsAreInOrder' /\ OneBuilds' /\ OneFetches'
      BY <1>1 DEF StatsInv, ErrandsAreInOrder, InOrder, OneBuilds, OneFetches, BuildsStats, Fetches
    <2> QED BY <2>5, <2>6, <2>7 DEF StatsInv
  <1> QED BY <1>3, <1>4

\* The server starts with nothing cached.
LEMMA StatsStart == InitStatsCache => StatsInv
  <1> SUFFICES ASSUME InitStatsCache PROVE StatsInv
    OBVIOUS
  <1>1. /\ NoErrand \in Errand /\ NoErrand.step = "idle" /\ NoErrand.ask = "no"
        /\ NoErrand.gen = 0 /\ NoErrand.revGen = 0
    BY DEF NoErrand, Errand, Times
  <1>2. /\ tables = 0 /\ cleared = 0 /\ generation = 0 /\ stats = NoStats /\ building = FALSE
        /\ statsWaiters = {} /\ revision = [held |-> FALSE, of |-> 0] /\ fetching = FALSE
        /\ revisionWaiters = {} /\ asker = [a \in Actors |-> NoErrand]
    BY DEF InitStatsCache
  <1>3. CachesAreTyped
    <2>1. stats \in [age: {"none", "fresh", "stale"}, read: Nat, rev: Times]
      BY <1>2 DEF NoStats, Times
    <2>2. revision \in [held: BOOLEAN, of: Nat]
      BY <1>2
    <2>3. asker \in [Actors -> Errand]
      BY <1>1, <1>2
    <2>4. building \in BOOLEAN /\ fetching \in BOOLEAN
      BY <1>2, Zenon
    <2>5. tables \in Nat /\ cleared \in Nat /\ generation \in Nat /\ cleared <= tables
      BY <1>2
    <2> QED BY <2>1, <2>2, <2>3, <2>4, <2>5 DEF CachesAreTyped
  <1>4. ErrandsAreInOrder
    BY <1>1, <1>2 DEF ErrandsAreInOrder, InOrder
  <1>5. OneBuilds /\ OneFetches
    BY <1>1, <1>2 DEF OneBuilds, OneFetches, BuildsStats, Fetches
  <1>6. CachesAreFresh
    BY <1>2 DEF CachesAreFresh, NoStats
  <1> QED BY <1>3, <1>4, <1>5, <1>6 DEF StatsInv

\* Every step of the caches keeps the invariant.
LEMMA StatsStepKeeps == StatsInv /\ [NextStatsCache]_statsVars => StatsInv'
  <1> SUFFICES ASSUME StatsInv, [NextStatsCache]_statsVars PROVE StatsInv'
    OBVIOUS
  <1>1. ASSUME NEW a \in Actors, RevisionStep(a) PROVE StatsInv'
    BY <1>1, RevisionReadKeeps, RevisionWaitKeeps, FinishRevisionKeeps DEF RevisionStep
  <1>2. ASSUME NEW a \in Actors, StatsStep(a) PROVE StatsInv'
    BY <1>2, LookKeeps, ServeStaleKeeps, StatsWaitKeeps, StoreStatsKeeps, FinishStatsKeeps
       DEF StatsStep
  <1>3. ASSUME NEW c \in StatsClients,
               MissStats(c) \/ AskRevision(c) \/ ClientStep(c) \/ GiveUpStats(c)
        PROVE  StatsInv'
    <2>1. c \in Actors
      BY DEF Actors
    <2> QED BY <1>1, <1>2, <1>3, <2>1, AskKeeps, StatsWaitKeeps DEF ClientStep
  <1>4. ASSUME NEW i \in Importers, CommitTables(i) \/ ImporterStep(i) PROVE StatsInv'
    <2>1. i \in Actors
      BY DEF Actors
    <2> QED BY <1>1, <1>4, <2>1, CommitKeeps, ClearKeeps DEF ImporterStep
  <1>5. ASSUME NEW a \in Actors, GiveUpRevision(a) PROVE StatsInv'
    BY <1>5, RevisionWaitKeeps
  <1>6. CASE RefresherStep
    <2>1. Refresher \in Actors
      BY DEF Actors
    <2> QED BY <1>1, <1>2, <1>6, <2>1 DEF RefresherStep
  <1>7. CASE StatsAge \/ RevisionExpires
    BY <1>7, AgeingKeeps
  <1>8. CASE UNCHANGED statsVars
    BY <1>8 DEF statsVars, StatsInv, CachesAreTyped, ErrandsAreInOrder, InOrder, OneBuilds,
                OneFetches, BuildsStats, Fetches, CachesAreFresh
  <1> QED BY <1>3, <1>4, <1>5, <1>6, <1>7, <1>8 DEF NextStatsCache

\* Whatever builds, fetches, commits and clears meet: no cache holds again what was read
\* before the last clear, and whoever waits waits for somebody that works (handleCveDbStats,
\* securityDBRevisionMeta and clearCveStatsCache).
THEOREM TheStatsAreSound == StatsCacheSpec => []StatsCacheIsSound
  <1>1. StatsInv => StatsCacheIsSound
    BY DEF StatsInv, OneBuilds, OneFetches, StatsCacheIsSound, NobodyWaitsInVain
  <1> QED BY <1>1, StatsStart, StatsStepKeeps, PTL DEF StatsCacheSpec

-----------------------------------------------------------------------------
(* The migrations.                                                         *)

Texts == {"original", "edited", Unrecorded}

StartCall == [step: {"start", "legacy", "read", "baseline", "files", "serving", "failed"},
              legacy: BOOLEAN, applied: [Files -> Texts], next: Nat \ {0}]

\* The records of the database and the calls of the instances are what they are.
StartsAreTyped ==
    /\ before \in Nat
    /\ ran \in [Files -> Nat] /\ recorded \in [Files -> Texts]
    /\ start \in [Instances -> StartCall]

\* An untracked database that lacks what is inspected is never taken for complete: its
\* records are those of files that were run.
RecordsAreRun ==
    before < Inspected => \A f \in Files : recorded[f] # Unrecorded => ran[f] = 1

\* What a call has read of the records is still so, and the files before its next one are
\* recorded with the text of its release.
CallIsRight(s, r) ==
    /\ \A f \in Files : r.applied[f] # Unrecorded => recorded[f] = r.applied[f]
    /\ r.step # "files" => r.next = 1
    /\ r.next <= Knows[s] + 1
    /\ \A f \in Files : f < r.next => recorded[f] = Text(s, f)
    /\ r.legacy /\ before < Inspected => \E f \in Files : recorded[f] # Unrecorded
    /\ r.step = "baseline" => before >= Inspected
    /\ r.step = "serving" => \A f \in 1..Knows[s] :
           /\ recorded[f] # Unrecorded
           /\ before < Inspected => recorded[f] = Text(s, f)

CallsAreRight == \A s \in Instances : CallIsRight(s, start[s])

\* The inductive invariant.
MigrationsInv == StartsAreTyped /\ RunOnce /\ RecordsAreRun /\ CallsAreRight

\* Every file of every release is one of the files.
LEMMA FilesOfReleases ==
  /\ MaxFile \in Nat
  /\ \A s \in Instances : Knows[s] \in Nat \ {0} /\ Knows[s] <= MaxFile /\ Inspected <= MaxFile
  <1> DEFINE K == {Knows[s] : s \in Instances}
  <1>1. K \in SUBSET Nat /\ K # {}
    BY MigrationsAssumption
  <1>2. IsFiniteSet(K)
    <2>1. Knows \in Surjection(Instances, K)
      BY MigrationsAssumption DEF Surjection
    <2> HIDE DEF K
    <2> QED BY <2>1, MigrationsAssumption, FS_Surjection
  <1>3. PICK m \in K : \A k \in K : k <= m
    <2> HIDE DEF K
    <2> QED BY <1>1, <1>2, LargestOf
  <1>4. \A s \in Instances : Knows[s] <= m
    BY <1>3
  <1>5. MaxFile \in K /\ \A s \in Instances : Knows[s] <= MaxFile
    BY <1>4 DEF MaxFile
  <1>6. \A s \in Instances : Inspected <= Knows[s] /\ Inspected \in Nat
    BY MigrationsAssumption
  <1> QED BY <1>1, <1>5, <1>6, MigrationsAssumption

\* A call that has not started has read nothing.
LEMMA FirstCall ==
  /\ NotStarted \in StartCall /\ NotStarted.step = "start" /\ NotStarted.next = 1
  /\ NotStarted.legacy = FALSE /\ NotStarted.applied = [f \in Files |-> Unrecorded]
  BY DEF NotStarted, StartCall, Texts

\* A call takes a step that leaves the records alone.
LEMMA CallMoves ==
  ASSUME MigrationsInv, NEW s \in Instances, NEW r \in StartCall,
         start' = [start EXCEPT ![s] = r], UNCHANGED <<before, ran, recorded>>,
         CallIsRight(s, r)
  PROVE  MigrationsInv'
  <1>1. StartsAreTyped'
    BY DEF MigrationsInv, StartsAreTyped
  <1>2. RunOnce' /\ RecordsAreRun'
    BY DEF MigrationsInv, RunOnce, RecordsAreRun
  <1>3. ASSUME NEW t \in Instances PROVE CallIsRight(t, start[t])'
    <2>1. start'[t] = IF t = s THEN r ELSE start[t]
      BY DEF MigrationsInv, StartsAreTyped
    <2>2. CallIsRight(t, start[t])
      BY DEF MigrationsInv, CallsAreRight
    <2>3. CASE t = s
      BY <2>1, <2>3 DEF CallIsRight, Text
    <2>4. CASE t # s
      BY <2>1, <2>2, <2>4 DEF CallIsRight, Text
    <2> QED BY <2>3, <2>4
  <1> QED BY <1>1, <1>2, <1>3 DEF MigrationsInv, CallsAreRight

\* Files are recorded: what was recorded stays, and the calls that do not record see it so.
LEMMA OthersStayRight ==
  ASSUME MigrationsInv, NEW s \in Instances, NEW r \in StartCall,
         start' = [start EXCEPT ![s] = r], before' = before,
         recorded' \in [Files -> Texts],
         \A f \in Files : recorded[f] # Unrecorded => recorded'[f] = recorded[f],
         NEW t \in Instances, t # s
  PROVE  CallIsRight(t, start[t])'
  <1>1. start'[t] = start[t] /\ start[t] \in StartCall /\ before \in Nat
    BY DEF MigrationsInv, StartsAreTyped
  <1>2. CallIsRight(t, start[t])
    BY DEF MigrationsInv, CallsAreRight
  <1>3. \A f \in Files : Text(t, f) # Unrecorded
    BY DEF Text, Unrecorded
  <1>4. \A f \in 1..Knows[t] : f \in Files
    BY FilesOfReleases DEF Files
  <1>5. \A f \in Files : start'[t].applied[f] # Unrecorded => recorded'[f] = start'[t].applied[f]
    BY <1>1, <1>2 DEF CallIsRight
  <1>6. /\ start'[t].step # "files" => start'[t].next = 1
        /\ start'[t].next <= Knows[t] + 1
        /\ start'[t].step = "baseline" => before' >= Inspected
    BY <1>1, <1>2 DEF CallIsRight
  <1>7. \A f \in Files : f < start'[t].next => recorded'[f] = Text(t, f)
    BY <1>1, <1>2, <1>3 DEF CallIsRight
  <1>8. start'[t].legacy /\ before' < Inspected => \E f \in Files : recorded'[f] # Unrecorded
    BY <1>1, <1>2 DEF CallIsRight
  <1>9. start'[t].step = "serving" => \A f \in 1..Knows[t] :
           /\ recorded'[f] # Unrecorded
           /\ before' < Inspected => recorded'[f] = Text(t, f)
    BY <1>1, <1>2, <1>4 DEF CallIsRight
  <1> QED BY <1>5, <1>6, <1>7, <1>8, <1>9 DEF CallIsRight, Text

\* What is known of a call.
LEMMA CallOf ==
  ASSUME MigrationsInv, NEW s \in Instances
  PROVE  /\ start[s] \in StartCall /\ CallIsRight(s, start[s])
         /\ Knows[s] \in Nat \ {0} /\ Knows[s] <= MaxFile /\ MaxFile \in Nat
         /\ before \in Nat /\ Inspected \in Nat \ {0} /\ Inspected <= MaxFile
         /\ ran \in [Files -> Nat] /\ recorded \in [Files -> Texts]
         /\ start \in [Instances -> StartCall]
  BY FilesOfReleases, MigrationsAssumption DEF MigrationsInv, StartsAreTyped, CallsAreRight

\* A call begins, looks at the schema, and reads the records.
LEMMA ReadingKeeps ==
  ASSUME MigrationsInv, NEW s \in Instances,
         TakeLock(s) \/ LegacySchemaComplete(s) \/ AppliedMigrations(s) \/ StartAgain(s)
  PROVE  MigrationsInv'
  <1>1. /\ start[s] \in StartCall /\ CallIsRight(s, start[s])
        /\ Knows[s] \in Nat \ {0} /\ MaxFile \in Nat /\ recorded \in [Files -> Texts]
        /\ before \in Nat /\ Inspected \in Nat \ {0} /\ Inspected <= MaxFile
    BY CallOf
  <1>2. UNCHANGED <<before, ran, recorded>>
    BY DEF TakeLock, LegacySchemaComplete, AppliedMigrations, StartAgain
  <1>3. CASE TakeLock(s) \/ StartAgain(s)
    <2>1. PICK to \in {"legacy", "start"} : start' = [start EXCEPT ![s].step = to]
      BY <1>3 DEF TakeLock, StartAgain, Steps
    <2>2. start[s].step # "files"
      BY <1>3 DEF TakeLock, StartAgain
    <2>3. PICK r : r = [start[s] EXCEPT !.step = to]
      OBVIOUS
    <2>4. start' = [start EXCEPT ![s] = r]
      BY <2>1, <2>3
    <2>5. /\ r \in StartCall /\ r.step = to /\ r.legacy = start[s].legacy
          /\ r.applied = start[s].applied /\ r.next = start[s].next
      BY <1>1, <2>3 DEF StartCall
    <2>6. CallIsRight(s, r)
      BY <1>1, <2>2, <2>5 DEF CallIsRight
    <2> QED BY <1>2, <2>4, <2>5, <2>6, CallMoves
  <1>4. CASE LegacySchemaComplete(s)
    <2>1. PICK l \in BOOLEAN : l = (\A f \in Files : f <= Inspected => InEffect(f))
      OBVIOUS
    <2>2. PICK r : r = [start[s] EXCEPT !.step = "read", !.legacy = l]
      OBVIOUS
    <2>3. start' = [start EXCEPT ![s] = r] /\ start[s].step = "legacy"
      BY <1>4, <2>1, <2>2 DEF LegacySchemaComplete
    <2>4. /\ r \in StartCall /\ r.step = "read" /\ r.legacy = l
          /\ r.applied = start[s].applied /\ r.next = start[s].next
      BY <1>1, <2>2 DEF StartCall
    <2>5. ASSUME l, before < Inspected PROVE \E f \in Files : recorded[f] # Unrecorded
      <3>1. before + 1 \in Files /\ before + 1 <= Inspected /\ ~(before + 1 <= before)
        BY <1>1, <2>5 DEF Files
      <3>2. InEffect(before + 1)
        BY <2>1, <2>5, <3>1
      <3>3. PICK g \in Files : g = before + 1
        BY <3>1
      <3>4. ran[g] > 0
        BY <3>1, <3>2, <3>3 DEF InEffect
      <3>5. ran[g] \in Nat /\ ran[g] <= 1 /\ (ran[g] = 1 => recorded[g] # Unrecorded)
        BY DEF MigrationsInv, StartsAreTyped, RunOnce
      <3> QED BY <3>4, <3>5
    <2>6. CallIsRight(s, r)
      BY <1>1, <2>3, <2>4, <2>5 DEF CallIsRight
    <2> QED BY <1>2, <2>3, <2>4, <2>6, CallMoves
  <1>5. CASE AppliedMigrations(s)
    <2>1. PICK to \in {"baseline", "files"} :
              to = IF start[s].legacy /\ \A f \in Files : recorded[f] = Unrecorded
                   THEN "baseline" ELSE "files"
      OBVIOUS
    <2>2. PICK r : r = [start[s] EXCEPT !.applied = recorded, !.step = to]
      OBVIOUS
    <2>3. start' = [start EXCEPT ![s] = r] /\ start[s].step = "read"
      BY <1>5, <2>1, <2>2 DEF AppliedMigrations
    <2>4. /\ r \in StartCall /\ r.step = to /\ r.legacy = start[s].legacy
          /\ r.applied = recorded /\ r.next = start[s].next
      BY <1>1, <2>2 DEF StartCall
    <2>5. to = "baseline" => before >= Inspected
      BY <1>1, <2>1 DEF CallIsRight
    <2>6. CallIsRight(s, r)
      BY <1>1, <2>3, <2>4, <2>5 DEF CallIsRight
    <2> QED BY <1>2, <2>3, <2>4, <2>6, CallMoves
  <1> QED BY <1>3, <1>4, <1>5

\* A call ends: it fails, or its server serves.
LEMMA CallEnds ==
  ASSUME MigrationsInv, NEW s \in Instances, NEW to \in {"failed", "serving"},
         StopsAt(s, to), UNCHANGED <<before, ran, recorded>>,
         to = "serving" => start[s].step = "files" /\ start[s].next > Knows[s]
  PROVE  MigrationsInv'
  <1>1. /\ start[s] \in StartCall /\ CallIsRight(s, start[s])
        /\ Knows[s] \in Nat \ {0} /\ MaxFile \in Nat /\ Knows[s] <= MaxFile
        /\ recorded \in [Files -> Texts]
    BY CallOf
  <1>2. PICK r : r = [NotStarted EXCEPT !.step = to]
    OBVIOUS
  <1>3. start' = [start EXCEPT ![s] = r]
    BY <1>2 DEF StopsAt
  <1>4. /\ r \in StartCall /\ r.step = to /\ r.legacy = FALSE /\ r.next = 1
        /\ r.applied = [f \in Files |-> Unrecorded]
    BY <1>2, FirstCall DEF StartCall
  <1>5. ASSUME to = "serving", NEW f \in 1..Knows[s]
        PROVE  recorded[f] # Unrecorded /\ recorded[f] = Text(s, f)
    <2>1. f \in Files /\ f < start[s].next
      BY <1>1, <1>5 DEF Files, StartCall
    <2>2. recorded[f] = Text(s, f)
      BY <1>1, <2>1 DEF CallIsRight
    <2> QED BY <2>2 DEF Text, Unrecorded
  <1>6. \A f \in Files : r.applied[f] = Unrecorded /\ ~(f < r.next)
    BY <1>4 DEF Files
  <1>7. CallIsRight(s, r)
    BY <1>1, <1>4, <1>5, <1>6 DEF CallIsRight
  <1> QED BY <1>3, <1>4, <1>7, CallMoves

\* The files of a whole schema that nobody tracked are recorded.
LEMMA BaselineKeeps ==
  ASSUME MigrationsInv, NEW s \in Instances, BaselineMigrations(s)
  PROVE  MigrationsInv'
  <1>1. /\ start[s] \in StartCall /\ CallIsRight(s, start[s])
        /\ Knows[s] \in Nat \ {0} /\ MaxFile \in Nat /\ Knows[s] <= MaxFile
        /\ before \in Nat /\ Inspected \in Nat \ {0} /\ recorded \in [Files -> Texts]
        /\ ran \in [Files -> Nat] /\ start \in [Instances -> StartCall]
    BY CallOf
  <1>2. /\ before' = before /\ ran' = ran /\ start[s].step = "baseline"
        /\ recorded' = [f \in Files |-> IF f <= Knows[s] /\ recorded[f] = Unrecorded
                                        THEN Text(s, f) ELSE recorded[f]]
    BY DEF BaselineMigrations
  <1>3. PICK r : r = [NotStarted EXCEPT !.step = "serving"]
    OBVIOUS
  <1>4. start' = [start EXCEPT ![s] = r]
    BY <1>3 DEF BaselineMigrations, StopsAt
  <1>5. /\ r \in StartCall /\ r.step = "serving" /\ r.legacy = FALSE /\ r.next = 1
        /\ r.applied = [f \in Files |-> Unrecorded]
    BY <1>3, FirstCall DEF StartCall
  <1>6. before >= Inspected
    BY <1>1, <1>2 DEF CallIsRight
  <1>7. /\ recorded' \in [Files -> Texts]
        /\ \A f \in Files : recorded[f] # Unrecorded => recorded'[f] = recorded[f]
        /\ \A f \in Files : f <= Knows[s] => recorded'[f] # Unrecorded
        /\ \A f \in Files : ~(f <= Knows[s]) => recorded'[f] = recorded[f]
    BY <1>1, <1>2 DEF Text, Texts, Unrecorded
  <1>8. StartsAreTyped'
    BY <1>1, <1>2, <1>4, <1>5, <1>7 DEF StartsAreTyped
  <1>9. RunOnce'
    <2> SUFFICES ASSUME NEW f \in Files
                 PROVE  /\ ran[f] <= 1
                        /\ ran[f] = 1 => recorded'[f] # Unrecorded
                        /\ recorded'[f] # Unrecorded => \A g \in 1..f : recorded'[g] # Unrecorded
      BY <1>2 DEF RunOnce
    <2>1. \A g \in 1..f : g \in Files /\ g <= f
      BY <1>1 DEF Files
    <2>2. /\ ran[f] <= 1
          /\ ran[f] = 1 => recorded[f] # Unrecorded
          /\ recorded[f] # Unrecorded => \A g \in 1..f : recorded[g] # Unrecorded
      BY DEF MigrationsInv, RunOnce
    <2>3. CASE f <= Knows[s]
      <3>1. \A g \in 1..f : g <= Knows[s]
        BY <1>1, <2>3 DEF Files
      <3> QED BY <1>7, <2>1, <2>2, <2>3, <3>1
    <2>4. CASE ~(f <= Knows[s])
      BY <1>7, <2>1, <2>2, <2>4
    <2> QED BY <2>3, <2>4
  <1>10. RecordsAreRun'
    BY <1>1, <1>2, <1>6 DEF RecordsAreRun
  <1>11. CallIsRight(s, start[s])'
    <2>1. start'[s] = r
      BY <1>1, <1>4
    <2>2. \A f \in 1..Knows[s] : f \in Files /\ recorded'[f] # Unrecorded
      BY <1>1, <1>7 DEF Files
    <2>3. \A f \in Files : r.applied[f] = Unrecorded /\ ~(f < r.next)
      BY <1>5 DEF Files
    <2> QED BY <1>1, <1>2, <1>5, <1>6, <2>1, <2>2, <2>3 DEF CallIsRight
  <1>12. \A t \in Instances : CallIsRight(t, start[t])'
    BY <1>2, <1>4, <1>5, <1>7, <1>11, OthersStayRight
  <1> QED BY <1>8, <1>9, <1>10, <1>12 DEF MigrationsInv, CallsAreRight

\* A file that is recorded is passed over, or its text has changed and the call fails.
LEMMA AppliedFileKeeps ==
  ASSUME MigrationsInv, NEW s \in Instances, AppliedFile(s)
  PROVE  MigrationsInv'
  <1>1. /\ start[s] \in StartCall /\ CallIsRight(s, start[s])
        /\ Knows[s] \in Nat \ {0} /\ MaxFile \in Nat /\ Knows[s] <= MaxFile
        /\ recorded \in [Files -> Texts]
    BY CallOf
  <1>2. UNCHANGED <<before, ran, recorded>> /\ start[s].step = "files"
    BY DEF AppliedFile
  <1>3. PICK f \in Files : f = start[s].next /\ f <= Knows[s]
    BY <1>1 DEF AppliedFile, Files, StartCall
  <1>4. start[s].applied[f] # Unrecorded
    BY <1>3 DEF AppliedFile
  <1>5. CASE Fails(s)
    BY <1>2, <1>5, CallEnds DEF Fails
  <1>6. CASE start[s].applied[f] = Text(s, f) /\ start' = [start EXCEPT ![s].next = f + 1]
    <2>1. PICK r : r = [start[s] EXCEPT !.next = f + 1]
      OBVIOUS
    <2>2. start' = [start EXCEPT ![s] = r]
      BY <1>6, <2>1
    <2>3. f \in Nat /\ f + 1 \in Nat \ {0}
      BY DEF Files
    <2>4. /\ r \in StartCall /\ r.step = "files" /\ r.legacy = start[s].legacy
          /\ r.applied = start[s].applied /\ r.next = f + 1
      BY <1>1, <1>2, <2>1, <2>3 DEF StartCall
    <2>5. \A g \in Files : g < f + 1 => recorded[g] = Text(s, g)
      <3> SUFFICES ASSUME NEW g \in Files, g < f + 1 PROVE recorded[g] = Text(s, g)
        OBVIOUS
      <3>1. CASE g = f
        BY <1>1, <1>4, <1>6, <3>1 DEF CallIsRight
      <3>2. CASE g # f
        <4>1. g < start[s].next
          BY <1>3, <3>2 DEF Files
        <4> QED BY <1>1, <4>1 DEF CallIsRight
      <3> QED BY <3>1, <3>2
    <2>6. f + 1 <= Knows[s] + 1
      BY <1>1, <1>3, <2>3
    <2>7. CallIsRight(s, r)
      BY <1>1, <1>2, <2>4, <2>5, <2>6 DEF CallIsRight
    <2> QED BY <1>2, <2>2, <2>4, <2>7, CallMoves
  <1> QED BY <1>3, <1>5, <1>6 DEF AppliedFile

\* A file is run and recorded, or somebody has recorded it first and the call fails.
LEMMA RunFileKeeps ==
  ASSUME MigrationsInv, NEW s \in Instances, RunFile(s)
  PROVE  MigrationsInv'
  <1>1. /\ start[s] \in StartCall /\ CallIsRight(s, start[s])
        /\ Knows[s] \in Nat \ {0} /\ MaxFile \in Nat /\ Knows[s] <= MaxFile
        /\ before \in Nat /\ Inspected \in Nat \ {0} /\ recorded \in [Files -> Texts]
        /\ ran \in [Files -> Nat] /\ start \in [Instances -> StartCall]
    BY CallOf
  <1>2. before' = before /\ start[s].step = "files"
    BY DEF RunFile
  <1>3. PICK f \in Files : f = start[s].next /\ f <= Knows[s]
    BY <1>1 DEF RunFile, Files, StartCall
  <1>4. CASE Fails(s) /\ UNCHANGED <<ran, recorded>>
    BY <1>2, <1>4, CallEnds DEF Fails
  <1>5. CASE /\ recorded[f] = Unrecorded
             /\ ran' = [ran EXCEPT ![f] = @ + 1]
             /\ recorded' = [recorded EXCEPT ![f] = Text(s, f)]
             /\ start' = [start EXCEPT ![s].next = f + 1]
    <2>1. PICK r : r = [start[s] EXCEPT !.next = f + 1]
      OBVIOUS
    <2>2. start' = [start EXCEPT ![s] = r]
      BY <1>5, <2>1
    <2>3. f \in Nat /\ f + 1 \in Nat \ {0}
      BY DEF Files
    <2>4. /\ r \in StartCall /\ r.step = "files" /\ r.legacy = start[s].legacy
          /\ r.applied = start[s].applied /\ r.next = f + 1
      BY <1>1, <1>2, <2>1, <2>3 DEF StartCall
    <2>5. Text(s, f) \in Texts /\ Text(s, f) # Unrecorded
      BY DEF Text, Texts, Unrecorded
    <2>6. ran[f] = 0
      BY <1>1, <1>5 DEF MigrationsInv, RunOnce
    <2>7. /\ recorded' \in [Files -> Texts] /\ ran' \in [Files -> Nat]
          /\ recorded'[f] = Text(s, f) /\ ran'[f] = 1
          /\ \A g \in Files : g # f => recorded'[g] = recorded[g] /\ ran'[g] = ran[g]
      BY <1>1, <1>5, <2>5, <2>6
    <2>8. StartsAreTyped'
      BY <1>1, <1>2, <2>2, <2>4, <2>7 DEF StartsAreTyped
    <2>9. \A g \in Files : g < f => recorded[g] = Text(s, g) /\ Text(s, g) # Unrecorded
      BY <1>1, <1>3 DEF CallIsRight, Text, Unrecorded
    <2>10. RunOnce'
      <3> SUFFICES ASSUME NEW g \in Files
                   PROVE  /\ ran'[g] <= 1
                          /\ ran'[g] = 1 => recorded'[g] # Unrecorded
                          /\ recorded'[g] # Unrecorded => \A h \in 1..g : recorded'[h] # Unrecorded
        BY DEF RunOnce
      <3>1. \A h \in 1..g : h \in Files
        BY <1>1 DEF Files
      <3>2. CASE g = f
        <4>1. \A h \in 1..g : h = f \/ h < f
          BY <3>2 DEF Files
        <4> QED BY <2>5, <2>7, <2>9, <3>1, <3>2, <4>1
      <3>3. CASE g # f
        <4>1. /\ ran[g] <= 1
              /\ ran[g] = 1 => recorded[g] # Unrecorded
              /\ recorded[g] # Unrecorded => \A h \in 1..g : recorded[h] # Unrecorded
          BY DEF MigrationsInv, RunOnce
        <4> QED BY <2>5, <2>7, <3>1, <3>3, <4>1
      <3> QED BY <3>2, <3>3
    <2>11. RecordsAreRun'
      BY <1>2, <2>7 DEF MigrationsInv, RecordsAreRun
    <2>12. CallIsRight(s, start[s])'
      <3>1. start'[s] = r
        BY <1>1, <2>2
      <3>2. \A g \in Files : g < f + 1 => recorded'[g] = Text(s, g)
        <4> SUFFICES ASSUME NEW g \in Files, g < f + 1 PROVE recorded'[g] = Text(s, g)
          OBVIOUS
        <4>1. g = f \/ g < f
          BY DEF Files
        <4>2. g < f => g # f
          BY <2>3 DEF Files
        <4> QED BY <2>7, <2>9, <4>1, <4>2
      <3>3. f + 1 <= Knows[s] + 1
        BY <1>1, <1>3, <2>3
      <3>4. \A g \in Files : r.applied[g] # Unrecorded => recorded'[g] = r.applied[g]
        <4> SUFFICES ASSUME NEW g \in Files, start[s].applied[g] # Unrecorded
                     PROVE  recorded'[g] = start[s].applied[g]
          BY <2>4
        <4>1. recorded[g] = start[s].applied[g]
          BY <1>1 DEF CallIsRight
        <4> QED BY <1>5, <2>7, <4>1
      <3>5. \E g \in Files : recorded'[g] # Unrecorded
        BY <2>5, <2>7
      <3> QED BY <2>4, <3>1, <3>2, <3>3, <3>4, <3>5 DEF CallIsRight, Text
    <2>13. \A g \in Files : recorded[g] # Unrecorded => recorded'[g] = recorded[g]
      BY <1>5, <2>7
    <2>14. \A t \in Instances : CallIsRight(t, start[t])'
      BY <1>2, <2>2, <2>4, <2>7, <2>12, <2>13, OthersStayRight
    <2> QED BY <2>8, <2>10, <2>11, <2>14 DEF MigrationsInv, CallsAreRight
  <1> QED BY <1>3, <1>4, <1>5 DEF RunFile

\* Nothing is recorded, and nobody has started.
LEMMA MigrationsStart == InitMigrations => MigrationsInv
  <1> SUFFICES ASSUME InitMigrations PROVE MigrationsInv
    OBVIOUS
  <1>1. MaxFile \in Nat
    BY FilesOfReleases
  <1>2. /\ NotStarted \in StartCall /\ NotStarted.step = "start" /\ NotStarted.next = 1
        /\ NotStarted.legacy = FALSE /\ NotStarted.applied = [f \in Files |-> Unrecorded]
    BY FirstCall
  <1>3. /\ ran = [f \in Files |-> 0] /\ recorded = [f \in Files |-> Unrecorded]
        /\ start = [s \in Instances |-> NotStarted] /\ before \in 0..MaxFile
    BY DEF InitMigrations
  <1>4. StartsAreTyped
    BY <1>1, <1>2, <1>3 DEF StartsAreTyped, Texts
  <1>5. RunOnce /\ RecordsAreRun
    BY <1>3 DEF RunOnce, RecordsAreRun
  <1>6. ASSUME NEW s \in Instances PROVE CallIsRight(s, start[s])
    <2>1. start[s] = NotStarted
      BY <1>3
    <2>2. \A f \in Files : ~(f < 1)
      BY DEF Files
    <2>3. Knows[s] \in Nat \ {0}
      BY FilesOfReleases
    <2> QED BY <1>2, <2>1, <2>2, <2>3 DEF CallIsRight
  <1> QED BY <1>4, <1>5, <1>6 DEF MigrationsInv, CallsAreRight

\* Every step of a start keeps the invariant.
LEMMA MigrationsStepKeeps == MigrationsInv /\ [NextMigrations]_migrationVars => MigrationsInv'
  <1> SUFFICES ASSUME MigrationsInv, [NextMigrations]_migrationVars PROVE MigrationsInv'
    OBVIOUS
  <1>1. ASSUME NEW s \in Instances, MigrationsDone(s) PROVE MigrationsInv'
    BY <1>1, CallEnds DEF MigrationsDone
  <1>2. ASSUME NEW s \in Instances, StartFails(s) PROVE MigrationsInv'
    BY <1>2, CallEnds DEF StartFails, Fails
  <1>3. CASE LockIsLost \/ UNCHANGED migrationVars
    <2>1. UNCHANGED <<before, ran, recorded, start>>
      BY <1>3 DEF LockIsLost, migrationVars
    <2> QED BY <2>1 DEF MigrationsInv, StartsAreTyped, RunOnce, RecordsAreRun, CallsAreRight,
                        CallIsRight, Text
  <1> QED BY <1>1, <1>2, <1>3, ReadingKeeps, BaselineKeeps, AppliedFileKeeps, RunFileKeeps
          DEF NextMigrations

\* However many instances start, fail and lose the lock, no file is run twice or out of its
\* order, and who serves finds its schema (RunMigrations).
THEOREM TheMigrationsAreSound == MigrationsSpec => []MigrationsAreSound
  <1>1. MigrationsInv => MigrationsAreSound
    <2> SUFFICES ASSUME MigrationsInv PROVE RunOnce /\ SchemaIsComplete
      BY DEF MigrationsAreSound
    <2>1. ASSUME NEW s \in Instances, start[s].step = "serving", NEW f \in 1..Knows[s]
          PROVE  /\ recorded[f] # Unrecorded
                 /\ before < Inspected => InEffect(f) /\ recorded[f] = Text(s, f)
      <3>1. f \in Files
        BY FilesOfReleases DEF Files
      <3>2. /\ recorded[f] # Unrecorded
            /\ before < Inspected => recorded[f] = Text(s, f)
        BY <2>1, CallOf DEF CallIsRight
      <3>3. before < Inspected => ran[f] = 1
        BY <3>1, <3>2 DEF MigrationsInv, RecordsAreRun
      <3> QED BY <3>2, <3>3 DEF InEffect
    <2> QED BY <2>1 DEF MigrationsInv, SchemaIsComplete
  <1> QED BY <1>1, MigrationsStart, MigrationsStepKeeps, PTL DEF MigrationsSpec

-----------------------------------------------------------------------------
(* The keys of the OpenID provider.                                        *)

\* How long a key that was taken back may serve on.
Grace == FetchTime + KeysTTL

\* Keys that are published were never taken back, and the others not in the future.
WithdrawalsArePast ==
    /\ time \in 0..MaxTime /\ published \subseteq KeyIds
    /\ withdrawn \in [KeyIds -> 0..Never]
    /\ \A k \in published : withdrawn[k] = Never

\* The verifier's keys run out soon after they were taken back.
CacheRunsOut ==
    /\ keys.ids \subseteq KeyIds /\ keys.until \in Int /\ keys.until <= time + KeysTTL
    /\ \A k \in keys.ids : keys.until <= withdrawn[k] + Grace

Bearing == [step: {"idle", "fetch", "answer", "look", "accepted"},
            jwt: JWTs \cup {NoBearer.jwt}, since: 0..MaxTime, got: SUBSET KeyIds]

\* A fetch does not outlast the client's limit, and what it was answered was published
\* after it began.
RecentAnswer(r) ==
    r.step \in {"fetch", "answer"} =>
        /\ r.since <= time /\ time <= r.since + FetchTime
        /\ r.step = "answer" => \A k \in r.got : r.since <= withdrawn[k]

\* A token was accepted in time.
AcceptedInTime(r) ==
    r.step = "accepted" =>
        /\ r.since <= time
        /\ r.jwt.signed /\ r.jwt.ours /\ r.jwt.exp > r.since
        /\ r.since <= withdrawn[r.jwt.kid] + Grace

BearersAreInTime ==
    /\ bearer \in [Bearers -> Bearing]
    /\ \A b \in Bearers :
          /\ bearer[b].step # "idle" => bearer[b].jwt \in JWTs
          /\ RecentAnswer(bearer[b]) /\ AcceptedInTime(bearer[b])

\* The inductive invariant.
KeysInv == WithdrawalsArePast /\ CacheRunsOut /\ BearersAreInTime

\* The limits are numbers.
LEMMA BoundsAreNumbers ==
  /\ MaxTime \in Nat /\ Never \in Nat /\ Never > MaxTime /\ Grace \in Nat
  /\ Grace = FetchTime + KeysTTL /\ KeysTTL \in Nat /\ FetchTime \in Nat
  BY OIDCAssumption DEF Never, Grace

\* A request goes from one state to another, and nothing else changes.
LEMMA BearerMoves ==
  ASSUME KeysInv, NEW b \in Bearers, NEW r \in Bearing, bearer' = [bearer EXCEPT ![b] = r],
         UNCHANGED <<time, published, withdrawn>>,
         r.step # "idle" => r.jwt \in JWTs, RecentAnswer(r), AcceptedInTime(r)
  PROVE  WithdrawalsArePast' /\ BearersAreInTime'
  <1> USE DEF KeysInv
  <1>1. WithdrawalsArePast'
    BY DEF WithdrawalsArePast
  <1>2. /\ bearer' \in [Bearers -> Bearing] /\ bearer'[b] = r
        /\ \A c \in Bearers : c # b => bearer'[c] = bearer[c]
    BY DEF BearersAreInTime
  <1>3. ASSUME NEW c \in Bearers
        PROVE  /\ bearer'[c].step # "idle" => bearer'[c].jwt \in JWTs
               /\ RecentAnswer(bearer[c])' /\ AcceptedInTime(bearer[c])'
    <2>1. CASE c = b
      BY <1>2, <2>1 DEF RecentAnswer, AcceptedInTime
    <2>2. CASE c # b
      BY <1>2, <2>2 DEF BearersAreInTime, RecentAnswer, AcceptedInTime
    <2> QED BY <2>1, <2>2
  <1> QED BY <1>1, <1>2, <1>3 DEF BearersAreInTime

\* NoBearer is the state of a request that has no token.
LEMMA NoBearerIsIdle == NoBearer \in Bearing /\ NoBearer.step = "idle"
  BY OIDCAssumption DEF NoBearer, Bearing

\* What the verifier decides.
LEMMA DecisionKeeps ==
  ASSUME KeysInv, NEW b \in Bearers, NEW j \in JWTs, NEW found \in BOOLEAN,
         Decided(b, j, found), found => Cached(j.kid),
         UNCHANGED <<time, published, withdrawn, keys>>
  PROVE  KeysInv'
  <1> USE DEF KeysInv
  <1>1. CacheRunsOut'
    BY DEF CacheRunsOut
  <1>2. CASE found /\ Verified(j)
    <2>1. PICK r : r = [step |-> "accepted", jwt |-> j, since |-> time, got |-> {}]
      OBVIOUS
    <2>2. r \in Bearing /\ r.step = "accepted" /\ r.jwt = j /\ r.since = time
      BY <2>1 DEF Bearing, WithdrawalsArePast
    <2>3. bearer' = [bearer EXCEPT ![b] = r]
      BY <1>2, <2>1 DEF Decided
    <2>4. j.signed /\ j.ours /\ j.exp > time
      BY <1>2 DEF Verified
    <2>5. time <= withdrawn[j.kid] + Grace
      <3>1. time <= keys.until /\ j.kid \in keys.ids /\ j.kid \in KeyIds
        BY <1>2 DEF Cached, CacheRunsOut
      <3>2. keys.until <= withdrawn[j.kid] + Grace
        BY <3>1 DEF CacheRunsOut
      <3>3. withdrawn[j.kid] \in Nat /\ Grace \in Nat /\ time \in Nat /\ keys.until \in Int
        <4>1. withdrawn[j.kid] \in 0..Never /\ time \in 0..MaxTime /\ keys.until \in Int
          BY <3>1 DEF WithdrawalsArePast, CacheRunsOut
        <4> QED BY <4>1, BoundsAreNumbers
      <3> QED BY <3>1, <3>2, <3>3
    <2>6. RecentAnswer(r) /\ AcceptedInTime(r)
      BY <2>2, <2>4, <2>5 DEF RecentAnswer, AcceptedInTime, WithdrawalsArePast
    <2> QED BY <1>1, <2>2, <2>3, <2>6, BearerMoves
  <1>3. CASE ~(found /\ Verified(j))
    <2>1. bearer' = [bearer EXCEPT ![b] = NoBearer]
      BY <1>3 DEF Decided
    <2>2. RecentAnswer(NoBearer) /\ AcceptedInTime(NoBearer)
      BY NoBearerIsIdle DEF RecentAnswer, AcceptedInTime
    <2> QED BY <1>1, <2>1, <2>2, NoBearerIsIdle, BearerMoves
  <1> QED BY <1>2, <1>3

\* A request asks for the keys and uses them.
LEMMA RequestKeeps ==
  ASSUME KeysInv, NEW b \in Bearers,
         \/ OidcIdentity(b) \/ JWKSAnswer(b) \/ RefreshFails(b) \/ LookAgain(b) \/ AnswerBearer(b)
  PROVE  KeysInv'
  <1>0. /\ UNCHANGED <<time, published, withdrawn, keys>>
        /\ bearer[b] \in Bearing /\ bearer \in [Bearers -> Bearing] /\ time \in 0..MaxTime
        /\ RecentAnswer(bearer[b]) /\ (bearer[b].step # "idle" => bearer[b].jwt \in JWTs)
    BY DEF OidcIdentity, JWKSAnswer, RefreshFails, LookAgain, AnswerBearer, KeysInv,
           BearersAreInTime, WithdrawalsArePast
  <1>c. CacheRunsOut'
    BY <1>0 DEF KeysInv, CacheRunsOut
  <1>1. ASSUME OidcIdentity(b) PROVE KeysInv'
    <2>1. PICK j \in JWTs :
             IF Cached(j.kid) THEN Decided(b, j, TRUE)
             ELSE bearer' = [bearer EXCEPT ![b] = [step |-> "fetch", jwt |-> j,
                                                   since |-> time, got |-> {}]]
      BY <1>1 DEF OidcIdentity
    <2>2. CASE Cached(j.kid)
      BY <1>0, <2>1, <2>2, DecisionKeeps
    <2>3. CASE ~Cached(j.kid)
      <3>1. PICK r : r = [step |-> "fetch", jwt |-> j, since |-> time, got |-> {}]
        OBVIOUS
      <3>2. r \in Bearing /\ r.step = "fetch" /\ r.jwt = j /\ r.since = time
        BY <1>0, <3>1 DEF Bearing
      <3>3. RecentAnswer(r) /\ AcceptedInTime(r)
        BY <1>0, <3>2, BoundsAreNumbers DEF RecentAnswer, AcceptedInTime
      <3>4. bearer' = [bearer EXCEPT ![b] = r]
        BY <2>1, <2>3, <3>1
      <3> QED BY <1>0, <1>c, <3>2, <3>3, <3>4, BearerMoves DEF KeysInv
    <2> QED BY <2>2, <2>3
  <1>2. ASSUME JWKSAnswer(b) PROVE KeysInv'
    <2>1. PICK r : r = [bearer[b] EXCEPT !.step = "answer", !.got = published]
      OBVIOUS
    <2>2. published \subseteq KeyIds /\ \A k \in published : withdrawn[k] = Never
      BY DEF KeysInv, WithdrawalsArePast
    <2>3. /\ r \in Bearing /\ r.step = "answer" /\ r.jwt = bearer[b].jwt
          /\ r.since = bearer[b].since /\ r.got = published
      BY <1>0, <2>1, <2>2 DEF Bearing
    <2>4. bearer' = [bearer EXCEPT ![b] = r] /\ bearer[b].step = "fetch"
      BY <1>2, <2>1 DEF JWKSAnswer
    <2>5. r.since \in 0..MaxTime /\ r.since <= Never
      BY <2>3, BoundsAreNumbers DEF Bearing
    <2>6. RecentAnswer(r) /\ AcceptedInTime(r) /\ r.jwt \in JWTs
      BY <1>0, <2>2, <2>3, <2>4, <2>5 DEF RecentAnswer, AcceptedInTime
    <2> QED BY <1>0, <1>c, <2>3, <2>4, <2>6, BearerMoves DEF KeysInv
  <1>3. ASSUME RefreshFails(b) \/ LookAgain(b) PROVE KeysInv'
    <2>1. PICK j \in JWTs : j = bearer[b].jwt
      BY <1>0, <1>3 DEF RefreshFails, LookAgain
    <2>2. PICK found \in BOOLEAN : Decided(b, j, found) /\ (found => Cached(j.kid))
      <3>1. CASE RefreshFails(b)
        BY <2>1, <3>1 DEF RefreshFails
      <3>2. CASE LookAgain(b)
        <4>1. Decided(b, j, Cached(j.kid))
          BY <2>1, <3>2 DEF LookAgain
        <4>2. CASE Cached(j.kid)
          BY <4>1, <4>2 DEF Decided
        <4>3. CASE ~Cached(j.kid)
          BY <4>1, <4>3 DEF Decided
        <4> QED BY <4>2, <4>3
      <3> QED BY <1>3, <3>1, <3>2
    <2> QED BY <1>0, <2>2, DecisionKeeps
  <1>4. ASSUME AnswerBearer(b) PROVE KeysInv'
    <2>1. bearer' = [bearer EXCEPT ![b] = NoBearer]
      BY <1>4 DEF AnswerBearer
    <2>2. RecentAnswer(NoBearer) /\ AcceptedInTime(NoBearer)
      BY NoBearerIsIdle DEF RecentAnswer, AcceptedInTime
    <2> QED BY <1>0, <1>c, <2>1, <2>2, NoBearerIsIdle, BearerMoves DEF KeysInv
  <1> QED BY <1>1, <1>2, <1>3, <1>4

\* An answer replaces the keys: each of them was published within the limit of one fetch.
LEMMA RefreshKeeps ==
  ASSUME KeysInv, NEW b \in Bearers, RefreshKeys(b)
  PROVE  KeysInv'
  <1>0. /\ bearer[b] \in Bearing /\ bearer[b].step = "answer" /\ bearer[b].jwt \in JWTs
        /\ RecentAnswer(bearer[b]) /\ time \in 0..MaxTime
    BY DEF RefreshKeys, KeysInv, BearersAreInTime, WithdrawalsArePast
  <1>1. PICK r : r = [bearer[b] EXCEPT !.step = "look", !.got = {}]
    OBVIOUS
  <1>2. r \in Bearing /\ r.step = "look" /\ r.jwt = bearer[b].jwt
    BY <1>0, <1>1 DEF Bearing
  <1>3. /\ bearer' = [bearer EXCEPT ![b] = r] /\ UNCHANGED <<time, published, withdrawn>>
        /\ keys' = [ids |-> bearer[b].got, until |-> time + KeysTTL]
    BY <1>1 DEF RefreshKeys
  <1>4. RecentAnswer(r) /\ AcceptedInTime(r)
    BY <1>2 DEF RecentAnswer, AcceptedInTime
  <1>5. WithdrawalsArePast' /\ BearersAreInTime'
    BY <1>0, <1>2, <1>3, <1>4, BearerMoves
  <1>6. ASSUME NEW k \in bearer[b].got PROVE time + KeysTTL <= withdrawn[k] + Grace
    <2>1. bearer[b].since <= withdrawn[k] /\ time <= bearer[b].since + FetchTime
      BY <1>0 DEF RecentAnswer
    <2>2. bearer[b].since \in 0..MaxTime /\ withdrawn[k] \in 0..Never
      BY <1>0 DEF Bearing, KeysInv, WithdrawalsArePast
    <2> QED BY <1>0, <2>1, <2>2, BoundsAreNumbers
  <1>7. CacheRunsOut'
    <2>1. bearer[b].got \subseteq KeyIds
      BY <1>0 DEF Bearing
    <2>2. /\ keys'.ids = bearer[b].got /\ keys'.until = time + KeysTTL
          /\ keys'.until \in Int
      BY <1>0, <1>3, BoundsAreNumbers
    <2> QED BY <1>3, <1>6, <2>1, <2>2 DEF CacheRunsOut
  <1> QED BY <1>5, <1>7 DEF KeysInv

\* The provider makes keys and takes them back.
LEMMA ProviderKeeps ==
  ASSUME KeysInv, PublishKey \/ WithdrawKey
  PROVE  KeysInv'
  <1>0. UNCHANGED <<time, keys, bearer>> /\ time \in 0..MaxTime
    BY DEF PublishKey, WithdrawKey, KeysInv, WithdrawalsArePast
  <1>1. CASE PublishKey
    <2>1. PICK k \in KeyIds : withdrawn[k] = Never /\ published' = published \cup {k}
      BY <1>1 DEF PublishKey
    <2>2. withdrawn' = withdrawn
      BY <1>1 DEF PublishKey
    <2>3. WithdrawalsArePast'
      BY <1>0, <2>1, <2>2 DEF KeysInv, WithdrawalsArePast
    <2>4. CacheRunsOut' /\ BearersAreInTime'
      BY <1>0, <2>2 DEF KeysInv, CacheRunsOut, BearersAreInTime, RecentAnswer, AcceptedInTime
    <2> QED BY <2>3, <2>4 DEF KeysInv
  <1>2. CASE WithdrawKey
    <2>1. PICK k \in published : published' = published \ {k}
                                   /\ withdrawn' = [withdrawn EXCEPT ![k] = time]
      BY <1>2 DEF WithdrawKey
    <2>2. /\ k \in KeyIds /\ withdrawn \in [KeyIds -> 0..Never] /\ withdrawn[k] = Never
          /\ \A i \in published : withdrawn[i] = Never
      BY DEF KeysInv, WithdrawalsArePast
    <2>3. /\ withdrawn' \in [KeyIds -> 0..Never] /\ withdrawn'[k] = time
          /\ \A i \in KeyIds : i # k => withdrawn'[i] = withdrawn[i]
      BY <1>0, <2>1, <2>2, BoundsAreNumbers
    <2>4. WithdrawalsArePast'
      BY <1>0, <2>1, <2>2, <2>3 DEF KeysInv, WithdrawalsArePast
    <2>5. CacheRunsOut'
      <3>1. keys.until \in Int /\ keys.until <= time + KeysTTL /\ keys.ids \subseteq KeyIds
        BY DEF KeysInv, CacheRunsOut
      <3>2. keys.until <= time + Grace
        BY <1>0, <3>1, BoundsAreNumbers
      <3>3. ASSUME NEW i \in keys.ids PROVE keys.until <= withdrawn'[i] + Grace
        BY <2>3, <3>1, <3>2 DEF KeysInv, CacheRunsOut
      <3> QED BY <1>0, <3>1, <3>3 DEF CacheRunsOut
    <2>6. ASSUME NEW b \in Bearers
          PROVE  RecentAnswer(bearer[b])' /\ AcceptedInTime(bearer[b])'
      <3>1. /\ RecentAnswer(bearer[b]) /\ AcceptedInTime(bearer[b]) /\ bearer[b] \in Bearing
            /\ (bearer[b].step # "idle" => bearer[b].jwt \in JWTs)
        BY DEF KeysInv, BearersAreInTime
      <3>2. bearer[b].since \in 0..MaxTime /\ bearer[b].got \subseteq KeyIds
        BY <3>1 DEF Bearing
      <3>3. RecentAnswer(bearer[b])'
        BY <1>0, <2>3, <3>1, <3>2 DEF RecentAnswer
      <3>4. ASSUME bearer[b].step = "accepted"
            PROVE  bearer[b].since <= withdrawn'[bearer[b].jwt.kid] + Grace
        <4>1. bearer[b].jwt.kid \in KeyIds /\ bearer[b].since <= time
          BY <3>1, <3>4, OIDCAssumption DEF AcceptedInTime
        <4>2. bearer[b].since <= time + Grace
          BY <1>0, <3>2, <4>1, BoundsAreNumbers
        <4> QED BY <2>3, <3>1, <3>4, <4>1, <4>2 DEF AcceptedInTime
      <3>5. AcceptedInTime(bearer[b])'
        BY <1>0, <3>1, <3>4 DEF AcceptedInTime
      <3> QED BY <3>3, <3>5
    <2>7. BearersAreInTime'
      BY <1>0, <2>6 DEF KeysInv, BearersAreInTime
    <2> QED BY <2>4, <2>5, <2>7 DEF KeysInv
  <1> QED BY <1>1, <1>2

\* Time passes, but for a fetch at its limit.
LEMMA TimeKeeps ==
  ASSUME KeysInv, TimePasses
  PROVE  KeysInv'
  <1>0. /\ UNCHANGED <<published, withdrawn, keys, bearer>> /\ time \in 0..MaxTime
        /\ time < MaxTime /\ time' = time + 1
        /\ \A b \in Bearers : bearer[b].step \in {"fetch", "answer"} =>
                                  time < bearer[b].since + FetchTime
    BY DEF TimePasses, KeysInv, WithdrawalsArePast
  <1>1. WithdrawalsArePast'
    BY <1>0, BoundsAreNumbers DEF KeysInv, WithdrawalsArePast
  <1>2. CacheRunsOut'
    BY <1>0, BoundsAreNumbers DEF KeysInv, CacheRunsOut
  <1>3. ASSUME NEW b \in Bearers
        PROVE  RecentAnswer(bearer[b])' /\ AcceptedInTime(bearer[b])'
    <2>1. RecentAnswer(bearer[b]) /\ AcceptedInTime(bearer[b]) /\ bearer[b] \in Bearing
      BY DEF KeysInv, BearersAreInTime
    <2>2. bearer[b].since \in 0..MaxTime
      BY <2>1 DEF Bearing
    <2>3. RecentAnswer(bearer[b])'
      <3>1. ASSUME bearer[b].step \in {"fetch", "answer"}
            PROVE  bearer[b].since <= time + 1 /\ time + 1 <= bearer[b].since + FetchTime
        BY <1>0, <2>1, <2>2, <3>1, BoundsAreNumbers DEF RecentAnswer
      <3> QED BY <1>0, <2>1, <3>1 DEF RecentAnswer
    <2>4. AcceptedInTime(bearer[b])'
      BY <1>0, <2>1, <2>2, BoundsAreNumbers DEF AcceptedInTime
    <2> QED BY <2>3, <2>4
  <1>4. BearersAreInTime'
    BY <1>0, <1>3 DEF KeysInv, BearersAreInTime
  <1> QED BY <1>1, <1>2, <1>4 DEF KeysInv

\* A verifier without keys satisfies the invariant.
LEMMA KeysStart == InitOIDCKeys => KeysInv
  <1> SUFFICES ASSUME InitOIDCKeys PROVE KeysInv
    OBVIOUS
  <1>1. WithdrawalsArePast
    <2>1. Never \in 0..Never /\ 0 \in 0..MaxTime
      BY BoundsAreNumbers
    <2>2. {1} \subseteq KeyIds /\ 1 \in KeyIds
      BY OIDCAssumption
    <2> QED BY <2>1, <2>2 DEF InitOIDCKeys, WithdrawalsArePast
  <1>2. CacheRunsOut
    BY BoundsAreNumbers DEF InitOIDCKeys, CacheRunsOut
  <1>3. RecentAnswer(NoBearer) /\ AcceptedInTime(NoBearer)
    BY NoBearerIsIdle DEF RecentAnswer, AcceptedInTime
  <1>4. BearersAreInTime
    BY <1>3, NoBearerIsIdle DEF InitOIDCKeys, BearersAreInTime
  <1> QED BY <1>1, <1>2, <1>4 DEF KeysInv

\* Every step preserves it.
LEMMA KeysStep == KeysInv /\ [NextOIDCKeys]_oidcVars => KeysInv'
  <1> SUFFICES ASSUME KeysInv, [NextOIDCKeys]_oidcVars PROVE KeysInv'
    OBVIOUS
  <1>1. CASE NextOIDCKeys
    BY <1>1, RequestKeeps, RefreshKeeps, ProviderKeeps, TimeKeeps DEF NextOIDCKeys
  <1>2. CASE UNCHANGED oidcVars
    BY <1>2 DEF oidcVars, KeysInv, WithdrawalsArePast, CacheRunsOut, BearersAreInTime,
                RecentAnswer, AcceptedInTime
  <1> QED BY <1>1, <1>2

\* A token is accepted within its time, and with a key that the provider holds or took
\* back no longer ago than KeysTTL and one fetch, however the fetches of any number of
\* requests overtake each other.
THEOREM WithdrawnKeysDoEnd == OIDCKeysSpec => []WithdrawnKeysEnd
  <1>1. InitOIDCKeys => KeysInv
    BY KeysStart
  <1>2. KeysInv /\ [NextOIDCKeys]_oidcVars => KeysInv'
    BY KeysStep
  <1>3. KeysInv => WithdrawnKeysEnd
    <2> SUFFICES ASSUME KeysInv, NEW b \in Bearers, bearer[b].step = "accepted"
                 PROVE  /\ bearer[b].jwt.signed /\ bearer[b].jwt.ours
                        /\ bearer[b].jwt.exp > bearer[b].since
                        /\ \/ bearer[b].jwt.kid \in published
                           \/ bearer[b].since <= withdrawn[bearer[b].jwt.kid] + FetchTime + KeysTTL
      BY DEF WithdrawnKeysEnd
    <2>1. AcceptedInTime(bearer[b]) /\ bearer[b].jwt \in JWTs
      BY DEF KeysInv, BearersAreInTime
    <2>2. bearer[b].jwt.kid \in KeyIds
      BY <2>1, OIDCAssumption
    <2>3. withdrawn[bearer[b].jwt.kid] \in 0..Never
      BY <2>2 DEF KeysInv, WithdrawalsArePast
    <2>4. withdrawn[bearer[b].jwt.kid] + Grace =
             withdrawn[bearer[b].jwt.kid] + FetchTime + KeysTTL
      BY <2>3, BoundsAreNumbers
    <2> QED BY <2>1, <2>4 DEF AcceptedInTime
  <1> QED BY <1>1, <1>2, <1>3, PTL DEF OIDCKeysSpec

-----------------------------------------------------------------------------
(* The matching of reports.                                                *)

Attribution == [of: Nat, package: Nat]

MatchCall == [step: {"group", "run", "insert", "done"}, packages: PackageLists,
              groups: SUBSET Nat, lost: SUBSET Nat,
              found: SUBSET Attribution, stored: SUBSET Attribution,
              skipped: Int, errors: BOOLEAN, cancelled: BOOLEAN]

\* A finding is of the asset, the name and the target of the package it is attributed to.
RightlyAttributed(packages, f) ==
    f.package # NoPackage =>
        /\ packages[f.package].group = packages[f.of].group
        /\ packages[f.package].name = packages[f.of].name
        /\ packages[f.package].target = packages[f.of].target

\* What a call has found, stored and lost adds up.
CallIsCounted(r) ==
    /\ \A f \in r.found : RightlyAttributed(r.packages, f)
    /\ IsFiniteSet(r.found)
    /\ r.stored \subseteq {f \in r.found : f.package # NoPackage}
    /\ r.step \in {"insert", "done"} /\ ~r.errors => (r.lost # {} => r.found # {})
    /\ r.step = "done" /\ ~r.errors /\ r.skipped = 0 => r.stored = r.found
    /\ r.skipped >= 0
    /\ r.step = "run" => r.groups # {}

\* The runs of Trivy, and the permits they hold.
Runs == {m \in MatchCalls : match[m].step = "run"}
PermitsAreHeld == IsFiniteSet(Runs) /\ inUse = Cardinality(Runs)

\* The inductive invariant.
ServerMatchInv ==
    /\ match \in [MatchCalls -> MatchCall]
    /\ PermitsAreHeld
    /\ \A m \in MatchCalls : CallIsCounted(match[m])

\* A call takes a step; it takes a permit or gives it back if it says so.
LEMMA CallBecomes ==
  ASSUME ServerMatchInv, NEW m \in MatchCalls, NEW r \in MatchCall, Becomes(m, r),
         CallIsCounted(r),
         \/ (r.step = "run" <=> match[m].step = "run") /\ inUse' = inUse
         \/ r.step = "run" /\ match[m].step # "run" /\ inUse' = inUse + 1
         \/ r.step # "run" /\ match[m].step = "run" /\ inUse' = inUse - 1
  PROVE  ServerMatchInv'
  <1>1. /\ match' \in [MatchCalls -> MatchCall] /\ match'[m] = r
        /\ \A n \in MatchCalls : n # m => match'[n] = match[n]
    BY DEF ServerMatchInv, Becomes
  <1>2. ASSUME NEW n \in MatchCalls PROVE CallIsCounted(match[n])'
    <2>1. CASE n = m
      BY <1>1, <2>1 DEF CallIsCounted, RightlyAttributed
    <2>2. CASE n # m
      BY <1>1, <2>2 DEF ServerMatchInv, CallIsCounted, RightlyAttributed
    <2> QED BY <2>1, <2>2
  <1>3. PermitsAreHeld'
    <2>1. IsFiniteSet(Runs) /\ inUse = Cardinality(Runs)
      BY DEF ServerMatchInv, PermitsAreHeld
    <2>2. CASE (r.step = "run" <=> match[m].step = "run") /\ inUse' = inUse
      <3>1. Runs' = Runs
        BY <1>1, <2>2 DEF Runs
      <3> QED BY <2>1, <2>2, <3>1 DEF PermitsAreHeld
    <2>3. CASE r.step = "run" /\ match[m].step # "run" /\ inUse' = inUse + 1
      <3>1. Runs' = Runs \cup {m} /\ m \notin Runs
        BY <1>1, <2>3 DEF Runs
      <3>2. IsFiniteSet(Runs \cup {m}) /\ Cardinality(Runs \cup {m}) = Cardinality(Runs) + 1
        BY <2>1, <3>1, FS_AddElement
      <3> QED BY <2>1, <2>3, <3>1, <3>2 DEF PermitsAreHeld
    <2>4. CASE r.step # "run" /\ match[m].step = "run" /\ inUse' = inUse - 1
      <3>1. Runs' = Runs \ {m} /\ m \in Runs
        BY <1>1, <2>4 DEF Runs
      <3>2. IsFiniteSet(Runs \ {m}) /\ Cardinality(Runs \ {m}) = Cardinality(Runs) - 1
        BY <2>1, <3>1, FS_RemoveElement
      <3> QED BY <2>1, <2>4, <3>1, <3>2 DEF PermitsAreHeld
    <2> QED BY <2>2, <2>3, <2>4
  <1> QED BY <1>1, <1>2, <1>3 DEF ServerMatchInv

\* What is known of a call.
LEMMA MatchCallOf ==
  ASSUME ServerMatchInv, NEW m \in MatchCalls
  PROVE  match[m] \in MatchCall /\ CallIsCounted(match[m])
  BY DEF ServerMatchInv

\* The groups of packages are numbers.
LEMMA GroupsAreNumbers ==
  ASSUME ServerMatchInv, NEW m \in MatchCalls, match[m].groups # {}
  PROVE  NextGroup(m) \in match[m].groups /\ NextGroup(m) \in Nat
  <1>1. match[m].groups \in SUBSET Nat
    BY MatchCallOf DEF MatchCall
  <1>2. \E g \in match[m].groups : \A h \in match[m].groups : g <= h
    BY <1>1, SmallestIn
  <1> QED BY <1>1, <1>2 DEF NextGroup

\* A permit is taken, or the agent goes away.
LEMMA PermitTakenKeeps ==
  ASSUME ServerMatchInv, NEW m \in MatchCalls, AcquirePermit(m) \/ AgentGoesAway(m)
  PROVE  ServerMatchInv'
  <1>1. match[m] \in MatchCall /\ CallIsCounted(match[m])
    BY MatchCallOf
  <1>2. CASE AcquirePermit(m)
    <2>1. PICK r : r = [match[m] EXCEPT !.step = "run"]
      OBVIOUS
    <2>2. Becomes(m, r) /\ match[m].step = "group" /\ inUse' = inUse + 1
      BY <1>2, <2>1 DEF AcquirePermit
    <2>3. /\ r \in MatchCall /\ r.step = "run" /\ r.packages = match[m].packages
          /\ r.found = match[m].found /\ r.stored = match[m].stored /\ r.skipped = match[m].skipped
      BY <1>1, <2>1 DEF MatchCall
    <2>4. r.groups = match[m].groups /\ match[m].groups # {}
      BY <1>1, <1>2, <2>1 DEF MatchCall, AcquirePermit
    <2>5. CallIsCounted(r)
      BY <1>1, <2>3, <2>4 DEF CallIsCounted
    <2> QED BY <2>2, <2>3, <2>5, CallBecomes
  <1>3. CASE AgentGoesAway(m)
    <2>1. PICK r : r = [match[m] EXCEPT !.cancelled = TRUE]
      OBVIOUS
    <2>2. Becomes(m, r) /\ inUse' = inUse
      BY <1>3, <2>1 DEF AgentGoesAway
    <2>3. /\ r \in MatchCall /\ r.step = match[m].step /\ r.packages = match[m].packages
          /\ r.found = match[m].found /\ r.stored = match[m].stored /\ r.skipped = match[m].skipped
          /\ r.lost = match[m].lost /\ r.errors = match[m].errors /\ r.groups = match[m].groups
      BY <1>1, <2>1 DEF MatchCall
    <2>4. CallIsCounted(r)
      BY <1>1, <2>3 DEF CallIsCounted
    <2> QED BY <2>2, <2>3, <2>4, CallBecomes
  <1> QED BY <1>2, <1>3

\* A group is given up, before its run or in it.
LEMMA GroupLostKeeps ==
  ASSUME ServerMatchInv, NEW m \in MatchCalls, GroupGivenUp(m) \/ TrivyFails(m)
  PROVE  ServerMatchInv'
  <1>1. match[m] \in MatchCall /\ CallIsCounted(match[m])
    BY MatchCallOf
  <1>8. match[m].groups # {}
    BY <1>1 DEF GroupGivenUp, TrivyFails, CallIsCounted
  <1>2. PICK g \in Nat : g = NextGroup(m)
    BY <1>8, GroupsAreNumbers
  <1>3. PICK r : r = [match[m] EXCEPT !.step = "group", !.groups = match[m].groups \ {g},
                                      !.lost = match[m].lost \cup {g}]
    OBVIOUS
  <1>4. Becomes(m, r)
    BY <1>2, <1>3 DEF GroupGivenUp, TrivyFails, Loses
  <1>5. /\ r \in MatchCall /\ r.step = "group" /\ r.packages = match[m].packages
        /\ r.found = match[m].found /\ r.stored = match[m].stored /\ r.skipped = match[m].skipped
    BY <1>1, <1>3 DEF MatchCall
  <1>6. CallIsCounted(r)
    BY <1>1, <1>5 DEF CallIsCounted
  <1>7. \/ match[m].step # "run" /\ inUse' = inUse
        \/ match[m].step = "run" /\ inUse' = inUse - 1
    BY DEF GroupGivenUp, TrivyFails
  <1> QED BY <1>4, <1>5, <1>6, <1>7, CallBecomes

\* The packages of a call.
LEMMA PackagesOf ==
  ASSUME ServerMatchInv, NEW m \in MatchCalls
  PROVE  \E n \in Nat : DOMAIN match[m].packages = 1..n
  <1>1. match[m].packages \in PackageLists
    BY MatchCallOf DEF MatchCall
  <1> QED BY <1>1, ServerMatchAssumption

\* What is found of a package is attributed to one of its group, name and target, or to none.
LEMMA AttributionIsRight ==
  ASSUME ServerMatchInv, NEW m \in MatchCalls, NEW i \in In(m, NextGroup(m)),
         NEW keepsTarget \in BOOLEAN, NEW p, p = Attributed(m, i, keepsTarget)
  PROVE  /\ i \in Nat /\ p \in Nat
         /\ RightlyAttributed(match[m].packages, [of |-> i, package |-> p])
  <1>1. PICK n \in Nat : DOMAIN match[m].packages = 1..n
    BY PackagesOf
  <1>2. i \in 1..n /\ match[m].packages[i].group = NextGroup(m)
    BY <1>1 DEF In
  <1> DEFINE f == [of |-> i, package |-> p]
  <1>3. f.of = i /\ f.package = p
    OBVIOUS
  <1>4. CASE keepsTarget
    <2>1. p = Highest(SameKey(m, i))
      BY <1>4 DEF Attributed
    <2>2. SameKey(m, i) \in SUBSET (1..n) /\ i \in SameKey(m, i)
      BY <1>1, <1>2 DEF SameKey, SameName, In
    <2>3. \E k \in SameKey(m, i) : \A j \in SameKey(m, i) : j <= k
      BY <2>2, LargestIn
    <2>4. p \in SameKey(m, i)
      BY <2>1, <2>3 DEF Highest
    <2>5. /\ match[m].packages[p].group = NextGroup(m)
          /\ match[m].packages[p].name = match[m].packages[i].name
          /\ match[m].packages[p].target = match[m].packages[i].target
      BY <2>4 DEF SameKey, SameName, In
    <2>6. p \in Nat /\ i \in Nat
      BY <1>2, <2>2, <2>4
    <2> QED BY <1>2, <1>3, <2>5, <2>6 DEF RightlyAttributed
  <1>5. CASE ~keepsTarget
    <2>1. p = i \/ p = NoPackage
      BY <1>5 DEF Attributed
    <2>2. p \in Nat /\ i \in Nat
      BY <1>2, <2>1 DEF NoPackage
    <2> QED BY <1>2, <1>3, <2>1, <2>2 DEF RightlyAttributed
  <1> QED BY <1>4, <1>5

\* Trivy answers: what it reports is attributed.
LEMMA TrivyAnswersKeeps ==
  ASSUME ServerMatchInv, NEW m \in MatchCalls, TrivyAnswers(m)
  PROVE  ServerMatchInv'
  <1>1. match[m] \in MatchCall /\ CallIsCounted(match[m])
    BY MatchCallOf
  <1>2. PICK reported \in SUBSET In(m, NextGroup(m)), keepsTarget \in BOOLEAN :
         Becomes(m, [match[m] EXCEPT
             !.step = "group",
             !.groups = match[m].groups \ {NextGroup(m)},
             !.found = match[m].found \cup
                       {[of |-> i, package |-> Attributed(m, i, keepsTarget)] : i \in reported}])
    BY DEF TrivyAnswers
  <1>3. match[m].step = "run" /\ inUse' = inUse - 1
    BY DEF TrivyAnswers
  <1> DEFINE new == {[of |-> i, package |-> Attributed(m, i, keepsTarget)] : i \in reported}
  <1>4. \A f \in new : f \in Attribution /\ RightlyAttributed(match[m].packages, f)
    <2> SUFFICES ASSUME NEW i \in reported
                 PROVE  LET f == [of |-> i, package |-> Attributed(m, i, keepsTarget)]
                        IN  f \in Attribution /\ RightlyAttributed(match[m].packages, f)
      OBVIOUS
    <2>1. PICK p : p = Attributed(m, i, keepsTarget)
      OBVIOUS
    <2>2. i \in In(m, NextGroup(m))
      BY <1>2
    <2>3. /\ i \in Nat /\ p \in Nat
          /\ RightlyAttributed(match[m].packages, [of |-> i, package |-> p])
      BY <2>1, <2>2, AttributionIsRight
    <2> QED BY <2>1, <2>3 DEF Attribution
  <1>5. IsFiniteSet(new)
    <2>1. PICK n \in Nat : DOMAIN match[m].packages = 1..n
      BY PackagesOf
    <2>2. IsFiniteSet(1..n)
      BY <2>1, FS_Interval
    <2>3. reported \subseteq 1..n
      BY <1>2, <2>1 DEF In
    <2>4. IsFiniteSet(reported)
      BY <2>2, <2>3, FS_Subset
    <2> DEFINE F == [i \in reported |-> [of |-> i, package |-> Attributed(m, i, keepsTarget)]]
    <2>5. F \in Surjection(reported, new)
      BY DEF Surjection
    <2> HIDE DEF F, new
    <2> QED BY <2>4, <2>5, FS_Surjection
  <1>6. PICK r : r = [match[m] EXCEPT !.step = "group",
                                      !.groups = match[m].groups \ {NextGroup(m)},
                                      !.found = match[m].found \cup new]
    OBVIOUS
  <1>7. Becomes(m, r)
    BY <1>2, <1>6
  <1> HIDE DEF new
  <1>8. /\ r \in MatchCall /\ r.step = "group" /\ r.packages = match[m].packages
        /\ r.found = match[m].found \cup new /\ r.stored = match[m].stored
        /\ r.skipped = match[m].skipped
    BY <1>1, <1>4, <1>6 DEF MatchCall
  <1>9. IsFiniteSet(r.found)
    <2>1. IsFiniteSet(match[m].found)
      BY <1>1 DEF CallIsCounted
    <2>2. IsFiniteSet(match[m].found \cup new)
      BY <1>5, <2>1, FS_Union
    <2> QED BY <1>8, <2>2
  <1>10. CallIsCounted(r)
    BY <1>1, <1>4, <1>8, <1>9 DEF CallIsCounted
  <1> QED BY <1>3, <1>7, <1>8, <1>10, CallBecomes

\* The groups are done: findings are inserted, or the call fails.
LEMMA MatchReturnsKeeps ==
  ASSUME ServerMatchInv, NEW m \in MatchCalls, MatchReturns(m)
  PROVE  ServerMatchInv'
  <1>1. match[m] \in MatchCall /\ CallIsCounted(match[m])
    BY MatchCallOf
  <1>2. PICK fails \in BOOLEAN :
          fails = (match[m].found = {}
                    /\ (match[m].lost # {} \/ GroupsOf(match[m].packages) = {}))
    OBVIOUS
  <1>3. PICK to \in {"done", "insert"} : to = IF fails THEN "done" ELSE "insert"
    OBVIOUS
  <1>4. PICK r : r = [match[m] EXCEPT !.step = to, !.errors = fails]
    OBVIOUS
  <1>5. Becomes(m, r) /\ match[m].step = "group" /\ inUse' = inUse
    BY <1>2, <1>3, <1>4 DEF MatchReturns
  <1>6. /\ r \in MatchCall /\ r.step = to /\ r.packages = match[m].packages
        /\ r.found = match[m].found /\ r.stored = match[m].stored /\ r.skipped = match[m].skipped
        /\ r.lost = match[m].lost /\ r.errors = fails
    BY <1>1, <1>4 DEF MatchCall
  <1>7. to = "done" => fails
    BY <1>3
  <1>8. ~fails => (match[m].lost # {} => match[m].found # {})
    BY <1>2
  <1>9. CallIsCounted(r)
    BY <1>1, <1>6, <1>7, <1>8 DEF CallIsCounted
  <1> QED BY <1>5, <1>6, <1>9, CallBecomes

\* What was found is inserted, or is not.
LEMMA InsertKeeps ==
  ASSUME ServerMatchInv, NEW m \in MatchCalls, InsertVulnerabilities(m) \/ InsertFails(m)
  PROVE  ServerMatchInv'
  <1>1. match[m] \in MatchCall /\ CallIsCounted(match[m])
    BY MatchCallOf
  <1>2. CASE InsertFails(m)
    <2>1. PICK r : r = [match[m] EXCEPT !.step = "done", !.errors = TRUE]
      OBVIOUS
    <2>2. Becomes(m, r) /\ match[m].step = "insert" /\ inUse' = inUse
      BY <1>2, <2>1 DEF InsertFails
    <2>3. /\ r \in MatchCall /\ r.step = "done" /\ r.packages = match[m].packages
          /\ r.found = match[m].found /\ r.stored = match[m].stored
          /\ r.skipped = match[m].skipped /\ r.errors = TRUE
      BY <1>1, <2>1 DEF MatchCall
    <2>4. CallIsCounted(r)
      BY <1>1, <2>3 DEF CallIsCounted
    <2> QED BY <2>2, <2>3, <2>4, CallBecomes
  <1>3. CASE InsertVulnerabilities(m)
    <2>1. PICK kept \in SUBSET Insertable(m) :
            Becomes(m, [match[m] EXCEPT
                !.step = "done", !.stored = kept,
                !.skipped = Cardinality(match[m].found) - Cardinality(kept)])
      BY <1>3 DEF InsertVulnerabilities
    <2>2. /\ kept \subseteq match[m].found /\ \A f \in kept : f.package # NoPackage
          /\ match[m].step = "insert" /\ inUse' = inUse
      BY <1>3, <2>1 DEF InsertVulnerabilities, Insertable
    <2>3. /\ IsFiniteSet(kept) /\ Cardinality(kept) <= Cardinality(match[m].found)
          /\ Cardinality(kept) = Cardinality(match[m].found) => kept = match[m].found
      BY <1>1, <2>2, FS_Subset DEF CallIsCounted
    <2>4. Cardinality(kept) \in Nat /\ Cardinality(match[m].found) \in Nat
      BY <1>1, <2>3, FS_CardinalityType DEF CallIsCounted
    <2>5. PICK n \in Int : n = Cardinality(match[m].found) - Cardinality(kept)
      BY <2>4
    <2>6. n >= 0 /\ (n = 0 => kept = match[m].found)
      BY <2>3, <2>4, <2>5
    <2>7. PICK r : r = [match[m] EXCEPT !.step = "done", !.stored = kept, !.skipped = n]
      OBVIOUS
    <2>8. Becomes(m, r)
      BY <2>1, <2>5, <2>7
    <2>9. /\ r \in MatchCall /\ r.step = "done" /\ r.packages = match[m].packages
          /\ r.found = match[m].found /\ r.stored = kept
          /\ r.skipped = n /\ r.errors = match[m].errors /\ r.lost = match[m].lost
      <3>1. kept \in SUBSET Attribution
        BY <1>1, <2>2 DEF MatchCall
      <3> QED BY <1>1, <2>7, <3>1 DEF MatchCall
    <2>10. CallIsCounted(r)
      BY <1>1, <2>2, <2>6, <2>9 DEF CallIsCounted
    <2> QED BY <2>2, <2>8, <2>9, <2>10, CallBecomes
  <1> QED BY <1>2, <1>3

\* The reports have arrived, and nothing has run.
LEMMA MatchStart == InitServerMatch => ServerMatchInv
  <1> SUFFICES ASSUME InitServerMatch PROVE ServerMatchInv
    OBVIOUS
  <1>1. ASSUME NEW list \in PackageLists, NEW r, r = StartOf(list)
        PROVE  r \in MatchCall /\ r.step = "group" /\ CallIsCounted(r)
    <2>1. GroupsOf(list) \in SUBSET Nat
      BY ServerMatchAssumption DEF GroupsOf
    <2>2. /\ r \in MatchCall /\ r.step = "group" /\ r.found = {} /\ r.stored = {} /\ r.skipped = 0
      BY <1>1, <2>1 DEF StartOf, MatchCall
    <2>3. IsFiniteSet({})
      BY FS_EmptySet
    <2> QED BY <2>2, <2>3 DEF CallIsCounted
  <1>2. ASSUME NEW m \in MatchCalls
        PROVE  match[m] \in MatchCall /\ match[m].step = "group" /\ CallIsCounted(match[m])
    <2>1. PICK list \in PackageLists : match[m] = StartOf(list)
      BY DEF InitServerMatch
    <2> QED BY <1>1, <2>1
  <1>3. match \in [MatchCalls -> MatchCall]
    <2>1. \E S : match \in [MatchCalls -> S]
      BY DEF InitServerMatch
    <2> QED BY <1>2, <2>1
  <1>4. Runs = {}
    BY <1>2 DEF Runs
  <1>5. PermitsAreHeld
    BY <1>4, FS_EmptySet DEF InitServerMatch, PermitsAreHeld
  <1> QED BY <1>2, <1>3, <1>5 DEF ServerMatchInv

\* Every step of the calls keeps the invariant.
LEMMA MatchStepKeeps == ServerMatchInv /\ [NextServerMatch]_serverMatchVars => ServerMatchInv'
  <1> SUFFICES ASSUME ServerMatchInv, [NextServerMatch]_serverMatchVars PROVE ServerMatchInv'
    OBVIOUS
  <1>1. CASE UNCHANGED serverMatchVars
    <2>1. match' = match /\ inUse' = inUse /\ Runs' = Runs
      BY <1>1 DEF serverMatchVars, Runs
    <2> QED BY <2>1 DEF ServerMatchInv, PermitsAreHeld, CallIsCounted, RightlyAttributed
  <1> QED BY <1>1, PermitTakenKeeps, GroupLostKeeps, TrivyAnswersKeeps, MatchReturnsKeeps,
             InsertKeeps DEF NextServerMatch

\* However the runs end, the permits are those of the runs, and what is stored, found and
\* lost of a report is right or told (Match, matchGroup and InsertVulnerabilities).
THEOREM TheMatchIsAccountedFor == ServerMatchSpec => []MatchIsAccountedFor
  <1>1. ServerMatchInv => MatchIsAccountedFor
    <2> SUFFICES ASSUME ServerMatchInv PROVE MatchIsAccountedFor
      OBVIOUS
    <2>1. inUse = Cardinality({m \in MatchCalls : match[m].step = "run"})
      BY DEF ServerMatchInv, PermitsAreHeld, Runs
    <2>2. ASSUME NEW m \in MatchCalls
          PROVE  /\ \A f \in match[m].stored :
                      /\ match[m].packages[f.package].group = match[m].packages[f.of].group
                      /\ match[m].packages[f.package].name = match[m].packages[f.of].name
                      /\ match[m].packages[f.package].target = match[m].packages[f.of].target
                 /\ match[m].step = "done" /\ ~Told(m) =>
                      /\ match[m].stored = match[m].found
                      /\ match[m].lost # {} => match[m].found # {}
      <3>1. match[m] \in MatchCall /\ CallIsCounted(match[m])
        BY MatchCallOf
      <3>2. match[m].skipped \in Int
        BY <3>1 DEF MatchCall
      <3>3. ~Told(m) => ~match[m].errors /\ match[m].skipped = 0
        BY <3>1, <3>2 DEF Told, CallIsCounted
      <3> QED BY <3>1, <3>3 DEF CallIsCounted, RightlyAttributed
    <2> QED BY <2>1, <2>2 DEF MatchIsAccountedFor
  <1> QED BY <1>1, MatchStart, MatchStepKeeps, PTL DEF ServerMatchSpec

-----------------------------------------------------------------------------
(* Matching.                                                               *)

\* The names of ecosystems that stand for themselves, and no name.
Canonical == {"pypi", "npm", "go", "rubygems", "crates.io", "maven", "packagist", "nuget", ""}

\* They are nobody's alias and in no family.
LEMMA CanonicalStands ==
  ASSUME NEW c \in Canonical
  PROVE  /\ \A d \in DOMAIN Aliases : c \notin Aliases[d]
         /\ \A d \in DOMAIN Families : c \notin Families[d]
  <1>1. /\ Aliases["pypi"] = {"python", "python-pkg", "pip", "poetry"}
        /\ Aliases["npm"] = {"node", "node-pkg", "javascript", "yarn", "pnpm"}
        /\ Aliases["go"] = {"golang", "gomod", "gobinary"}
        /\ Aliases["rubygems"] = {"ruby", "gem"}
        /\ Aliases["crates.io"] = {"rust", "cargo", "rustbinary"}
        /\ Aliases["maven"] = {"jar"} /\ Aliases["packagist"] = {"composer"}
    BY Zenon DEF Aliases
  <1>2. DOMAIN Aliases = {"pypi", "npm", "go", "rubygems", "crates.io", "maven", "packagist"}
    BY DEF Aliases
  <1>3. /\ Families["debian"] = {"debian", "deb"} /\ Families["ubuntu"] = {"ubuntu"}
        /\ Families["alpine"] = {"alpine", "apk"}
        /\ Families["rhel"] = {"redhat", "red hat", "red hat enterprise linux", "rhel", "centos",
                               "rocky", "rocky linux", "almalinux", "alma", "amazon",
                               "amazon linux", "oracle linux", "rpm"}
        /\ Families["suse"] = {"suse", "opensuse"} /\ Families["wolfi"] = {"wolfi", "chainguard"}
        /\ Families["azurelinux"] = {"azure linux", "azurelinux", "cbl-mariner"}
    BY Zenon DEF Families
  <1>4. DOMAIN Families = {"debian", "ubuntu", "alpine", "rhel", "suse", "wolfi", "azurelinux"}
    BY DEF Families
  <1>5. \A d \in DOMAIN Aliases : c \notin Aliases[d]
    BY <1>1, <1>2 DEF Canonical
  <1>6. \A d \in DOMAIN Families : c \notin Families[d]
    BY <1>3, <1>4 DEF Canonical
  <1>7. QED
    BY <1>5, <1>6

\* The two layers normalise every ecosystem alike, in whatever words it is
\* written.
LEMMA EcosystemsAgree ==
  ASSUME NEW n, NEW release \in BOOLEAN, NEW e, e = [name |-> n, release |-> release]
  PROVE  NormalizeEcosystem(e) = NormalizeEcosystemSQL(e)
  <1>0. e.name = n /\ e.release = release
    OBVIOUS
  <1>1. \A c \in DOMAIN Aliases :
           c \in Canonical /\ c \in DOMAIN AliasesSQL /\ AliasesSQL[c] = Aliases[c] \cup {c}
    <2>1. \A c \in DOMAIN Aliases : c \in DOMAIN AliasesSQL /\ AliasesSQL[c] = Aliases[c] \cup {c}
      BY DEF Aliases, AliasesSQL
    <2>2. DOMAIN Aliases = {"pypi", "npm", "go", "rubygems", "crates.io", "maven", "packagist"}
      BY DEF Aliases
    <2>3. QED
      BY <2>1, <2>2 DEF Canonical
  <1>2. DOMAIN AliasesSQL = DOMAIN Aliases \cup {"nuget"} /\ AliasesSQL["nuget"] = {"nuget"}
    BY DEF Aliases, AliasesSQL
  <1>3. Families = FamiliesSQL
    BY DEF Families, FamiliesSQL
  <1> DEFINE A == {c \in DOMAIN Aliases : ~e.release /\ e.name \in Aliases[c]}
             Q == {c \in DOMAIN AliasesSQL : ~e.release /\ e.name \in AliasesSQL[c]}
             F == {c \in DOMAIN Families : e.name \in Families[c]}
  <1>7. /\ NormalizeEcosystem(e) =
             IF A # {} THEN Eco(CHOOSE c \in A : TRUE)
             ELSE IF F # {} THEN Eco(CHOOSE c \in F : TRUE) ELSE e
        /\ NormalizeEcosystemSQL(e) =
             IF Q # {} THEN Eco(CHOOSE c \in Q : TRUE)
             ELSE IF F # {} THEN Eco(CHOOSE c \in F : TRUE) ELSE e
    <2>1. /\ NormalizeEcosystem(e) = Under(Aliases, Families, e)
          /\ NormalizeEcosystemSQL(e) = Under(AliasesSQL, Families, e)
      BY <1>3, Zenon DEF NormalizeEcosystem, NormalizeEcosystemSQL
    <2>2. Under(Aliases, Families, e) =
             IF A # {} THEN Eco(CHOOSE c \in A : TRUE)
             ELSE IF F # {} THEN Eco(CHOOSE c \in F : TRUE) ELSE e
      BY Zenon DEF Under
    <2>3. Under(AliasesSQL, Families, e) =
             IF Q # {} THEN Eco(CHOOSE c \in Q : TRUE)
             ELSE IF F # {} THEN Eco(CHOOSE c \in F : TRUE) ELSE e
      BY Zenon DEF Under
    <2>4. QED
      BY <2>1, <2>2, <2>3, Zenon
  <1>8. "nuget" \in Canonical
    BY DEF Canonical
  <1>9. CASE n \in Canonical
    <2>1. A = {} /\ F = {}
      BY <1>0, <1>9, CanonicalStands
    <2>2. Q # {} => ~release /\ Q = {n}
      BY <1>0, <1>1, <1>2, <1>9, CanonicalStands
    <2> HIDE DEF A, Q, F
    <2>3. Q # {} => Eco(CHOOSE c \in Q : TRUE) = e
      BY <2>2 DEF Eco
    <2>4. QED
      BY <1>7, <2>1, <2>3
  <1>10. CASE n \notin Canonical
    <2>1. A = Q
      BY <1>0, <1>1, <1>2, <1>8, <1>10
    <2> HIDE DEF A, Q, F
    <2>2. QED
      BY <1>7, <2>1
  <1>11. QED
    BY <1>9, <1>10

\* No ecosystem is none.
LEMMA NoneIsNone == NormalizeEcosystem(NoEcosystem) = NoEcosystem
  <1>1. "" \in Canonical
    BY DEF Canonical
  <1>2. NoEcosystem.name = ""
    BY DEF NoEcosystem
  <1>3. /\ {c \in DOMAIN Aliases : ~NoEcosystem.release /\ NoEcosystem.name \in Aliases[c]} = {}
        /\ {c \in DOMAIN Families : NoEcosystem.name \in Families[c]} = {}
    BY <1>1, <1>2, CanonicalStands
  <1>4. QED
    BY <1>3, Zenon DEF NormalizeEcosystem, Under

\* What Go takes for a fix, SQL has taken for one.
LEMMA EvidenceAgrees ==
  ASSUME NEW p, OneEvidence(p), p.fixed \in Seq(Range(p.fixed)), NEW v,
         FixedVersions(p) # {}, VersionIsAffected(v, p)
  PROVE  FixedEvidenceSQL(p)
  <1>1. CASE p.ranges = {}
    <2>1. Cardinality(SafeFixes(p)) = 1
      BY <1>1 DEF VersionIsAffected
    <2>2. SafeFixes(p) # {}
      <3>1. PICK S : S = SafeFixes(p)
        OBVIOUS
      <3>2. Cardinality(S) = 1 /\ Cardinality({}) = 0
        BY <2>1, <3>1, FS_EmptySet
      <3>3. ASSUME S = {} PROVE FALSE
        <4>1. Cardinality(S) = Cardinality({})
          BY <3>3, Zenon
        <4>2. QED
          BY <3>2, <4>1
      <3>4. QED
        BY <3>1, <3>3, Zenon
    <2>3. PICK f \in Range(p.fixed) : Safe(f)
      BY <2>2 DEF SafeFixes
    <2>4. Len(p.fixed) = 1
      BY <1>1, <2>1 DEF OneEvidence
    <2>5. DOMAIN p.fixed = 1..1
      BY <2>4
    <2>6. f = p.fixed[1]
      BY <2>5 DEF Range
    <2>7. QED
      BY <2>3, <2>4, <2>6 DEF FixedEvidenceSQL
  <1>2. CASE p.ranges # {}
    <2>1. PICK f \in FixedVersions(p) : TRUE
      OBVIOUS
    <2>2. Safe(f) /\ f \in UNION {FixesOf(r) : r \in p.ranges}
      BY <1>2 DEF FixedVersions, SafeFixes, OneEvidence
    <2>3. QED
      BY <2>2 DEF FixedEvidenceSQL
  <1>3. QED
    BY <1>1, <1>2

\* The vendors' names of a runtime are among the variants that SQL asks for.
LEMMA VariantsSuffice ==
  ASSUME NEW product \in RuntimeProducts, NEW name,
         CpeNormProduct(product) = CpeNormProduct(name)
  PROVE  name \in CpeProductVariants(product)
  BY DEF RuntimeProducts, CpeNormProduct, CpeProductVariants

\* What the rows are made of.
RowInv ==
  /\ IsEcosystem(row.eco)
  /\ \A p \in row.products :
        IsEcosystem(p.eco) /\ p.fixed \in Seq(Range(p.fixed)) /\ OneEvidence(p)

\* Chunks that are merged on a row keep it so.
LEMMA UpsertKeeps == ASSUME RowInv, NEW e \in Entries, UpsertCveEntry(e) PROVE RowInv'
  <1>1. PICK c : c = Classified(e)[2]
    OBVIOUS
  <1>2. IsEcosystem(c)
    <2>1. e.products # <<>> => e.products[1] \in Range(e.products)
      BY MatchingAssumption
    <2>2. e.products # <<>> => IsEcosystem(e.products[1].eco)
      BY <2>1, MatchingAssumption
    <2>3. IsEcosystem(NoEcosystem)
      BY DEF NoEcosystem, IsEcosystem
    <2>4. IsEcosystem(e.eco)
      BY MatchingAssumption
    <2>5. QED
      BY <1>1, <2>2, <2>3, <2>4 DEF Classified
  <1>3. /\ row'.eco = IF c # NoEcosystem THEN c ELSE row.eco
        /\ row'.products = row.products \cup Range(e.products)
    BY <1>1 DEF UpsertCveEntry
  <1>4. QED
    BY <1>2, <1>3, MatchingAssumption DEF RowInv

\* What Go accepts of a row, SQL has picked.
LEMMA CandidatesSuffice ==
  ASSUME RowInv, NEW pkg \in Scanned, NEW v, CompatibleSecurityCandidate(pkg, v)
  PROVE  Candidate(pkg)
  <1>1. PICK p \in row.products : CompatibleProduct(pkg, v, p)
    BY DEF CompatibleSecurityCandidate
  <1>2. PICK e : e = EffectiveEco(p)
    OBVIOUS
  <1>3. /\ NormalizeEcosystem(e) # NoEcosystem /\ pkg.eco # NoEcosystem
        /\ NormalizeEcosystem(pkg.eco) = NormalizeEcosystem(e)
        /\ FixedVersions(p) # {} /\ VersionIsAffected(v, p)
    BY <1>1, <1>2, Zenon DEF CompatibleProduct
  <1>4. IsEcosystem(e) /\ e # NoEcosystem
    BY <1>2, <1>3, NoneIsNone DEF EffectiveEco, RowInv
  <1>5. NormalizeEcosystem(e) = NormalizeEcosystemSQL(e)
    <2>1. e.release \in BOOLEAN /\ e = [name |-> e.name, release |-> e.release]
      BY <1>4 DEF IsEcosystem
    <2>2. QED
      BY <2>1, EcosystemsAgree
  <1>6. NormalizeEcosystem(pkg.eco) = NormalizeEcosystemSQL(pkg.eco)
    <2>1. PICK n : pkg.eco = [name |-> n, release |-> FALSE]
      <3>1. \/ \E t \in DOMAIN EcosystemForType :
                  pkg = [type |-> t, eco |-> Eco(EcosystemForType[t])]
            \/ \E r \in RuntimeProducts : pkg = [type |-> "runtime", eco |-> Eco(r)]
        BY Zenon DEF Scanned
      <3>2. \E n : pkg.eco = Eco(n)
        BY <3>1
      <3>3. QED
        BY <3>2 DEF Eco
    <2>2. QED
      BY <2>1, EcosystemsAgree
  <1>7. FixedEvidenceSQL(p)
    BY <1>3, EvidenceAgrees DEF RowInv
  <1>8. NormalizeEcosystemSQL(e) \in CveAffectedPackages
    BY <1>2, <1>4, <1>7 DEF CveAffectedPackages
  <1>9. PackageEcosystemSQL(pkg) = NormalizeEcosystemSQL(pkg.eco)
    BY <1>3 DEF PackageEcosystemSQL
  <1>10. QED
    BY <1>3, <1>5, <1>6, <1>8, <1>9 DEF Candidate

\* FiltersMissNothing of every behaviour: whatever the importers bring, in
\* whichever spelling and order, Go accepts no row that SQL passes over.
THEOREM TheFiltersMissNothing == MatchingSpec => []FiltersMissNothing
  <1>1. InitMatching => RowInv
    <2>1. IsEcosystem(NoEcosystem)
      BY DEF NoEcosystem, IsEcosystem
    <2>2. InitMatching => row.eco = NoEcosystem /\ row.products = {}
      <3>1. InitMatching => row = NoRow
        BY DEF InitMatching
      <3>2. NoRow.eco = NoEcosystem /\ NoRow.products = {}
        BY DEF NoRow
      <3>3. QED
        BY <3>1, <3>2
    <2>3. QED
      BY <2>1, <2>2 DEF RowInv
  <1>2. RowInv /\ [NextMatching]_matchVars => RowInv'
    <2> SUFFICES ASSUME RowInv, [NextMatching]_matchVars PROVE RowInv'
      OBVIOUS
    <2>1. CASE NextMatching
      BY <2>1, UpsertKeeps DEF NextMatching
    <2>2. CASE UNCHANGED matchVars
      BY <2>2 DEF matchVars, RowInv
    <2>3. QED
      BY <2>1, <2>2
  <1>3. RowInv => FiltersMissNothing
    BY CandidatesSuffice, VariantsSuffice DEF FiltersMissNothing, CompatibleCPECandidate
  <1>4. QED
    BY <1>1, <1>2, <1>3, PTL DEF MatchingSpec

-----------------------------------------------------------------------------
(* The ranges of the advisories.                                           *)

\* What is found after n events is a function of what was found before.
FoundOf(g, k, v, events) ==
  g = [n \in 0..k |-> IF n = 0 THEN "closed" ELSE After(v, events[n], g[n - 1])]

\* One more event carries a function of this kind one further.
LEMMA FoundGoesOn ==
  ASSUME NEW k \in Nat \ {0}, NEW v, NEW events, NEW g, FoundOf(g, k - 1, v, events)
  PROVE  \E h : FoundOf(h, k, v, events)
  <1> DEFINE h == [n \in 0..k |-> IF n = 0 THEN "closed" ELSE After(v, events[n], g[n - 1])]
  <1>1. g = [n \in 0..(k - 1) |-> IF n = 0 THEN "closed" ELSE After(v, events[n], g[n - 1])]
    BY DEF FoundOf
  <1> HIDE DEF h
  <1>2. h = [n \in 0..k |-> IF n = 0 THEN "closed" ELSE After(v, events[n], g[n - 1])]
    BY DEF h
  <1>3. ASSUME NEW n \in 0..(k - 1) PROVE h[n] = g[n]
    BY <1>1, <1>2
  <1>4. ASSUME NEW n \in 0..k
        PROVE  h[n] = IF n = 0 THEN "closed" ELSE After(v, events[n], h[n - 1])
    <2>1. CASE n = 0
      BY <1>2, <2>1
    <2>2. CASE n # 0
      <3>1. h[n - 1] = g[n - 1]
        BY <1>3, <2>2
      <3>2. QED
        BY <1>2, <2>2, <3>1
    <2>3. QED
      BY <2>1, <2>2
  <1>5. h = [n \in 0..k |-> IF n = 0 THEN "closed" ELSE After(v, events[n], h[n - 1])]
    BY <1>2, <1>4
  <1>6. QED
    BY <1>5 DEF FoundOf

\* There is one for every number of events: otherwise there is a least number without.
LEMMA FoundExists ==
  ASSUME NEW k \in Nat, NEW v, NEW events
  PROVE  \E g : FoundOf(g, k, v, events)
  <1> DEFINE None == {n \in Nat : ~ \E g : FoundOf(g, n, v, events)}
  <1>1. SUFFICES ASSUME None # {} PROVE FALSE
    OBVIOUS
  <1>2. None \in SUBSET Nat
    OBVIOUS
  <1>3. PICK m \in None : \A n \in None : m <= n
    BY <1>1, <1>2, SmallestIn
  <1>4. CASE m = 0
    <2>1. FoundOf([n \in 0..0 |-> "closed"], 0, v, events)
      BY DEF FoundOf
    <2>2. QED
      BY <1>4, <2>1
  <1>5. CASE m # 0
    <2>1. m \in Nat \ {0} /\ m - 1 \in Nat /\ m - 1 < m
      BY <1>5
    <2>2. m - 1 \notin None
      BY <1>3, <2>1
    <2>3. PICK g : FoundOf(g, m - 1, v, events)
      BY <2>1, <2>2
    <2>4. QED
      BY <2>1, <2>3, FoundGoesOn
  <1>6. QED
    BY <1>4, <1>5

\* versionInRange, event by event.
LEMMA FoundStepwise ==
  ASSUME NEW v, NEW events, Len(events) \in Nat
  PROVE  /\ FoundAfter(v, events)[0] = "closed"
         /\ \A n \in 1..Len(events) :
              FoundAfter(v, events)[n] = After(v, events[n], FoundAfter(v, events)[n - 1])
  <1> DEFINE f == FoundAfter(v, events)
  <1>1. f = CHOOSE g : g = [n \in 0..Len(events) |->
                              IF n = 0 THEN "closed" ELSE After(v, events[n], g[n - 1])]
    BY DEF FoundAfter
  <1>2. \E g : g = [n \in 0..Len(events) |->
                      IF n = 0 THEN "closed" ELSE After(v, events[n], g[n - 1])]
    <2>1. PICK g : FoundOf(g, Len(events), v, events)
      BY FoundExists
    <2>2. QED
      BY <2>1 DEF FoundOf
  <1> HIDE DEF f
  <1>3. f = [n \in 0..Len(events) |-> IF n = 0 THEN "closed" ELSE After(v, events[n], f[n - 1])]
    BY <1>1, <1>2
  <1>4. QED
    BY <1>3 DEF f

\* The model's comparison of an installed version with a bound is the reference's.
LEMMA OrdersAgree ==
  ASSUME NEW v \in Version, NEW b \in Version
  PROVE  CompareVersions(v, b) = Order(v, b) /\ Order(v, b) \in Int
  BY DEF CompareVersions, Order, EpochOf, Version, NoEpoch

\* Nothing, "0" and a commit are no versions.
LEMMA NoVersions ==
  /\ Nothing \notin Version /\ Always \notin Version /\ Commit \notin Version
  /\ Nothing # Always /\ Nothing # Commit
  BY DEF Nothing, Always, Commit, V, Version, NoEpoch

\* Where an installed version is within an interval.
HasBegun(v, i) == i.from = Always \/ Order(v, i.from) >= 0
BelowItsEnd(v, i) == Order(v, i.to) < 0 \/ (i.by = "last" /\ Order(v, i.to) = 0)

\* An event that begins an interval.
LEMMA IntervalBegins ==
  ASSUME NEW v \in Version, NEW i \in IntervalSet, NEW ev, ev.introduced = i.from, NEW x
  PROVE  Introduce(v, ev, x) = IF x \in {"yes", "no"} THEN x
                               ELSE IF HasBegun(v, i) THEN "open" ELSE "closed"
  BY OrdersAgree, NoVersions DEF Introduce, HasBegun, Less, IntervalSet

\* An event that ends one at a version.
LEMMA IntervalEnds ==
  ASSUME NEW v \in Version, NEW i \in IntervalSet, i.to \in Version, NEW ev,
         ev.fixed = IF i.by = "fixed" THEN i.to ELSE Nothing,
         ev.last = IF i.by = "last" THEN i.to ELSE Nothing,
         ev.limit = IF i.by = "limit" THEN i.to ELSE Nothing, NEW x
  PROVE  Limit(v, ev, LastAffected(v, ev, Fix(v, ev, x))) =
           IF x # "open" THEN x ELSE IF BelowItsEnd(v, i) THEN "yes" ELSE "closed"
  <1>1. CompareVersions(v, i.to) = Order(v, i.to) /\ Order(v, i.to) \in Int
    BY OrdersAgree
  <1>2. i.by \in {"fixed", "last", "limit"} /\ i.to # Nothing /\ i.to # Commit
    BY NoVersions DEF IntervalSet
  <1>3. QED
    BY <1>1, <1>2 DEF Limit, LastAffected, Fix, BelowItsEnd, Less, Passed, Safe

\* The events of a listing.
LEMMA EventsOf ==
  ASSUME NEW i \in IntervalSet
  PROVE  /\ Starting(i).introduced = i.from
         /\ Starting(i).fixed = Nothing /\ Starting(i).last = Nothing /\ Starting(i).limit = Nothing
         /\ Ending(i).introduced = Nothing
         /\ Ending(i).fixed = IF i.by = "fixed" THEN i.to ELSE Nothing
         /\ Ending(i).last = IF i.by = "last" THEN i.to ELSE Nothing
         /\ Ending(i).limit = IF i.by = "limit" THEN i.to ELSE Nothing
         /\ Bounds(i).introduced = i.from
         /\ Bounds(i).fixed = IF i.by = "fixed" THEN i.to ELSE Nothing
         /\ Bounds(i).last = IF i.by = "last" THEN i.to ELSE Nothing
         /\ Bounds(i).limit = IF i.by = "limit" THEN i.to ELSE Nothing
  <1>1. i.by \in {"fixed", "last", "limit"}
    BY DEF IntervalSet
  <1>2. Event = [introduced |-> Nothing, fixed |-> Nothing, last |-> Nothing, limit |-> Nothing]
    BY DEF Event
  <1>3. Starting(i) = [introduced |-> i.from, fixed |-> Nothing, last |-> Nothing, limit |-> Nothing]
    BY <1>2 DEF Starting
  <1>4. QED
    BY <1>1, <1>2, <1>3 DEF Ending, Bounds

\* What an interval of a range makes of what was found before it: a version in it is
\* found, and an interval that ends leaves nothing open.
IntervalGives(v, i, x, r) ==
  x \in {"yes", "closed"} =>
    /\ r \in {"yes", "open"} <=> (x = "yes" \/ Inside(v, i))
    /\ i.to \in Version => r \in {"yes", "closed"}

\* An interval whose end is a version, nothing, or an unsafe fix.
WellEnded(i) == i.to \in Version \/ i.to = Nothing \/ (i.to = Commit /\ i.by = "fixed")

\* The two listings of one interval.
LEMMA IntervalIsFound ==
  ASSUME NEW v \in Version, NEW i \in IntervalSet, WellEnded(i), NEW x
  PROVE  /\ IntervalGives(v, i, x, After(v, Bounds(i), x))
         /\ i.to # Nothing => IntervalGives(v, i, x, After(v, Ending(i), After(v, Starting(i), x)))
         /\ i.to = Nothing => IntervalGives(v, i, x, After(v, Starting(i), x))
  <1>1. SUFFICES ASSUME x \in {"yes", "closed"}
        PROVE  /\ IntervalGives(v, i, x, After(v, Bounds(i), x))
               /\ i.to # Nothing => IntervalGives(v, i, x, After(v, Ending(i), After(v, Starting(i), x)))
               /\ i.to = Nothing => IntervalGives(v, i, x, After(v, Starting(i), x))
    BY DEF IntervalGives
  <1> DEFINE y == IF x = "yes" THEN "yes" ELSE IF HasBegun(v, i) THEN "open" ELSE "closed"
  <1>2. After(v, Starting(i), x) = y
    BY <1>1, IntervalBegins, EventsOf DEF After, Fix, LastAffected, Limit
  <1>3. Introduce(v, Bounds(i), x) = y /\ Introduce(v, Ending(i), y) = y
    BY <1>1, IntervalBegins, EventsOf DEF Introduce
  <1>4. CASE i.to \in Version
    <2>1. \A z : Limit(v, Bounds(i), LastAffected(v, Bounds(i), Fix(v, Bounds(i), z))) =
                   IF z # "open" THEN z ELSE IF BelowItsEnd(v, i) THEN "yes" ELSE "closed"
      BY <1>4, EventsOf, IntervalEnds
    <2>2. \A z : Limit(v, Ending(i), LastAffected(v, Ending(i), Fix(v, Ending(i), z))) =
                   IF z # "open" THEN z ELSE IF BelowItsEnd(v, i) THEN "yes" ELSE "closed"
      BY <1>4, EventsOf, IntervalEnds
    <2>3. Inside(v, i) <=> HasBegun(v, i) /\ BelowItsEnd(v, i)
      BY <1>4, NoVersions DEF Inside, HasBegun, BelowItsEnd
    <2>4. i.to # Nothing
      BY <1>4, NoVersions
    <2>5. /\ After(v, Bounds(i), x) = IF y # "open" THEN y ELSE IF BelowItsEnd(v, i) THEN "yes" ELSE "closed"
          /\ After(v, Ending(i), y) = IF y # "open" THEN y ELSE IF BelowItsEnd(v, i) THEN "yes" ELSE "closed"
      BY <1>3, <2>1, <2>2 DEF After
    <2>6. QED
      BY <1>1, <1>2, <2>3, <2>4, <2>5 DEF IntervalGives
  <1>5. CASE i.to = Nothing
    <2>1. Bounds(i) = Starting(i)
      BY <1>5 DEF Bounds
    <2>2. Inside(v, i) <=> HasBegun(v, i)
      BY <1>5, NoVersions DEF Inside, HasBegun
    <2>3. QED
      BY <1>1, <1>2, <1>5, <2>1, <2>2, NoVersions DEF IntervalGives
  <1>6. CASE i.to = Commit /\ i.by = "fixed"
    <2>1. ~Inside(v, i)
      BY <1>6 DEF Inside
    <2>2. ASSUME NEW ev, ev.fixed = Commit, NEW z \in {"yes", "open", "closed"}
          PROVE  Limit(v, ev, LastAffected(v, ev, Fix(v, ev, z))) = IF z = "open" THEN "no" ELSE z
      BY <2>2, NoVersions DEF Limit, LastAffected, Fix, Safe
    <2>3. Bounds(i).fixed = Commit /\ Ending(i).fixed = Commit /\ y \in {"yes", "open", "closed"}
      BY <1>6, EventsOf
    <2>4. /\ After(v, Bounds(i), x) = IF y = "open" THEN "no" ELSE y
          /\ After(v, Ending(i), y) = IF y = "open" THEN "no" ELSE y
      BY <1>3, <2>2, <2>3 DEF After
    <2>5. QED
      BY <1>1, <1>2, <1>6, <2>1, <2>4, NoVersions DEF IntervalGives
  <1>7. QED
    BY <1>4, <1>5, <1>6 DEF WellEnded

\* Interval by interval, a range is found to hold an installed version when one of
\* its intervals does.
LEMMA RangeIsFound ==
  ASSUME NEW v, NEW s \in Seq(IntervalSet), s # <<>>, OnlyTheLastIsOpen(s), NEW g,
         g[0] = "closed",
         \A k \in 1..Len(s) : IntervalGives(v, s[k], g[k - 1], g[k])
  PROVE  g[Len(s)] \in {"yes", "open"} <=> \E k \in DOMAIN s : Inside(v, s[k])
  <1> DEFINE Good(n) == /\ g[n] \in {"yes", "closed"}
                        /\ g[n] = "yes" <=> \E k \in 1..n : Inside(v, s[k])
             Bad == {n \in Nat : n < Len(s) /\ ~Good(n)}
  <1> HIDE DEF Good
  <1>0. Len(s) \in Nat /\ Len(s) # 0 /\ DOMAIN s = 1..Len(s)
    BY EmptySeq, LenProperties
  <1>1. ASSUME NEW n \in Nat, n < Len(s) PROVE Good(n)
    <2>1. SUFFICES ASSUME Bad # {} PROVE FALSE
      BY <1>1
    <2>2. PICK m \in Bad : \A k \in Bad : m <= k
      BY <2>1, SmallestIn
    <2>n. m \in Nat /\ m < Len(s) /\ ~Good(m)
      OBVIOUS
    <2>m. \A k \in Nat : k < Len(s) /\ k < m => Good(k)
      <3>1. ASSUME NEW k \in Nat, k < Len(s), k < m PROVE Good(k)
        BY <2>2, <2>n, <3>1
      <3>2. QED
        BY <3>1
    <2>3. CASE m = 0
      BY <2>2, <2>3 DEF Good
    <2>4. CASE m # 0
      <3>0. ASSUME NEW l \in Nat, NEW j \in Nat, j < l, j # 0
            PROVE  j \in 1..l /\ j # l /\ j - 1 \in Nat /\ j - 1 < j /\ j - 1 < l
        BY <3>0
      <3>1. m \in 1..Len(s) /\ m # Len(s) /\ m - 1 \in Nat /\ m - 1 < m /\ m - 1 < Len(s)
        BY <1>0, <2>n, <2>4, <3>0
      <3>2. Good(m - 1)
        BY <2>m, <3>1
      <3>3. s[m].to \in Version
        BY <3>1 DEF OnlyTheLastIsOpen
      <3>4. /\ g[m] \in {"yes", "closed"}
            /\ g[m] = "yes" <=> (g[m - 1] = "yes" \/ Inside(v, s[m]))
        BY <3>1, <3>2, <3>3 DEF IntervalGives, Good
      <3>5. (\E k \in 1..m : Inside(v, s[k])) <=>
              Inside(v, s[m]) \/ \E k \in 1..(m - 1) : Inside(v, s[k])
        <4>1. 1..m = (1..(m - 1)) \cup {m}
          BY <3>1
        <4>2. QED
          BY <4>1
      <3>6. Good(m)
        BY <3>2, <3>4, <3>5 DEF Good
      <3>7. QED
        BY <2>n, <3>6
    <2>5. QED
      BY <2>3, <2>4
  <1>2. Len(s) - 1 \in Nat /\ Len(s) - 1 < Len(s) /\ Len(s) \in 1..Len(s)
    BY <1>0
  <1>3. Good(Len(s) - 1)
    BY <1>1, <1>2
  <1>4. g[Len(s)] \in {"yes", "open"} <=> g[Len(s) - 1] = "yes" \/ Inside(v, s[Len(s)])
    BY <1>2, <1>3 DEF IntervalGives, Good
  <1>5. (\E k \in DOMAIN s : Inside(v, s[k])) <=>
          Inside(v, s[Len(s)]) \/ \E k \in 1..(Len(s) - 1) : Inside(v, s[k])
    <2>1. DOMAIN s = (1..(Len(s) - 1)) \cup {Len(s)}
      BY <1>0
    <2>2. QED
      BY <2>1
  <1>6. QED
    BY <1>3, <1>4, <1>5 DEF Good

\* The intervals of a range are of the kinds above.
LEMMA IntervalOf ==
  ASSUME NEW s \in Seq(IntervalSet), OnlyTheLastIsOpen(s), NEW k \in 1..Len(s)
  PROVE  s[k] \in IntervalSet /\ WellEnded(s[k]) /\ (k # Len(s) => s[k].to # Nothing)
  <1>1. s[k] \in IntervalSet
    BY ElementOfSeq
  <1>2. s[k].to \in Version \cup {Nothing, Commit}
    BY <1>1 DEF IntervalSet
  <1>3. QED
    BY <1>1, <1>2, NoVersions DEF WellEnded, OnlyTheLastIsOpen

\* A range listed interval by interval.
LEMMA InOneObjectMeans ==
  ASSUME NEW v \in Version, NEW s \in Seq(IntervalSet), s # <<>>, OnlyTheLastIsOpen(s)
  PROVE  VersionInRange(v, InOneObject(s)) <=> \E k \in DOMAIN s : Inside(v, s[k])
  <1>1. PICK events : events = InOneObject(s)
    OBVIOUS
  <1>2. PICK g : g = FoundAfter(v, events)
    OBVIOUS
  <1>3. Len(s) \in Nat
    OBVIOUS
  <1>4. events = [k \in 1..Len(s) |-> Bounds(s[k])]
    BY <1>1 DEF InOneObject
  <1>5. Len(events) = Len(s)
    BY <1>3, <1>4
  <1>6. g[0] = "closed" /\ \A k \in 1..Len(s) : g[k] = After(v, events[k], g[k - 1])
    BY <1>2, <1>3, <1>5, FoundStepwise
  <1>7. ASSUME NEW k \in 1..Len(s) PROVE IntervalGives(v, s[k], g[k - 1], g[k])
    BY <1>4, <1>6, IntervalOf, IntervalIsFound
  <1>8. g[Len(s)] \in {"yes", "open"} <=> \E k \in DOMAIN s : Inside(v, s[k])
    BY <1>6, <1>7, RangeIsFound
  <1>9. QED
    BY <1>1, <1>2, <1>5, <1>8 DEF VersionInRange

\* A range listed event by event.
LEMMA OneByOneMeans ==
  ASSUME NEW v \in Version, NEW s \in Seq(IntervalSet), s # <<>>, OnlyTheLastIsOpen(s)
  PROVE  VersionInRange(v, OneByOne(s)) <=> \E k \in DOMAIN s : Inside(v, s[k])
  <1>1. PICK events : events = OneByOne(s)
    OBVIOUS
  <1>2. PICK f : f = FoundAfter(v, events)
    OBVIOUS
  <1>3. Len(s) \in Nat /\ Len(s) # 0
    BY EmptySeq
  <1>4. PICK open \in {0, 1} : open = IF s[Len(s)].to = Nothing THEN 1 ELSE 0
    OBVIOUS
  <1>5. PICK m \in Nat : m = 2 * Len(s) - open
    BY <1>3
  <1>6. events = [n \in 1..m |-> IF n % 2 = 1 THEN Starting(s[(n + 1) \div 2])
                                             ELSE Ending(s[n \div 2])]
    BY <1>1, <1>4, <1>5 DEF OneByOne
  <1>7. Len(events) = m
    BY <1>6
  <1>8. f[0] = "closed" /\ \A n \in 1..m : f[n] = After(v, events[n], f[n - 1])
    BY <1>2, <1>7, FoundStepwise
  <1>9. PICK g : g = [k \in 0..Len(s) |-> IF k = Len(s) THEN f[m] ELSE f[2 * k]]
    OBVIOUS
  <1>10. g[0] = "closed"
    BY <1>3, <1>8, <1>9
  <1>11. ASSUME NEW k \in 1..Len(s) PROVE IntervalGives(v, s[k], g[k - 1], g[k])
    <2>1. g[k - 1] = f[2 * k - 2]
      BY <1>3, <1>9
    <2>2. 2 * k - 1 \in 1..m
      BY <1>3, <1>5
    <2>3. (2 * k - 1) % 2 = 1 /\ ((2 * k - 1) + 1) \div 2 = k
      OBVIOUS
    <2>4. f[2 * k - 1] = After(v, Starting(s[k]), f[2 * k - 2])
      <3>1. events[2 * k - 1] = Starting(s[k])
        BY <1>6, <2>2, <2>3
      <3>2. (2 * k - 1) - 1 = 2 * k - 2
        OBVIOUS
      <3>3. QED
        BY <1>8, <2>2, <3>1, <3>2
    <2>5. s[k] \in IntervalSet /\ WellEnded(s[k]) /\ (k # Len(s) => s[k].to # Nothing)
      BY IntervalOf
    <2>6. CASE s[k].to = Nothing
      <3>1. k = Len(s) /\ m = 2 * k - 1
        BY <1>4, <1>5, <2>5, <2>6
      <3>2. g[k] = After(v, Starting(s[k]), g[k - 1])
        BY <1>9, <2>1, <2>4, <3>1
      <3>3. QED
        BY <2>5, <2>6, <3>2, IntervalIsFound
    <2>7. CASE s[k].to # Nothing
      <3>1. 2 * k \in 1..m /\ (k = Len(s) => m = 2 * k)
        BY <1>3, <1>4, <1>5, <2>7
      <3>2. (2 * k) % 2 # 1 /\ (2 * k) \div 2 = k
        OBVIOUS
      <3>3. events[2 * k] = Ending(s[k])
        BY <1>6, <3>1, <3>2
      <3>4. f[2 * k] = After(v, Ending(s[k]), f[2 * k - 1])
        BY <1>8, <3>1, <3>3
      <3>5. g[k] = f[2 * k]
        BY <1>9, <3>1
      <3>6. g[k] = After(v, Ending(s[k]), After(v, Starting(s[k]), g[k - 1]))
        BY <2>1, <2>4, <3>4, <3>5
      <3>7. QED
        BY <2>5, <2>7, <3>6, IntervalIsFound
    <2>8. QED
      BY <2>6, <2>7
  <1>12. g[Len(s)] \in {"yes", "open"} <=> \E k \in DOMAIN s : Inside(v, s[k])
    BY <1>10, <1>11, RangeIsFound
  <1>13. g[Len(s)] = f[Len(events)]
    BY <1>3, <1>7, <1>9
  <1>14. QED
    BY <1>1, <1>2, <1>12, <1>13 DEF VersionInRange

\* RangesMeanIntervals of every behaviour: for whatever versions are installed and
\* however many intervals a range has, in whichever of the two forms its events are
\* listed, versionInRange finds a version when an interval holds it.
THEOREM TheRangesMeanIntervals == MatchingSpec => []RangesMeanIntervals
  <1> DEFINE RangeInv == intervals = <<>> \/ intervals \in Intervals
  <1>1. InitMatching => RangeInv
    BY DEF InitMatching
  <1>2. RangeInv /\ [NextMatching]_matchVars => RangeInv'
    BY DEF NextMatching, UpsertCveEntry, matchVars
  <1>3. RangeInv => RangesMeanIntervals
    <2>1. SUFFICES ASSUME RangeInv, intervals # <<>>, NEW v \in Installed
          PROVE  LET inside == \E k \in DOMAIN intervals : Inside(v, intervals[k])
                 IN /\ VersionInRange(v, OneByOne(intervals)) <=> inside
                    /\ VersionInRange(v, InOneObject(intervals)) <=> inside
      BY DEF RangesMeanIntervals
    <2>2. intervals \in Seq(IntervalSet) /\ OnlyTheLastIsOpen(intervals) /\ v \in Version
      BY <2>1, MatchingAssumption
    <2>3. QED
      BY <2>1, <2>2, OneByOneMeans, InOneObjectMeans
  <1>4. QED
    BY <1>1, <1>2, <1>3, PTL DEF MatchingSpec

-----------------------------------------------------------------------------
(* VersionCompare.  A comparison orders the pieces of versions when its results
   for any three of them fit together.  The pieces are looked at one by one; a
   comparison that is decided by the first pieces that differ fits together when
   those of the pieces do.                                                   *)

Signs == {-1, 0, 1}

(* x, y and z may be the results for a and b, for b and c and for a and c. *)
Composes(x, y, z) ==
  /\ x = 0 => z = y
  /\ y = 0 => z = x
  /\ x = y => z = x

(* The result at index n, which is 0 where nothing is compared. *)
ResultAt(f, n) == IF n \in DOMAIN f THEN f[n] ELSE 0

\* Differences of numbers are ordered.
LEMMA SignOrders ==
  ASSUME NEW a \in Int, NEW b \in Int, NEW c \in Int
  PROVE  /\ Sign(a - b) \in Signs
         /\ Sign(a - a) = 0
         /\ (Sign(a - b) = 0) <=> (a = b)
         /\ Composes(Sign(a - b), Sign(b - c), Sign(a - c))
  BY DEF Sign, Signs, Composes

\* The smallest of a set of natural numbers.
LEMMA MinIs ==
  ASSUME NEW S \in SUBSET Nat, S # {}
  PROVE  Min(S) \in S /\ \A k \in S : Min(S) <= k
  BY SmallestIn DEF Min

\* Deciding finds the first result that is not 0.
LEMMA DecidingIsFirst ==
  ASSUME NEW f, DOMAIN f \in SUBSET Nat
  PROVE  \/ Deciding(f) = 0 /\ \A n \in Nat : ResultAt(f, n) = 0
         \/ \E m \in Nat : /\ Deciding(f) = ResultAt(f, m) /\ ResultAt(f, m) # 0
                           /\ \A n \in Nat : n < m => ResultAt(f, n) = 0
  <1> DEFINE D == {i \in DOMAIN f : f[i] # 0}
  <1>1. CASE D = {}
    BY <1>1 DEF Deciding, ResultAt
  <1>2. CASE D # {}
    <2>1. D \in SUBSET Nat
      OBVIOUS
    <2>2. Min(D) \in D /\ \A k \in D : Min(D) <= k
      BY <1>2, <2>1, MinIs
    <2>3. Deciding(f) = f[Min(D)]
      BY <1>2 DEF Deciding
    <2>4. ASSUME NEW n \in Nat, n < Min(D) PROVE ResultAt(f, n) = 0
      <3>1. n \notin D
        BY <2>1, <2>2, <2>4
      <3>2. QED
        BY <3>1 DEF ResultAt
    <2>5. ResultAt(f, Min(D)) = f[Min(D)] /\ f[Min(D)] # 0 /\ Min(D) \in Nat
      BY <2>1, <2>2 DEF ResultAt
    <2>6. QED
      BY <2>3, <2>4, <2>5
  <1>3. QED
    BY <1>1, <1>2

\* What decides is one of the results, and nothing does when all are 0.
LEMMA DecidingIsSign ==
  ASSUME NEW f, DOMAIN f \in SUBSET Nat, \A n \in DOMAIN f : f[n] \in Signs
  PROVE  /\ Deciding(f) \in Signs
         /\ (\A n \in DOMAIN f : f[n] = 0) => Deciding(f) = 0
  BY DecidingIsFirst DEF ResultAt, Signs

\* When the results for three fit together everywhere, so does what decides.
LEMMA DecidingComposes ==
  ASSUME NEW f, NEW g, NEW h,
         DOMAIN f \in SUBSET Nat, DOMAIN g \in SUBSET Nat, DOMAIN h \in SUBSET Nat,
         \A n \in Nat : Composes(ResultAt(f, n), ResultAt(g, n), ResultAt(h, n))
  PROVE  Composes(Deciding(f), Deciding(g), Deciding(h))
  <1> DEFINE F(n) == ResultAt(f, n)
             G(n) == ResultAt(g, n)
             H(n) == ResultAt(h, n)
  <1>1. \A n \in Nat : /\ F(n) = 0 => H(n) = G(n)
                       /\ G(n) = 0 => H(n) = F(n)
                       /\ F(n) = G(n) => H(n) = F(n)
    BY DEF Composes
  <1>2. \/ Deciding(f) = 0 /\ \A n \in Nat : F(n) = 0
        \/ \E m \in Nat : Deciding(f) = F(m) /\ F(m) # 0 /\ \A n \in Nat : n < m => F(n) = 0
    BY DecidingIsFirst
  <1>3. \/ Deciding(g) = 0 /\ \A n \in Nat : G(n) = 0
        \/ \E m \in Nat : Deciding(g) = G(m) /\ G(m) # 0 /\ \A n \in Nat : n < m => G(n) = 0
    BY DecidingIsFirst
  <1>4. \/ Deciding(h) = 0 /\ \A n \in Nat : H(n) = 0
        \/ \E m \in Nat : Deciding(h) = H(m) /\ H(m) # 0 /\ \A n \in Nat : n < m => H(n) = 0
    BY DecidingIsFirst
  <1> HIDE DEF F, G, H
  <1>5. CASE \A n \in Nat : F(n) = 0
    <2>1. Deciding(f) = 0 /\ \A n \in Nat : H(n) = G(n)
      BY <1>1, <1>2, <1>5
    <2>2. Deciding(h) = Deciding(g)
      BY <1>3, <1>4, <2>1
    <2>3. QED
      BY <2>1, <2>2 DEF Composes
  <1>6. CASE \A n \in Nat : G(n) = 0
    <2>1. Deciding(g) = 0 /\ \A n \in Nat : H(n) = F(n)
      BY <1>1, <1>3, <1>6
    <2>2. Deciding(h) = Deciding(f)
      BY <1>2, <1>4, <2>1
    <2>3. QED
      BY <2>1, <2>2 DEF Composes
  <1>7. CASE (\E n \in Nat : F(n) # 0) /\ (\E n \in Nat : G(n) # 0)
    <2>1. PICK i \in Nat : Deciding(f) = F(i) /\ F(i) # 0 /\ \A n \in Nat : n < i => F(n) = 0
      BY <1>2, <1>7
    <2>2. PICK j \in Nat : Deciding(g) = G(j) /\ G(j) # 0 /\ \A n \in Nat : n < j => G(n) = 0
      BY <1>3, <1>7
    <2>3. ASSUME NEW n \in Nat, n < i, n < j PROVE H(n) = 0
      BY <1>1, <2>1, <2>2, <2>3
    <2>4. CASE i < j
      <3>1. H(i) = F(i) /\ H(i) # 0 /\ \A n \in Nat : n < i => H(n) = 0
        BY <1>1, <2>1, <2>2, <2>3, <2>4
      <3>2. Deciding(h) = F(i)
        BY <1>4, <3>1
      <3>3. QED
        BY <2>1, <2>2, <3>2 DEF Composes
    <2>5. CASE j < i
      <3>1. H(j) = G(j) /\ H(j) # 0 /\ \A n \in Nat : n < j => H(n) = 0
        BY <1>1, <2>1, <2>2, <2>3, <2>5
      <3>2. Deciding(h) = G(j)
        BY <1>4, <3>1
      <3>3. QED
        BY <2>1, <2>2, <3>2 DEF Composes
    <2>6. CASE i = j /\ F(i) = G(i)
      <3>1. H(i) = F(i) /\ H(i) # 0 /\ \A n \in Nat : n < i => H(n) = 0
        BY <1>1, <2>1, <2>3, <2>6
      <3>2. Deciding(h) = F(i)
        BY <1>4, <3>1
      <3>3. QED
        BY <2>1, <2>2, <2>6, <3>2 DEF Composes
    <2>7. CASE i = j /\ F(i) # G(i)
      BY <2>1, <2>2, <2>7 DEF Composes
    <2>8. QED
      BY <2>4, <2>5, <2>6, <2>7
  <1>8. QED
    BY <1>5, <1>6, <1>7

\* Two results, of which the second counts only where the first does not decide.
LEMMA DecidingPair ==
  ASSUME NEW x \in Signs, NEW y \in Signs
  PROVE  Deciding(<<x, y>>) = IF x # 0 THEN x ELSE y
  <1> DEFINE f == <<x, y>>
  <1>1. DOMAIN f = {1, 2} /\ f[1] = x /\ f[2] = y
    OBVIOUS
  <1> HIDE DEF f
  <1>2. QED
    BY <1>1, DecidingIsFirst DEF ResultAt, f

\* Both places of two sequences, and only they, are looked at.
LEMMA LongestIs ==
  ASSUME NEW s, NEW t, Len(s) \in Nat, Len(t) \in Nat
  PROVE  Longest(s, t) = {n \in Nat : 1 <= n /\ (n <= Len(s) \/ n <= Len(t))}
  <1>1. Max({Len(s), Len(t)}) = IF Len(s) >= Len(t) THEN Len(s) ELSE Len(t)
    BY DEF Max
  <1>2. QED
    BY <1>1 DEF Longest

\* The first difference of two sequences orders them.
LEMMA FirstDifferenceOrders ==
  ASSUME NEW s \in Seq(Int), NEW t \in Seq(Int), NEW u \in Seq(Int), NEW pad \in Int
  PROVE  /\ FirstDifference(s, t, pad) \in Signs
         /\ FirstDifference(s, s, pad) = 0
         /\ Composes(FirstDifference(s, t, pad), FirstDifference(t, u, pad),
                     FirstDifference(s, u, pad))
  <1> DEFINE D(v, w) == [i \in Longest(v, w) |-> Sign(Padded(v, i, pad) - Padded(w, i, pad))]
  <1>1. ASSUME NEW v \in Seq(Int), NEW w \in Seq(Int)
        PROVE  /\ DOMAIN D(v, w) \in SUBSET Nat
               /\ \A i \in DOMAIN D(v, w) : D(v, w)[i] \in Signs
               /\ \A i \in Nat : ResultAt(D(v, w), i) =
                    IF i = 0 THEN 0 ELSE Sign(Padded(v, i, pad) - Padded(w, i, pad))
    <2>0. Len(v) \in Nat /\ Len(w) \in Nat
      OBVIOUS
    <2>1. Longest(v, w) = {n \in Nat : 1 <= n /\ (n <= Len(v) \/ n <= Len(w))}
      BY <2>0, LongestIs
    <2>2. \A i \in Nat \ {0} : Padded(v, i, pad) \in Int /\ Padded(w, i, pad) \in Int
      BY DEF Padded
    <2>3. ASSUME NEW i \in Nat \ {0}, i \notin Longest(v, w)
          PROVE  Sign(Padded(v, i, pad) - Padded(w, i, pad)) = 0
      <3>1. i > Len(v) /\ i > Len(w)
        BY <2>1, <2>3
      <3>2. QED
        BY <3>1 DEF Padded, Sign
    <2>4. \A i \in Longest(v, w) : Sign(Padded(v, i, pad) - Padded(w, i, pad)) \in Signs
      <3>1. \A i \in Longest(v, w) : Padded(v, i, pad) \in Int /\ Padded(w, i, pad) \in Int
        BY <2>1, <2>2
      <3>2. QED
        BY <3>1, SignOrders
    <2>5. QED
      BY <2>1, <2>3, <2>4 DEF ResultAt
  <1>2. \A v, w : FirstDifference(v, w, pad) = Deciding(D(v, w))
    BY DEF FirstDifference
  <1>3. ASSUME NEW i \in Nat
        PROVE  Composes(ResultAt(D(s, t), i), ResultAt(D(t, u), i), ResultAt(D(s, u), i))
    <2>1. i # 0 => Padded(s, i, pad) \in Int /\ Padded(t, i, pad) \in Int /\ Padded(u, i, pad) \in Int
      BY DEF Padded
    <2>2. CASE i = 0
      <3>1. ResultAt(D(s, t), i) = 0 /\ ResultAt(D(t, u), i) = 0 /\ ResultAt(D(s, u), i) = 0
        BY <1>1, <2>2
      <3>2. QED
        BY <3>1 DEF Composes
    <2>3. CASE i # 0
      <3>1. /\ ResultAt(D(s, t), i) = Sign(Padded(s, i, pad) - Padded(t, i, pad))
            /\ ResultAt(D(t, u), i) = Sign(Padded(t, i, pad) - Padded(u, i, pad))
            /\ ResultAt(D(s, u), i) = Sign(Padded(s, i, pad) - Padded(u, i, pad))
        BY <1>1, <2>3
      <3>2. Composes(Sign(Padded(s, i, pad) - Padded(t, i, pad)),
                     Sign(Padded(t, i, pad) - Padded(u, i, pad)),
                     Sign(Padded(s, i, pad) - Padded(u, i, pad)))
        BY <2>1, <2>3, SignOrders
      <3>3. QED
        BY <3>1, <3>2
    <2>4. QED
      BY <2>2, <2>3
  <1>4. \A i \in DOMAIN D(s, s) : D(s, s)[i] = 0
    <2>1. \A i \in Nat \ {0} : Padded(s, i, pad) \in Int
      BY DEF Padded
    <2>2. Len(s) \in Nat
      OBVIOUS
    <2>3. Longest(s, s) \in SUBSET (Nat \ {0})
      BY <2>2, LongestIs
    <2>4. QED
      BY <2>1, <2>3, SignOrders
  <1> HIDE DEF D
  <1>5. /\ DOMAIN D(s, t) \in SUBSET Nat /\ DOMAIN D(t, u) \in SUBSET Nat
        /\ DOMAIN D(s, u) \in SUBSET Nat /\ DOMAIN D(s, s) \in SUBSET Nat
        /\ \A i \in DOMAIN D(s, t) : D(s, t)[i] \in Signs
        /\ \A i \in DOMAIN D(s, s) : D(s, s)[i] \in Signs
    BY <1>1
  <1>6. Deciding(D(s, t)) \in Signs /\ Deciding(D(s, s)) = 0
    BY <1>4, <1>5, DecidingIsSign
  <1>7. Composes(Deciding(D(s, t)), Deciding(D(t, u)), Deciding(D(s, u)))
    BY <1>3, <1>5, DecidingComposes
  <1>8. QED
    BY <1>2, <1>6, <1>7

\* Lexicographic comparison.
LEMMA StrCmpOrders ==
  ASSUME NEW s \in Seq(Int), NEW t \in Seq(Int), NEW u \in Seq(Int)
  PROVE  /\ StrCmp(s, t) \in Signs
         /\ StrCmp(s, s) = 0
         /\ Composes(StrCmp(s, t), StrCmp(t, u), StrCmp(s, u))
  BY FirstDifferenceOrders DEF StrCmp

\* The second of two results that fit together counts where the first is 0.
LEMMA PairComposes ==
  ASSUME NEW x1 \in Signs, NEW y1 \in Signs, NEW z1 \in Signs, Composes(x1, y1, z1),
         NEW x2 \in Signs, NEW y2 \in Signs, NEW z2 \in Signs,
         x1 = 0 /\ y1 = 0 => Composes(x2, y2, z2)
  PROVE  /\ Deciding(<<x1, x2>>) \in Signs
         /\ Composes(Deciding(<<x1, x2>>), Deciding(<<y1, y2>>), Deciding(<<z1, z2>>))
  <1>1. /\ Deciding(<<x1, x2>>) = IF x1 # 0 THEN x1 ELSE x2
        /\ Deciding(<<y1, y2>>) = IF y1 # 0 THEN y1 ELSE y2
        /\ Deciding(<<z1, z2>>) = IF z1 # 0 THEN z1 ELSE z2
    BY DecidingPair
  <1>2. QED
    BY <1>1 DEF Composes, Signs

\* The first of three results that is not 0.
LEMMA DecidingTriple ==
  ASSUME NEW x \in Signs, NEW y \in Signs, NEW z \in Signs
  PROVE  Deciding(<<x, y, z>>) = IF x # 0 THEN x ELSE IF y # 0 THEN y ELSE z
  <1> DEFINE f == <<x, y, z>>
  <1>1. DOMAIN f = {1, 2, 3} /\ f[1] = x /\ f[2] = y /\ f[3] = z
    OBVIOUS
  <1> HIDE DEF f
  <1>2. QED
    BY <1>1, DecidingIsFirst DEF ResultAt, f

\* Three results that fit together, one after the other.
LEMMA TripleComposes ==
  ASSUME NEW x1 \in Signs, NEW y1 \in Signs, NEW z1 \in Signs, Composes(x1, y1, z1),
         NEW x2 \in Signs, NEW y2 \in Signs, NEW z2 \in Signs, Composes(x2, y2, z2),
         NEW x3 \in Signs, NEW y3 \in Signs, NEW z3 \in Signs, Composes(x3, y3, z3)
  PROVE  /\ Deciding(<<x1, x2, x3>>) \in Signs
         /\ Composes(Deciding(<<x1, x2, x3>>), Deciding(<<y1, y2, y3>>), Deciding(<<z1, z2, z3>>))
  <1>1. /\ Deciding(<<x1, x2, x3>>) = IF x1 # 0 THEN x1 ELSE IF x2 # 0 THEN x2 ELSE x3
        /\ Deciding(<<y1, y2, y3>>) = IF y1 # 0 THEN y1 ELSE IF y2 # 0 THEN y2 ELSE y3
        /\ Deciding(<<z1, z2, z3>>) = IF z1 # 0 THEN z1 ELSE IF z2 # 0 THEN z2 ELSE z3
    BY DecidingTriple
  <1>2. QED
    BY <1>1 DEF Composes, Signs

\* A part of a sequence is a sequence.
LEMMA PartsAreSequences ==
  ASSUME NEW S, NEW s \in Seq(S), NEW i \in Nat \ {0}, NEW j \in Int, j <= Len(s)
  PROVE  SubSeq(s, i, j) \in Seq(S)
  BY SubSeqProperties

\* A run ends at a place of the string or after it.
LEMMA RunEnds ==
  ASSUME NEW S, NEW s \in Seq(S), NEW i \in 1..(Len(s) + 1), NEW C
  PROVE  /\ RunEnd(s, i, C) \in i..(Len(s) + 1)
         /\ RunEnd(s, i, C) <= Len(s) => s[RunEnd(s, i, C)] \notin C
         /\ \A k \in i..(RunEnd(s, i, C) - 1) : s[k] \in C
  <1> DEFINE E == {j \in i..(Len(s) + 1) : j = Len(s) + 1 \/ s[j] \notin C}
  <1>1. E \in SUBSET Nat /\ Len(s) + 1 \in E
    OBVIOUS
  <1>2. Min(E) \in E /\ \A k \in E : Min(E) <= k
    BY <1>1, MinIs
  <1>3. RunEnd(s, i, C) = Min(E)
    BY DEF RunEnd
  <1> HIDE DEF E
  <1>4. RunEnd(s, i, C) \in E /\ \A k \in E : RunEnd(s, i, C) <= k
    BY <1>2, <1>3
  <1>5. QED
    BY <1>1, <1>4 DEF E

\* Digit strings are ordered, leading zeros aside.
LEMMA NumbersAreOrdered ==
  ASSUME NEW s \in Seq(Int), NEW t \in Seq(Int), NEW u \in Seq(Int)
  PROVE  /\ CompareNumStr(s, t) \in Signs
         /\ CompareNumStr(s, s) = 0
         /\ Composes(CompareNumStr(s, t), CompareNumStr(t, u), CompareNumStr(s, u))
  <1> DEFINE a == StripLeadingZeros(s)
             b == StripLeadingZeros(t)
             c == StripLeadingZeros(u)
  <1>1. ASSUME NEW v \in Seq(Int) PROVE StripLeadingZeros(v) \in Seq(Int)
    <2>1. Len(v) \in Nat /\ 1 \in 1..(Len(v) + 1)
      OBVIOUS
    <2>2. RunEnd(v, 1, {Zero}) \in 1..(Len(v) + 1)
      BY <2>1, RunEnds
    <2>3. RunEnd(v, 1, {Zero}) \in Nat \ {0} /\ Len(v) \in Int /\ Len(v) <= Len(v)
      BY <2>1, <2>2
    <2>4. SubSeq(v, RunEnd(v, 1, {Zero}), Len(v)) \in Seq(Int)
      BY <2>3, PartsAreSequences
    <2>5. QED
      BY <2>4 DEF StripLeadingZeros, From
  <1>2. a \in Seq(Int) /\ b \in Seq(Int) /\ c \in Seq(Int)
    BY <1>1
  <1> HIDE DEF a, b, c
  <1>3. Len(a) \in Int /\ Len(b) \in Int /\ Len(c) \in Int
    BY <1>2
  <1>4. /\ CompareNumStr(s, t) = Deciding(<<Sign(Len(a) - Len(b)), StrCmp(a, b)>>)
        /\ CompareNumStr(t, u) = Deciding(<<Sign(Len(b) - Len(c)), StrCmp(b, c)>>)
        /\ CompareNumStr(s, u) = Deciding(<<Sign(Len(a) - Len(c)), StrCmp(a, c)>>)
        /\ CompareNumStr(s, s) = Deciding(<<Sign(Len(a) - Len(a)), StrCmp(a, a)>>)
    BY DEF CompareNumStr, a, b, c
  <1>5. /\ Sign(Len(a) - Len(b)) \in Signs /\ Sign(Len(b) - Len(c)) \in Signs
        /\ Sign(Len(a) - Len(c)) \in Signs /\ Sign(Len(a) - Len(a)) = 0
        /\ Composes(Sign(Len(a) - Len(b)), Sign(Len(b) - Len(c)), Sign(Len(a) - Len(c)))
    BY <1>3, SignOrders
  <1>6. /\ StrCmp(a, b) \in Signs /\ StrCmp(b, c) \in Signs /\ StrCmp(a, c) \in Signs
        /\ StrCmp(a, a) = 0
        /\ Composes(StrCmp(a, b), StrCmp(b, c), StrCmp(a, c))
    BY <1>2, StrCmpOrders
  <1>7. Deciding(<<0, 0>>) = 0
    BY DecidingPair DEF Signs
  <1>8. /\ Deciding(<<Sign(Len(a) - Len(b)), StrCmp(a, b)>>) \in Signs
        /\ Composes(Deciding(<<Sign(Len(a) - Len(b)), StrCmp(a, b)>>),
                    Deciding(<<Sign(Len(b) - Len(c)), StrCmp(b, c)>>),
                    Deciding(<<Sign(Len(a) - Len(c)), StrCmp(a, c)>>))
    BY <1>5, <1>6, PairComposes
  <1>9. QED
    BY <1>4, <1>5, <1>6, <1>7, <1>8

\* The n-th place of a set of places of s, and nothing after the last.
LEMMA NthIsOne ==
  ASSUME NEW L \in Nat, NEW places \in SUBSET (1..L), NEW n \in Nat
  PROVE  /\ Nth(places, n) \in SUBSET places
         /\ Nth(places, n) # {} => Min(Nth(places, n)) \in places
         /\ n > L => Nth(places, n) = {}
  <1>1. Nth(places, n) \in SUBSET places /\ places \in SUBSET Nat
    BY DEF Nth
  <1>2. Nth(places, n) # {} => Min(Nth(places, n)) \in places
    BY <1>1, MinIs
  <1>3. ASSUME n > L, NEW i \in Nth(places, n) PROVE FALSE
    <2>1. IsFiniteSet(1..L) /\ Cardinality(1..L) = L
      BY FS_Interval
    <2>2. {j \in places : j <= i} \in SUBSET (1..L)
      OBVIOUS
    <2>3. Cardinality({j \in places : j <= i}) <= L
      BY <2>1, <2>2, FS_Subset
    <2>4. Cardinality({j \in places : j <= i}) = n
      BY <1>3 DEF Nth
    <2>5. QED
      BY <1>3, <2>3, <2>4
  <1>4. QED
    BY <1>1, <1>2, <1>3

\* The last of some places of a string.
LEMMA MaxIs ==
  ASSUME NEW L \in Nat, NEW S \in SUBSET (1..L), S # {}
  PROVE  Max(S) \in S /\ Max(S) \in 1..L
  BY LargestIn DEF Max

\* Bytes are numbers, and a part of a string is a string.
LEMMA Strings ==
  ASSUME NEW s \in Seq(Byte)
  PROVE  /\ s \in Seq(Int)
         /\ Len(s) \in Nat
         /\ \A i \in 1..Len(s) : s[i] \in Byte
         /\ \A i \in Nat \ {0} : From(s, i) \in Seq(Byte)
         /\ \A i \in 1..(Len(s) + 1) : Before(s, i) \in Seq(Byte)
  <1>1. Len(s) \in Nat /\ \A i \in 1..Len(s) : s[i] \in Byte
    OBVIOUS
  <1>2. s \in Seq(Int)
    <2>1. \A b \in Byte : b \in Int
      BY DEF Byte
    <2>2. \A i \in 1..Len(s) : s[i] \in Int
      BY <1>1, <2>1
    <2>3. QED
      BY <1>1, <2>2
  <1>3. ASSUME NEW i \in Nat \ {0} PROVE From(s, i) \in Seq(Byte)
    BY <1>1, PartsAreSequences DEF From
  <1>4. ASSUME NEW i \in 1..(Len(s) + 1) PROVE Before(s, i) \in Seq(Byte)
    <2>1. i - 1 \in Int /\ i - 1 <= Len(s)
      BY <1>1
    <2>2. QED
      BY <2>1, PartsAreSequences DEF Before
  <1>5. QED
    BY <1>1, <1>2, <1>3, <1>4

\* The n-th chunk is a word and a number, both empty after the last.
LEMMA ChunksAreStrings ==
  ASSUME NEW s \in Seq(Byte), NEW n \in Nat
  PROVE  /\ Chunk(s, n).word \in Seq(Byte) /\ Chunk(s, n).number \in Seq(Byte)
         /\ n > Len(s) => Chunk(s, n) = [word |-> <<>>, number |-> <<>>]
  <1> DEFINE found == Nth(ChunkStarts(s), n)
             i == Min(found)
             d == RunEnd(s, i, NonDigits)
             e == RunEnd(s, d, Digits)
  <1>1. Len(s) \in Nat /\ ChunkStarts(s) \in SUBSET (1..Len(s))
    BY DEF ChunkStarts
  <1>2. CASE found = {}
    <2>1. Chunk(s, n) = [word |-> <<>>, number |-> <<>>]
      BY <1>2 DEF Chunk
    <2>2. <<>> \in Seq(Byte)
      OBVIOUS
    <2>3. QED
      BY <2>1, <2>2
  <1>3. CASE found # {}
    <2>1. i \in 1..Len(s) /\ ~ n > Len(s)
      BY <1>1, <1>3, NthIsOne
    <2>2. d \in i..(Len(s) + 1)
      BY <1>1, <2>1, RunEnds
    <2>3. d \in 1..(Len(s) + 1)
      BY <1>1, <2>1, <2>2
    <2>4. e \in d..(Len(s) + 1)
      BY <1>1, <2>3, RunEnds
    <2>5. Chunk(s, n) = [word |-> SubSeq(s, i, d - 1), number |-> SubSeq(s, d, e - 1)]
      BY <1>3 DEF Chunk
    <2> HIDE DEF i, d, e
    <2>6. SubSeq(s, i, d - 1) \in Seq(Byte)
      <3>1. i \in Nat \ {0} /\ d - 1 \in Int /\ d - 1 <= Len(s)
        BY <1>1, <2>1, <2>3
      <3>2. QED
        BY <3>1, PartsAreSequences
    <2>7. SubSeq(s, d, e - 1) \in Seq(Byte)
      <3>1. d \in Nat \ {0} /\ e - 1 \in Int /\ e - 1 <= Len(s)
        BY <1>1, <2>3, <2>4
      <3>2. QED
        BY <3>1, PartsAreSequences
    <2>8. QED
      BY <2>1, <2>5, <2>6, <2>7
  <1>4. QED
    BY <1>2, <1>3

\* The weights of a word are numbers.
LEMMA WeightsAreNumbers ==
  ASSUME NEW word \in Seq(Byte)
  PROVE  Weights(word) \in Seq(Int)
  <1>1. \A i \in 1..Len(word) : DebianOrder(word[i]) \in Int
    <2>1. \A i \in 1..Len(word) : word[i] \in Int
      BY Strings DEF Byte
    <2>2. QED
      BY <2>1 DEF DebianOrder
  <1>2. Len(word) \in Nat
    OBVIOUS
  <1>3. QED
    BY <1>1, <1>2 DEF Weights

\* A word and a number are compared one after the other.
LEMMA ChunksAreOrdered ==
  ASSUME NEW x, NEW y, NEW z,
         x.word \in Seq(Byte), y.word \in Seq(Byte), z.word \in Seq(Byte),
         x.number \in Seq(Byte), y.number \in Seq(Byte), z.number \in Seq(Byte)
  PROVE  /\ CompareChunks(x, y) \in Signs
         /\ CompareChunks(x, x) = 0
         /\ Composes(CompareChunks(x, y), CompareChunks(y, z), CompareChunks(x, z))
  <1> DEFINE W(c, d) == FirstDifference(Weights(c.word), Weights(d.word), 0)
             N(c, d) == CompareNumStr(c.number, d.number)
  <1>1. /\ Weights(x.word) \in Seq(Int) /\ Weights(y.word) \in Seq(Int)
        /\ Weights(z.word) \in Seq(Int)
    BY WeightsAreNumbers
  <1>2. /\ W(x, y) \in Signs /\ W(y, z) \in Signs /\ W(x, z) \in Signs
        /\ W(x, x) = 0 /\ Composes(W(x, y), W(y, z), W(x, z))
    BY <1>1, FirstDifferenceOrders
  <1>3. x.number \in Seq(Int) /\ y.number \in Seq(Int) /\ z.number \in Seq(Int)
    BY Strings
  <1>4. /\ N(x, y) \in Signs /\ N(y, z) \in Signs /\ N(x, z) \in Signs
        /\ N(x, x) = 0 /\ Composes(N(x, y), N(y, z), N(x, z))
    BY <1>3, NumbersAreOrdered
  <1>5. \A c, d : CompareChunks(c, d) = Deciding(<<W(c, d), N(c, d)>>)
    BY DEF CompareChunks
  <1> HIDE DEF W, N
  <1>6. /\ Deciding(<<W(x, y), N(x, y)>>) \in Signs
        /\ Composes(Deciding(<<W(x, y), N(x, y)>>), Deciding(<<W(y, z), N(y, z)>>),
                    Deciding(<<W(x, z), N(x, z)>>))
    BY <1>2, <1>4, PairComposes
  <1>7. Deciding(<<0, 0>>) = 0
    BY DecidingPair DEF Signs
  <1>8. QED
    BY <1>2, <1>4, <1>5, <1>6, <1>7

\* verrevcmp: the first chunks that differ decide.
LEMMA VerRevCmpOrders ==
  ASSUME NEW a \in Seq(Byte), NEW b \in Seq(Byte), NEW c \in Seq(Byte)
  PROVE  /\ VerRevCmp(a, b) \in Signs
         /\ VerRevCmp(a, a) = 0
         /\ Composes(VerRevCmp(a, b), VerRevCmp(b, c), VerRevCmp(a, c))
  <1> DEFINE D(v, w) == [n \in Longest(v, w) |-> CompareChunks(Chunk(v, n), Chunk(w, n))]
  <1>1. \A v \in Seq(Byte), n \in Nat : Chunk(v, n).word \in Seq(Byte) /\ Chunk(v, n).number \in Seq(Byte)
    BY ChunksAreStrings
  <1>2. ASSUME NEW v \in Seq(Byte), NEW w \in Seq(Byte)
        PROVE  /\ DOMAIN D(v, w) \in SUBSET Nat
               /\ \A n \in DOMAIN D(v, w) : D(v, w)[n] \in Signs
               /\ \A n \in DOMAIN D(v, v) : D(v, v)[n] = 0
               /\ \A n \in Nat : ResultAt(D(v, w), n) =
                    IF n = 0 THEN 0 ELSE CompareChunks(Chunk(v, n), Chunk(w, n))
    <2>1. Len(v) \in Nat /\ Len(w) \in Nat
      OBVIOUS
    <2>2. Longest(v, w) = {n \in Nat : 1 <= n /\ (n <= Len(v) \/ n <= Len(w))}
      BY <2>1, LongestIs
    <2>3. Longest(v, v) \in SUBSET Nat
      BY <2>1, LongestIs
    <2>4. \A n \in Nat : CompareChunks(Chunk(v, n), Chunk(w, n)) \in Signs
      BY <1>1, ChunksAreOrdered
    <2>5. \A n \in Nat : CompareChunks(Chunk(v, n), Chunk(v, n)) = 0
      BY <1>1, ChunksAreOrdered
    <2>6. ASSUME NEW n \in Nat \ {0}, n \notin Longest(v, w)
          PROVE  CompareChunks(Chunk(v, n), Chunk(w, n)) = 0
      <3>1. n > Len(v) /\ n > Len(w)
        BY <2>1, <2>2, <2>6
      <3>2. Chunk(v, n) = Chunk(w, n)
        BY <3>1, ChunksAreStrings
      <3>3. QED
        BY <2>5, <3>2
    <2>7. QED
      BY <2>2, <2>3, <2>4, <2>5, <2>6 DEF ResultAt
  <1>3. \A v, w : VerRevCmp(v, w) = Deciding(D(v, w))
    BY DEF VerRevCmp
  <1>4. ASSUME NEW n \in Nat
        PROVE  Composes(ResultAt(D(a, b), n), ResultAt(D(b, c), n), ResultAt(D(a, c), n))
    <2>1. Composes(CompareChunks(Chunk(a, n), Chunk(b, n)),
                   CompareChunks(Chunk(b, n), Chunk(c, n)),
                   CompareChunks(Chunk(a, n), Chunk(c, n)))
      BY <1>1, ChunksAreOrdered
    <2>2. Composes(0, 0, 0)
      BY DEF Composes
    <2> HIDE DEF D
    <2>3. QED
      BY <1>2, <2>1, <2>2
  <1> HIDE DEF D
  <1>5. /\ DOMAIN D(a, b) \in SUBSET Nat /\ DOMAIN D(b, c) \in SUBSET Nat
        /\ DOMAIN D(a, c) \in SUBSET Nat /\ DOMAIN D(a, a) \in SUBSET Nat
        /\ \A n \in DOMAIN D(a, b) : D(a, b)[n] \in Signs
        /\ \A n \in DOMAIN D(a, a) : D(a, a)[n] \in Signs /\ D(a, a)[n] = 0
    BY <1>2
  <1>6. Deciding(D(a, b)) \in Signs /\ Deciding(D(a, a)) = 0
    BY <1>5, DecidingIsSign
  <1>7. Composes(Deciding(D(a, b)), Deciding(D(b, c)), Deciding(D(a, c)))
    BY <1>4, <1>5, DecidingComposes
  <1>8. QED
    BY <1>3, <1>6, <1>7

\* What stands before and after the last dash are strings.
LEMMA AroundTheDash ==
  ASSUME NEW rest \in Seq(Byte), NEW none \in Seq(Byte), NEW dashes, dashes = Places(rest, Dash)
  PROVE  /\ (IF dashes = {} THEN rest ELSE Before(rest, Max(dashes))) \in Seq(Byte)
         /\ (IF dashes = {} THEN none ELSE From(rest, Max(dashes) + 1)) \in Seq(Byte)
  <1>1. CASE dashes = {}
    BY <1>1
  <1>2. CASE dashes # {}
    <2>1. Len(rest) \in Nat /\ dashes \in SUBSET (1..Len(rest))
      BY DEF Places
    <2>2. Max(dashes) \in 1..Len(rest)
      BY <1>2, <2>1, MaxIs
    <2>3. Max(dashes) \in 1..(Len(rest) + 1) /\ Max(dashes) + 1 \in Nat \ {0}
      BY <2>1, <2>2
    <2>4. Before(rest, Max(dashes)) \in Seq(Byte) /\ From(rest, Max(dashes) + 1) \in Seq(Byte)
      BY <2>3, Strings
    <2>5. QED
      BY <1>2, <2>4
  <1>3. QED
    BY <1>1, <1>2

\* The parts of a Debian version are strings.
LEMMA DebianParts ==
  ASSUME NEW v \in Seq(Byte)
  PROVE  /\ SplitDebianVersion(v).epoch \in Seq(Byte)
         /\ SplitDebianVersion(v).upstream \in Seq(Byte)
         /\ SplitDebianVersion(v).revision \in Seq(Byte)
  <1> DEFINE c == RunEnd(v, 1, Byte \ {Colon})
             numeric == c <= Len(v) /\ AllDigits(Before(v, c))
             rest == IF numeric THEN From(v, c + 1) ELSE v
             dashes == Places(rest, Dash)
             x == [epoch |-> IF numeric THEN Before(v, c) ELSE <<>>,
                   upstream |-> IF dashes = {} THEN rest ELSE Before(rest, Max(dashes)),
                   revision |-> IF dashes = {} THEN <<Zero>> ELSE From(rest, Max(dashes) + 1)]
  <1>1. SplitDebianVersion(v) = x
    BY DEF SplitDebianVersion
  <1>2. Len(v) \in Nat /\ 1 \in 1..(Len(v) + 1)
    OBVIOUS
  <1>3. c \in 1..(Len(v) + 1)
    BY <1>2, RunEnds
  <1>4. Before(v, c) \in Seq(Byte) /\ From(v, c + 1) \in Seq(Byte)
    <2>1. c + 1 \in Nat \ {0}
      BY <1>2, <1>3
    <2>2. QED
      BY <1>3, <2>1, Strings
  <1>5. rest \in Seq(Byte) /\ <<Zero>> \in Seq(Byte)
    BY <1>4 DEF Zero, Byte
  <1>6. (IF numeric THEN Before(v, c) ELSE <<>>) \in Seq(Byte)
    BY <1>4
  <1> HIDE DEF rest
  <1>7. x.upstream \in Seq(Byte) /\ x.revision \in Seq(Byte)
    BY <1>5, AroundTheDash
  <1>8. x.epoch \in Seq(Byte)
    BY <1>6
  <1>9. QED
    BY <1>1, <1>7, <1>8

\* Debian's comparison orders versions.
LEMMA DebianOrders ==
  ASSUME NEW a \in Seq(Byte), NEW b \in Seq(Byte), NEW c \in Seq(Byte)
  PROVE  /\ CompareDebian(a, b) \in Signs
         /\ CompareDebian(a, a) = 0
         /\ Composes(CompareDebian(a, b), CompareDebian(b, c), CompareDebian(a, c))
  <1> DEFINE x == SplitDebianVersion(a)
             y == SplitDebianVersion(b)
             z == SplitDebianVersion(c)
             E(u, v) == CompareNumStr(u.epoch, v.epoch)
             U(u, v) == VerRevCmp(u.upstream, v.upstream)
             R(u, v) == VerRevCmp(u.revision, v.revision)
  <1>1. /\ x.epoch \in Seq(Int) /\ y.epoch \in Seq(Int) /\ z.epoch \in Seq(Int)
        /\ x.upstream \in Seq(Byte) /\ y.upstream \in Seq(Byte) /\ z.upstream \in Seq(Byte)
        /\ x.revision \in Seq(Byte) /\ y.revision \in Seq(Byte) /\ z.revision \in Seq(Byte)
    BY DebianParts, Strings
  <1>2. /\ CompareDebian(a, b) = Deciding(<<E(x, y), U(x, y), R(x, y)>>)
        /\ CompareDebian(b, c) = Deciding(<<E(y, z), U(y, z), R(y, z)>>)
        /\ CompareDebian(a, c) = Deciding(<<E(x, z), U(x, z), R(x, z)>>)
        /\ CompareDebian(a, a) = Deciding(<<E(x, x), U(x, x), R(x, x)>>)
    BY DEF CompareDebian
  <1> HIDE DEF x, y, z
  <1>3. /\ E(x, y) \in Signs /\ E(y, z) \in Signs /\ E(x, z) \in Signs /\ E(x, x) = 0
        /\ Composes(E(x, y), E(y, z), E(x, z))
    BY <1>1, NumbersAreOrdered
  <1>4. /\ U(x, y) \in Signs /\ U(y, z) \in Signs /\ U(x, z) \in Signs /\ U(x, x) = 0
        /\ Composes(U(x, y), U(y, z), U(x, z))
    BY <1>1, VerRevCmpOrders
  <1>5. /\ R(x, y) \in Signs /\ R(y, z) \in Signs /\ R(x, z) \in Signs /\ R(x, x) = 0
        /\ Composes(R(x, y), R(y, z), R(x, z))
    BY <1>1, VerRevCmpOrders
  <1> HIDE DEF E, U, R
  <1>6. /\ Deciding(<<E(x, y), U(x, y), R(x, y)>>) \in Signs
        /\ Composes(Deciding(<<E(x, y), U(x, y), R(x, y)>>),
                    Deciding(<<E(y, z), U(y, z), R(y, z)>>),
                    Deciding(<<E(x, z), U(x, z), R(x, z)>>))
    BY <1>3, <1>4, <1>5, TripleComposes
  <1>7. Deciding(<<0, 0, 0>>) = 0
    BY DecidingTriple DEF Signs
  <1>8. QED
    BY <1>2, <1>3, <1>4, <1>5, <1>6, <1>7

Kinds == {"tilde", "end", "caret", "letters", "digits"}

(* The order of the kinds that rpmvercmp's checks amount to. *)
KindRank(kind) ==
  IF kind = "tilde" THEN 0 ELSE IF kind = "end" THEN 1 ELSE IF kind = "caret" THEN 2
  ELSE IF kind = "letters" THEN 3 ELSE 4

\* The n-th segment has a kind and a text, and is the end after the last.
LEMMA SegmentsAreStrings ==
  ASSUME NEW s \in Seq(Byte), NEW n \in Nat
  PROVE  /\ Segment(s, n).kind \in Kinds /\ Segment(s, n).text \in Seq(Byte)
         /\ n > Len(s) => Segment(s, n) = [kind |-> "end", text |-> <<>>]
  <1> DEFINE found == Nth(SegmentStarts(s), n)
             i == Min(found)
             run == IF s[i] \in Digits THEN Digits ELSE Letters
  <1>1. Len(s) \in Nat /\ SegmentStarts(s) \in SUBSET (1..Len(s))
    BY DEF SegmentStarts
  <1>2. CASE found = {}
    <2>1. Segment(s, n) = [kind |-> "end", text |-> <<>>]
      BY <1>2 DEF Segment
    <2>2. <<>> \in Seq(Byte) /\ "end" \in Kinds
      BY DEF Kinds
    <2>3. QED
      BY <2>1, <2>2
  <1>3. CASE found # {}
    <2>1. i \in SegmentStarts(s) /\ i \in 1..Len(s) /\ ~ n > Len(s)
      BY <1>1, <1>3, NthIsOne
    <2>2. Kind(s[i]) \in Kinds
      <3>1. Kind(s[i]) # "separator"
        BY <2>1 DEF SegmentStarts
      <3>2. Kind(s[i]) \in {"tilde", "caret", "digits", "letters", "separator"}
        BY DEF Kind
      <3>3. QED
        BY <3>1, <3>2 DEF Kinds
    <2>3. i \in 1..(Len(s) + 1)
      BY <1>1, <2>1
    <2>4. RunEnd(s, i, run) \in i..(Len(s) + 1)
      BY <2>3, RunEnds
    <2>5. Segment(s, n) = [kind |-> Kind(s[i]), text |-> SubSeq(s, i, RunEnd(s, i, run) - 1)]
      BY <1>3 DEF Segment
    <2> HIDE DEF i, run
    <2>6. SubSeq(s, i, RunEnd(s, i, run) - 1) \in Seq(Byte)
      <3>1. /\ i \in Nat \ {0} /\ RunEnd(s, i, run) - 1 \in Int
            /\ RunEnd(s, i, run) - 1 <= Len(s)
        BY <1>1, <2>3, <2>4
      <3>2. QED
        BY <3>1, PartsAreSequences
    <2>7. QED
      BY <2>1, <2>2, <2>5, <2>6
  <1>4. QED
    BY <1>2, <1>3

\* Tilde, end, caret, letters, digits: in this order whatever the code checks first.
LEMMA KindsAreOrdered ==
  ASSUME NEW x, NEW y, x.kind \in Kinds, y.kind \in Kinds
  PROVE  /\ KindRank(x.kind) \in Int
         /\ (KindRank(x.kind) = KindRank(y.kind)) <=> (x.kind = y.kind)
         /\ x.kind # y.kind =>
              CompareSegments(x, y) = Sign(KindRank(x.kind) - KindRank(y.kind))
  BY DEF Kinds, KindRank, CompareSegments, Sign

\* Segments are ordered by their kinds, then as numbers or by their letters.
LEMMA SegmentsAreOrdered ==
  ASSUME NEW x, NEW y, NEW z, x.kind \in Kinds, y.kind \in Kinds, z.kind \in Kinds,
         x.text \in Seq(Byte), y.text \in Seq(Byte), z.text \in Seq(Byte)
  PROVE  /\ CompareSegments(x, y) \in Signs
         /\ CompareSegments(x, x) = 0
         /\ Composes(CompareSegments(x, y), CompareSegments(y, z), CompareSegments(x, z))
  <1> DEFINE K(u, v) == Sign(KindRank(u.kind) - KindRank(v.kind))
             T(u, v) == IF u.kind = "digits" THEN CompareNumStr(u.text, v.text)
                        ELSE IF u.kind = "letters" THEN StrCmp(u.text, v.text) ELSE 0
  <1>1. x.text \in Seq(Int) /\ y.text \in Seq(Int) /\ z.text \in Seq(Int)
    BY Strings
  <1>2. /\ CompareNumStr(x.text, y.text) \in Signs /\ CompareNumStr(y.text, z.text) \in Signs
        /\ CompareNumStr(x.text, z.text) \in Signs /\ CompareNumStr(x.text, x.text) = 0
        /\ Composes(CompareNumStr(x.text, y.text), CompareNumStr(y.text, z.text),
                    CompareNumStr(x.text, z.text))
    BY <1>1, NumbersAreOrdered
  <1>3. /\ StrCmp(x.text, y.text) \in Signs /\ StrCmp(y.text, z.text) \in Signs
        /\ StrCmp(x.text, z.text) \in Signs /\ StrCmp(x.text, x.text) = 0
        /\ Composes(StrCmp(x.text, y.text), StrCmp(y.text, z.text), StrCmp(x.text, z.text))
    BY <1>1, StrCmpOrders
  <1>4. /\ T(x, y) \in Signs /\ T(y, z) \in Signs /\ T(x, z) \in Signs /\ T(x, x) = 0
        /\ x.kind = y.kind => Composes(T(x, y), T(y, z), T(x, z))
    BY <1>2, <1>3 DEF Signs, Composes
  <1>5. /\ KindRank(x.kind) \in Int /\ KindRank(y.kind) \in Int /\ KindRank(z.kind) \in Int
        /\ (KindRank(x.kind) = KindRank(y.kind)) <=> (x.kind = y.kind)
        /\ (KindRank(y.kind) = KindRank(z.kind)) <=> (y.kind = z.kind)
        /\ (KindRank(x.kind) = KindRank(z.kind)) <=> (x.kind = z.kind)
    BY KindsAreOrdered
  <1>6. /\ K(x, y) \in Signs /\ K(y, z) \in Signs /\ K(x, z) \in Signs /\ K(x, x) = 0
        /\ Composes(K(x, y), K(y, z), K(x, z))
        /\ (K(x, y) = 0) <=> (x.kind = y.kind)
        /\ (K(y, z) = 0) <=> (y.kind = z.kind)
        /\ (K(x, z) = 0) <=> (x.kind = z.kind)
    BY <1>5, SignOrders
  <1>7. /\ x.kind # y.kind => CompareSegments(x, y) = K(x, y)
        /\ y.kind # z.kind => CompareSegments(y, z) = K(y, z)
        /\ x.kind # z.kind => CompareSegments(x, z) = K(x, z)
    BY KindsAreOrdered
  <1>8. /\ x.kind = y.kind => CompareSegments(x, y) = T(x, y)
        /\ y.kind = z.kind => CompareSegments(y, z) = T(y, z)
        /\ x.kind = z.kind => CompareSegments(x, z) = T(x, z)
        /\ CompareSegments(x, x) = T(x, x)
    BY DEF CompareSegments
  <1> HIDE DEF K, T
  <1>9. /\ CompareSegments(x, y) = Deciding(<<K(x, y), T(x, y)>>)
        /\ CompareSegments(y, z) = Deciding(<<K(y, z), T(y, z)>>)
        /\ CompareSegments(x, z) = Deciding(<<K(x, z), T(x, z)>>)
    BY <1>4, <1>6, <1>7, <1>8, DecidingPair
  <1>10. /\ Deciding(<<K(x, y), T(x, y)>>) \in Signs
         /\ Composes(Deciding(<<K(x, y), T(x, y)>>), Deciding(<<K(y, z), T(y, z)>>),
                     Deciding(<<K(x, z), T(x, z)>>))
    BY <1>4, <1>6, PairComposes
  <1>11. QED
    BY <1>4, <1>8, <1>9, <1>10

\* rpmvercmp: the first segments that differ decide.
LEMMA RpmVerCmpOrders ==
  ASSUME NEW a \in Seq(Byte), NEW b \in Seq(Byte), NEW c \in Seq(Byte)
  PROVE  /\ RpmVerCmp(a, b) \in Signs
         /\ RpmVerCmp(a, a) = 0
         /\ Composes(RpmVerCmp(a, b), RpmVerCmp(b, c), RpmVerCmp(a, c))
  <1> DEFINE D(v, w) == [n \in Longest(v, w) |-> CompareSegments(Segment(v, n), Segment(w, n))]
  <1>1. \A v \in Seq(Byte), n \in Nat : Segment(v, n).kind \in Kinds /\ Segment(v, n).text \in Seq(Byte)
    BY SegmentsAreStrings
  <1>2. ASSUME NEW v \in Seq(Byte), NEW w \in Seq(Byte)
        PROVE  /\ DOMAIN D(v, w) \in SUBSET Nat
               /\ \A n \in DOMAIN D(v, w) : D(v, w)[n] \in Signs
               /\ \A n \in DOMAIN D(v, v) : D(v, v)[n] = 0
               /\ \A n \in Nat : ResultAt(D(v, w), n) =
                    IF n = 0 THEN 0 ELSE CompareSegments(Segment(v, n), Segment(w, n))
    <2>1. Len(v) \in Nat /\ Len(w) \in Nat
      OBVIOUS
    <2>2. Longest(v, w) = {n \in Nat : 1 <= n /\ (n <= Len(v) \/ n <= Len(w))}
      BY <2>1, LongestIs
    <2>3. Longest(v, v) \in SUBSET Nat
      BY <2>1, LongestIs
    <2>4. \A n \in Nat : CompareSegments(Segment(v, n), Segment(w, n)) \in Signs
      BY <1>1, SegmentsAreOrdered
    <2>5. \A n \in Nat : CompareSegments(Segment(v, n), Segment(v, n)) = 0
      BY <1>1, SegmentsAreOrdered
    <2>6. ASSUME NEW n \in Nat \ {0}, n \notin Longest(v, w)
          PROVE  CompareSegments(Segment(v, n), Segment(w, n)) = 0
      <3>1. n > Len(v) /\ n > Len(w)
        BY <2>1, <2>2, <2>6
      <3>2. Segment(v, n) = Segment(w, n)
        BY <3>1, SegmentsAreStrings
      <3>3. QED
        BY <2>5, <3>2
    <2>7. QED
      BY <2>2, <2>3, <2>4, <2>5, <2>6 DEF ResultAt
  <1>3. \A v, w : RpmVerCmp(v, w) = Deciding(D(v, w))
    BY DEF RpmVerCmp
  <1>4. ASSUME NEW n \in Nat
        PROVE  Composes(ResultAt(D(a, b), n), ResultAt(D(b, c), n), ResultAt(D(a, c), n))
    <2>1. Composes(CompareSegments(Segment(a, n), Segment(b, n)),
                   CompareSegments(Segment(b, n), Segment(c, n)),
                   CompareSegments(Segment(a, n), Segment(c, n)))
      BY <1>1, SegmentsAreOrdered
    <2>2. Composes(0, 0, 0)
      BY DEF Composes
    <2> HIDE DEF D
    <2>3. QED
      BY <1>2, <2>1, <2>2
  <1> HIDE DEF D
  <1>5. /\ DOMAIN D(a, b) \in SUBSET Nat /\ DOMAIN D(b, c) \in SUBSET Nat
        /\ DOMAIN D(a, c) \in SUBSET Nat /\ DOMAIN D(a, a) \in SUBSET Nat
        /\ \A n \in DOMAIN D(a, b) : D(a, b)[n] \in Signs
        /\ \A n \in DOMAIN D(a, a) : D(a, a)[n] \in Signs /\ D(a, a)[n] = 0
    BY <1>2
  <1>6. Deciding(D(a, b)) \in Signs /\ Deciding(D(a, a)) = 0
    BY <1>5, DecidingIsSign
  <1>7. Composes(Deciding(D(a, b)), Deciding(D(b, c)), Deciding(D(a, c)))
    BY <1>4, <1>5, DecidingComposes
  <1>8. QED
    BY <1>3, <1>6, <1>7

\* The parts of an RPM version are strings.
LEMMA RpmParts ==
  ASSUME NEW v \in Seq(Byte)
  PROVE  /\ SplitEVR(v).epoch \in Seq(Byte)
         /\ SplitEVR(v).version \in Seq(Byte)
         /\ SplitEVR(v).release \in Seq(Byte)
  <1> DEFINE c == RunEnd(v, 1, Byte \ {Colon})
             rest == IF c <= Len(v) THEN From(v, c + 1) ELSE v
             dashes == Places(rest, Dash)
             x == [epoch |-> IF c \in 2..Len(v) THEN Before(v, c) ELSE <<Zero>>,
                   version |-> IF dashes = {} THEN rest ELSE Before(rest, Max(dashes)),
                   release |-> IF dashes = {} THEN <<>> ELSE From(rest, Max(dashes) + 1)]
  <1>1. SplitEVR(v) = x
    BY DEF SplitEVR
  <1>2. Len(v) \in Nat /\ 1 \in 1..(Len(v) + 1)
    OBVIOUS
  <1>3. c \in 1..(Len(v) + 1)
    BY <1>2, RunEnds
  <1>4. Before(v, c) \in Seq(Byte) /\ From(v, c + 1) \in Seq(Byte)
    <2>1. c + 1 \in Nat \ {0}
      BY <1>2, <1>3
    <2>2. QED
      BY <1>3, <2>1, Strings
  <1>5. rest \in Seq(Byte) /\ <<Zero>> \in Seq(Byte) /\ <<>> \in Seq(Byte)
    BY <1>4 DEF Zero, Byte
  <1>6. (IF c \in 2..Len(v) THEN Before(v, c) ELSE <<Zero>>) \in Seq(Byte)
    BY <1>4, <1>5
  <1> HIDE DEF rest
  <1>7. x.version \in Seq(Byte) /\ x.release \in Seq(Byte)
    BY <1>5, AroundTheDash
  <1>8. x.epoch \in Seq(Byte)
    BY <1>6
  <1>9. QED
    BY <1>1, <1>7, <1>8

\* RPM's comparison orders versions.
LEMMA RpmOrders ==
  ASSUME NEW a \in Seq(Byte), NEW b \in Seq(Byte), NEW c \in Seq(Byte)
  PROVE  /\ CompareRPM(a, b) \in Signs
         /\ CompareRPM(a, a) = 0
         /\ Composes(CompareRPM(a, b), CompareRPM(b, c), CompareRPM(a, c))
  <1> DEFINE x == SplitEVR(a)
             y == SplitEVR(b)
             z == SplitEVR(c)
             E(u, v) == RpmVerCmp(u.epoch, v.epoch)
             U(u, v) == RpmVerCmp(u.version, v.version)
             R(u, v) == RpmVerCmp(u.release, v.release)
  <1>1. /\ x.epoch \in Seq(Byte) /\ y.epoch \in Seq(Byte) /\ z.epoch \in Seq(Byte)
        /\ x.version \in Seq(Byte) /\ y.version \in Seq(Byte) /\ z.version \in Seq(Byte)
        /\ x.release \in Seq(Byte) /\ y.release \in Seq(Byte) /\ z.release \in Seq(Byte)
    BY RpmParts
  <1>2. /\ CompareRPM(a, b) = Deciding(<<E(x, y), U(x, y), R(x, y)>>)
        /\ CompareRPM(b, c) = Deciding(<<E(y, z), U(y, z), R(y, z)>>)
        /\ CompareRPM(a, c) = Deciding(<<E(x, z), U(x, z), R(x, z)>>)
        /\ CompareRPM(a, a) = Deciding(<<E(x, x), U(x, x), R(x, x)>>)
    BY DEF CompareRPM
  <1> HIDE DEF x, y, z
  <1>3. /\ E(x, y) \in Signs /\ E(y, z) \in Signs /\ E(x, z) \in Signs /\ E(x, x) = 0
        /\ Composes(E(x, y), E(y, z), E(x, z))
    BY <1>1, RpmVerCmpOrders
  <1>4. /\ U(x, y) \in Signs /\ U(y, z) \in Signs /\ U(x, z) \in Signs /\ U(x, x) = 0
        /\ Composes(U(x, y), U(y, z), U(x, z))
    BY <1>1, RpmVerCmpOrders
  <1>5. /\ R(x, y) \in Signs /\ R(y, z) \in Signs /\ R(x, z) \in Signs /\ R(x, x) = 0
        /\ Composes(R(x, y), R(y, z), R(x, z))
    BY <1>1, RpmVerCmpOrders
  <1> HIDE DEF E, U, R
  <1>6. /\ Deciding(<<E(x, y), U(x, y), R(x, y)>>) \in Signs
        /\ Composes(Deciding(<<E(x, y), U(x, y), R(x, y)>>),
                    Deciding(<<E(y, z), U(y, z), R(y, z)>>),
                    Deciding(<<E(x, z), U(x, z), R(x, z)>>))
    BY <1>3, <1>4, <1>5, TripleComposes
  <1>7. Deciding(<<0, 0, 0>>) = 0
    BY DecidingTriple DEF Signs
  <1>8. QED
    BY <1>2, <1>3, <1>4, <1>5, <1>6, <1>7

(* The tokens that NextToken reads, and the states that it leaves its scanner in. *)
TokenTypes == 0..7
Scanners == [place : Nat \ {0}, expect : TokenTypes]
Tokened == [type : TokenTypes, value : Int, digits : Seq(Byte), after : Scanners]
EndIsPlain(t) == t.type = TokEnd => t.value = 0 /\ t.digits = <<>>

\* One of the suffixes found is a longest one.
LEMMA ALongestSuffix ==
  ASSUME NEW Named \in SUBSET (1..9), Named # {}
  PROVE  (CHOOSE k \in Named : \A l \in Named : Len(SuffixNames[l]) <= Len(SuffixNames[k])) \in Named
  <1> DEFINE N(k) == Len(SuffixNames[k])
             lengths == {N(k) : k \in Named}
  <1>1. \A k \in 1..9 : N(k) \in 1..5
    BY DEF SuffixNames
  <1> HIDE DEF N
  <1>2. lengths \in SUBSET (1..5) /\ lengths # {}
    BY <1>1
  <1>3. PICK m \in lengths : \A l \in lengths : l <= m
    BY <1>2, LargestIn
  <1>4. PICK k \in Named : m = N(k)
    BY <1>3
  <1>5. \A l \in Named : N(l) <= N(k)
    BY <1>3, <1>4
  <1>6. (CHOOSE j \in Named : \A l \in Named : N(l) <= N(j)) \in Named
    BY <1>4, <1>5
  <1>7. QED
    BY <1>6 DEF N

\* Where the scanner stands after a token.
LEMMA ScannersGoOn ==
  ASSUME NEW s \in Seq(Byte), NEW tok \in TokenTypes, NEW i \in Nat \ {0}
  PROVE  Expecting(s, tok, i) \in Scanners
  <1>1. \A c : AfterToken(tok, c) \in TokenTypes
    BY DEF AfterToken, TokenTypes, TokDigit, TokLetter, TokSuffix, TokRevision, TokInvalid
  <1>2. i + 1 \in Nat \ {0} /\ TokSuffixNo \in TokenTypes /\ TokEnd \in TokenTypes
    BY DEF TokenTypes, TokSuffixNo, TokEnd
  <1>3. QED
    BY <1>1, <1>2 DEF Expecting, Scanners

\* What is scanned is a token, and the end has no value.
LEMMA TokensAreScanned ==
  ASSUME NEW s \in Seq(Byte), NEW scanner \in Scanners
  PROVE  NextToken(s, scanner) \in Tokened /\ EndIsPlain(NextToken(s, scanner))
  <1> DEFINE i == scanner.place
             n == RunEnd(s, i, Digits)
             m == RunEnd(s, i + 1, Digits)
             Named == {k \in DOMAIN SuffixNames :
                         LET e == i + Len(SuffixNames[k]) - 1
                         IN e <= Len(s) /\ SubSeq(s, i, e) = SuffixNames[k]}
             suffix == CHOOSE k \in Named :
                         \A l \in Named : Len(SuffixNames[l]) <= Len(SuffixNames[k])
             Token(type, value, digits, e) ==
               [type |-> type, value |-> value, digits |-> digits, after |-> Expecting(s, type, e)]
             Stay(type) == [type |-> type, value |-> 0, digits |-> <<>>, after |-> scanner]
             number == IF s[i] = Zero THEN TokDigitOrZero ELSE TokDigit
             result == NextToken(s, scanner)
  <1>1. i \in Nat \ {0} /\ Len(s) \in Nat
    BY DEF Scanners
  <1>2. /\ TokEnd \in TokenTypes /\ TokInvalid \in TokenTypes /\ number \in TokenTypes
        /\ TokLetter \in TokenTypes /\ TokSuffix \in TokenTypes /\ TokSuffixNo \in TokenTypes
        /\ TokRevision \in TokenTypes
        /\ TokEnd \notin {TokInvalid, number, TokLetter, TokSuffix, TokSuffixNo, TokRevision}
    BY DEF TokenTypes, TokEnd, TokInvalid, TokDigitOrZero, TokDigit, TokLetter, TokSuffix,
           TokSuffixNo, TokRevision
  <1>3. \A type \in TokenTypes : Stay(type) \in Tokened /\ EndIsPlain(Stay(type))
    BY DEF Tokened, EndIsPlain
  <1>4. ASSUME NEW type \in TokenTypes \ {TokEnd}, NEW value \in Int, NEW digits \in Seq(Byte),
               NEW e \in Nat \ {0}
        PROVE  Token(type, value, digits, e) \in Tokened /\ EndIsPlain(Token(type, value, digits, e))
    BY <1>4, ScannersGoOn DEF Tokened, EndIsPlain
  <1>5. CASE i > Len(s)
    <2>1. result = Stay(TokEnd)
      BY <1>5 DEF NextToken
    <2>2. QED
      BY <1>2, <1>3, <2>1
  <1>6. CASE i <= Len(s)
    <2>1. i \in 1..Len(s) /\ i \in 1..(Len(s) + 1) /\ i + 1 \in 1..(Len(s) + 1)
      BY <1>1, <1>6
    <2>2. n \in i..(Len(s) + 1) /\ m \in (i + 1)..(Len(s) + 1)
      BY <2>1, RunEnds
    <2>3. s[i] \in Int
      BY <2>1, Strings DEF Byte
    <2>4. SubSeq(s, i, n - 1) \in Seq(Byte) /\ SubSeq(s, i + 1, m - 1) \in Seq(Byte)
      <3>1. /\ i + 1 \in Nat \ {0} /\ n - 1 \in Int /\ m - 1 \in Int
            /\ n - 1 <= Len(s) /\ m - 1 <= Len(s)
        BY <1>1, <2>2
      <3>2. QED
        BY <1>1, <3>1, PartsAreSequences
    <2>5. n \in Nat \ {0} /\ m \in Nat \ {0} /\ i + 1 \in Nat \ {0}
      BY <1>1, <2>2
    <2>6. Named # {} => suffix \in Int /\ i + Len(SuffixNames[suffix]) \in Nat \ {0}
      <3>1. DOMAIN SuffixNames = 1..9
        BY DEF SuffixNames
      <3>2. Named \in SUBSET (1..9)
        BY <3>1
      <3>3. \A k \in 1..9 : Len(SuffixNames[k]) \in Nat
        BY DEF SuffixNames
      <3> HIDE DEF Named
      <3>4. Named # {} => suffix \in Named
        BY <3>2, ALongestSuffix
      <3> HIDE DEF suffix, i
      <3>5. Named # {} => suffix \in 1..9
        BY <3>2, <3>4
      <3>6. QED
        <4>1. ASSUME Named # {} PROVE suffix \in 1..9 /\ Len(SuffixNames[suffix]) \in Nat
          BY <3>3, <3>5, <4>1
        <4>2. \A l \in Nat : i + l \in Nat \ {0}
          BY <1>1
        <4>3. \A k \in 1..9 : k \in Int
          OBVIOUS
        <4>4. QED
          BY <4>1, <4>2, <4>3
    <2>7. <<>> \in Seq(Byte) /\ 0 \in Int
      OBVIOUS
    <2>0. result = IF i > Len(s) THEN Stay(TokEnd)
                   ELSE CASE scanner.expect = TokDigit /\ n > i ->
                               Token(number, 0, SubSeq(s, i, n - 1), n)
                          [] scanner.expect = TokLetter /\ s[i] \in LowerLetters ->
                               Token(TokLetter, s[i], <<>>, i + 1)
                          [] scanner.expect = TokSuffix /\ Named # {} ->
                               Token(TokSuffix, suffix, <<>>, i + Len(SuffixNames[suffix]))
                          [] scanner.expect = TokSuffixNo ->
                               Token(TokSuffixNo, 0, SubSeq(s, i, n - 1), n)
                          [] scanner.expect = TokRevision /\ s[i] = 114 /\ m > i + 1 ->
                               Token(TokRevision, 0, SubSeq(s, i + 1, m - 1), m)
                          [] OTHER -> Stay(TokInvalid)
      BY DEF NextToken
    <2> HIDE DEF n, m, Named, suffix, number, Token, Stay, i, result
    <2>8. \/ result = Token(number, 0, SubSeq(s, i, n - 1), n)
          \/ result = Token(TokLetter, s[i], <<>>, i + 1)
          \/ Named # {} /\ result = Token(TokSuffix, suffix, <<>>, i + Len(SuffixNames[suffix]))
          \/ result = Token(TokSuffixNo, 0, SubSeq(s, i, n - 1), n)
          \/ result = Token(TokRevision, 0, SubSeq(s, i + 1, m - 1), m)
          \/ result = Stay(TokInvalid)
      BY <1>1, <1>6, <2>0
    <2>9. result \in Tokened /\ EndIsPlain(result)
      <3>1. CASE result = Token(number, 0, SubSeq(s, i, n - 1), n)
        BY <1>2, <1>4, <2>4, <2>5, <2>7, <3>1
      <3>2. CASE result = Token(TokLetter, s[i], <<>>, i + 1)
        BY <1>2, <1>4, <2>3, <2>5, <2>7, <3>2
      <3>3. CASE Named # {} /\ result = Token(TokSuffix, suffix, <<>>, i + Len(SuffixNames[suffix]))
        BY <1>2, <1>4, <2>6, <2>7, <3>3
      <3>4. CASE result = Token(TokSuffixNo, 0, SubSeq(s, i, n - 1), n)
        BY <1>2, <1>4, <2>4, <2>5, <2>7, <3>4
      <3>5. CASE result = Token(TokRevision, 0, SubSeq(s, i + 1, m - 1), m)
        BY <1>2, <1>4, <2>4, <2>5, <2>7, <3>5
      <3>6. CASE result = Stay(TokInvalid)
        BY <1>2, <1>3, <3>6
      <3>7. QED
        BY <2>8, <3>1, <3>2, <3>3, <3>4, <3>5, <3>6
    <2>10. QED
      BY <2>9 DEF result
  <1>7. QED
    BY <1>1, <1>5, <1>6

(* The scanner before the n-th token, and the tokens up to the k-th. *)
ScannerOf(g, n) == IF n = 0 THEN [place |-> 1, expect |-> TokDigit] ELSE g[n - 1].after
TokensUpTo(g, k, s) == g = [n \in 0..k |-> NextToken(s, ScannerOf(g, n))]

\* One more token carries the tokens one further.
LEMMA TokensGoOn ==
  ASSUME NEW k \in Nat \ {0}, NEW s, NEW g, TokensUpTo(g, k - 1, s)
  PROVE  \E h : TokensUpTo(h, k, s)
  <1> DEFINE h == [n \in 0..k |-> NextToken(s, ScannerOf(g, n))]
  <1>1. g = [n \in 0..(k - 1) |-> NextToken(s, ScannerOf(g, n))]
    BY DEF TokensUpTo
  <1> HIDE DEF h
  <1>2. h = [n \in 0..k |-> NextToken(s, ScannerOf(g, n))]
    BY DEF h
  <1>3. ASSUME NEW n \in 0..(k - 1) PROVE h[n] = g[n]
    BY <1>1, <1>2
  <1>4. ASSUME NEW n \in 0..k PROVE ScannerOf(g, n) = ScannerOf(h, n)
    <2>1. CASE n = 0
      BY <2>1 DEF ScannerOf
    <2>2. CASE n # 0
      <3>1. h[n - 1] = g[n - 1]
        BY <1>3, <2>2
      <3>2. QED
        BY <2>2, <3>1 DEF ScannerOf
    <2>3. QED
      BY <2>1, <2>2
  <1>5. h = [n \in 0..k |-> NextToken(s, ScannerOf(h, n))]
    BY <1>2, <1>4
  <1>6. QED
    BY <1>5 DEF TokensUpTo

\* The tokens up to any number exist: otherwise there is a least number without.
LEMMA TokensExist ==
  ASSUME NEW k \in Nat, NEW s
  PROVE  \E g : TokensUpTo(g, k, s)
  <1> DEFINE None == {n \in Nat : ~ \E g : TokensUpTo(g, n, s)}
  <1>1. SUFFICES ASSUME None # {} PROVE FALSE
    OBVIOUS
  <1>2. None \in SUBSET Nat
    OBVIOUS
  <1>3. PICK m \in None : \A n \in None : m <= n
    BY <1>1, <1>2, SmallestIn
  <1>4. CASE m = 0
    <2>1. TokensUpTo([n \in 0..0 |-> NextToken(s, [place |-> 1, expect |-> TokDigit])], 0, s)
      BY DEF TokensUpTo, ScannerOf
    <2>2. QED
      BY <1>4, <2>1
  <1>5. CASE m # 0
    <2>1. m \in Nat \ {0} /\ m - 1 \in Nat /\ m - 1 < m
      BY <1>5
    <2>2. m - 1 \notin None
      BY <1>3, <2>1
    <2>3. PICK g : TokensUpTo(g, m - 1, s)
      BY <2>1, <2>2
    <2>4. QED
      BY <2>1, <2>3, TokensGoOn
  <1>6. QED
    BY <1>4, <1>5

\* All that is read of a version are tokens.
LEMMA TokensAreTokens ==
  ASSUME NEW s \in Seq(Byte), NEW n \in 0..Len(s)
  PROVE  Tokens(s)[n] \in Tokened /\ EndIsPlain(Tokens(s)[n])
  <1> DEFINE f == Tokens(s)
             Start == [place |-> 1, expect |-> TokDigit]
  <1>1. f = CHOOSE g : g = [j \in 0..Len(s) |-> NextToken(s, IF j = 0 THEN Start ELSE g[j - 1].after)]
    BY DEF Tokens
  <1>2. \E g : g = [j \in 0..Len(s) |-> NextToken(s, IF j = 0 THEN Start ELSE g[j - 1].after)]
    <2>1. Len(s) \in Nat
      OBVIOUS
    <2>2. PICK g : TokensUpTo(g, Len(s), s)
      BY <2>1, TokensExist
    <2>3. QED
      BY <2>2 DEF TokensUpTo, ScannerOf
  <1> HIDE DEF f
  <1>3. f = [j \in 0..Len(s) |-> NextToken(s, IF j = 0 THEN Start ELSE f[j - 1].after)]
    BY <1>1, <1>2
  <1> DEFINE Wrong == {j \in 0..Len(s) : ~ (f[j] \in Tokened /\ EndIsPlain(f[j]))}
  <1>4. SUFFICES ASSUME Wrong # {} PROVE FALSE
    BY DEF f
  <1>5. Wrong \in SUBSET Nat
    OBVIOUS
  <1>6. PICK m \in Wrong : \A j \in Wrong : m <= j
    BY <1>4, <1>5, SmallestIn
  <1>7. m \in 0..Len(s) /\ ~ (f[m] \in Tokened /\ EndIsPlain(f[m]))
    BY <1>6
  <1>8. CASE m = 0
    <2>1. f[m] = NextToken(s, Start)
      BY <1>3, <1>7, <1>8
    <2>2. Start \in Scanners
      BY DEF Scanners, TokenTypes, TokDigit
    <2>3. QED
      BY <1>7, <2>1, <2>2, TokensAreScanned
  <1>9. CASE m # 0
    <2>1. m - 1 \in 0..Len(s) /\ m - 1 < m
      BY <1>7, <1>9
    <2>2. m - 1 \notin Wrong
      BY <1>6, <2>1
    <2>3. f[m - 1] \in Tokened
      BY <2>1, <2>2
    <2>4. f[m - 1].after \in Scanners
      BY <2>3 DEF Tokened
    <2>5. f[m] = NextToken(s, f[m - 1].after)
      BY <1>3, <1>7, <1>9
    <2>6. QED
      BY <1>7, <2>4, <2>5, TokensAreScanned
  <1>10. QED
    BY <1>8, <1>9

\* apk's rules for two types make an order of the types, in which a suffix comes
\* first or last by what it is; within a type the values decide.
TokenRank(t) == IF t.type # TokSuffix THEN t.type ELSE IF t.value <= PreReleaseCount THEN -1 ELSE 8

\* A token is compared by its rank and then by its value.
LEMMA TokensByRank ==
  ASSUME NEW t \in Tokened, NEW u \in Tokened
  PROVE  /\ TokenRank(t) \in Int
         /\ TokenRank(t) = TokenRank(u) => t.type = u.type
         /\ TokenRank(t) # TokenRank(u) =>
              CompareApkTokens(t, u) = Sign(TokenRank(t) - TokenRank(u))
  <1>1. t.type \in 0..7 /\ u.type \in 0..7 /\ t.value \in Int /\ u.value \in Int
    BY DEF Tokened, TokenTypes
  <1>2. TokenRank(t) \in Int /\ TokenRank(u) \in Int
    BY <1>1 DEF TokenRank
  <1>3. TokenRank(t) = TokenRank(u) => t.type = u.type
    BY <1>1 DEF TokenRank, TokSuffix, PreReleaseCount
  <1>4. ASSUME t.type # u.type
        PROVE  CompareApkTokens(t, u) = Sign(TokenRank(t) - TokenRank(u))
    BY <1>1, <1>4 DEF CompareApkTokens, CompareDiffTypes, TokenRank, TokSuffix, PreReleaseCount, Sign
  <1>5. ASSUME t.type = u.type, TokenRank(t) # TokenRank(u)
        PROVE  CompareApkTokens(t, u) = Sign(TokenRank(t) - TokenRank(u))
    <2>1. t.type = TokSuffix /\ Sign(t.value - u.value) = Sign(TokenRank(t) - TokenRank(u))
          /\ Sign(t.value - u.value) # 0
      BY <1>1, <1>5 DEF TokenRank, Sign, PreReleaseCount
    <2>2. t.type # TokDigitOrZero
      BY <2>1 DEF TokSuffix, TokDigitOrZero
    <2>3. Sign(t.value - u.value) \in Signs
      BY <1>1, SignOrders
    <2>4. CompareNumStr(t.digits, u.digits) \in Signs
      <3>1. t.digits \in Seq(Int) /\ u.digits \in Seq(Int)
        BY Strings DEF Tokened
      <3>2. QED
        BY <3>1, NumbersAreOrdered
    <2>5. CompareApkTokens(t, u) = Deciding(<<Sign(t.value - u.value), CompareNumStr(t.digits, u.digits)>>)
      BY <1>5, <2>2 DEF CompareApkTokens
    <2>6. QED
      BY <2>1, <2>3, <2>4, <2>5, DecidingPair
  <1>6. QED
    BY <1>2, <1>3, <1>4, <1>5

\* The tokens are ordered, whatever their types.
LEMMA TokensAreOrdered ==
  ASSUME NEW t \in Tokened, NEW u \in Tokened, NEW v \in Tokened
  PROVE  /\ CompareApkTokens(t, u) \in Signs
         /\ CompareApkTokens(t, t) = 0
         /\ Composes(CompareApkTokens(t, u), CompareApkTokens(u, v), CompareApkTokens(t, v))
  <1> DEFINE K(x, y) == Sign(TokenRank(x) - TokenRank(y))
             F(x, y) == FirstDifference(x.digits, y.digits, Zero)
             Vl(x, y) == Sign(x.value - y.value)
             N(x, y) == CompareNumStr(x.digits, y.digits)
             T(x, y) == IF x.type = TokDigitOrZero THEN F(x, y) ELSE Deciding(<<Vl(x, y), N(x, y)>>)
  <1>1. /\ t.digits \in Seq(Int) /\ u.digits \in Seq(Int) /\ v.digits \in Seq(Int)
        /\ t.value \in Int /\ u.value \in Int /\ v.value \in Int
    BY Strings DEF Tokened
  <1>2. /\ F(t, u) \in Signs /\ F(u, v) \in Signs /\ F(t, v) \in Signs /\ F(t, t) = 0
        /\ Composes(F(t, u), F(u, v), F(t, v))
    <2>1. Zero \in Int
      BY DEF Zero
    <2>2. QED
      BY <1>1, <2>1, FirstDifferenceOrders
  <1>3. /\ Vl(t, u) \in Signs /\ Vl(u, v) \in Signs /\ Vl(t, v) \in Signs /\ Vl(t, t) = 0
        /\ Composes(Vl(t, u), Vl(u, v), Vl(t, v))
    BY <1>1, SignOrders
  <1>4. /\ N(t, u) \in Signs /\ N(u, v) \in Signs /\ N(t, v) \in Signs /\ N(t, t) = 0
        /\ Composes(N(t, u), N(u, v), N(t, v))
    BY <1>1, NumbersAreOrdered
  <1>5. TokenRank(t) \in Int /\ TokenRank(u) \in Int /\ TokenRank(v) \in Int
    BY TokensByRank
  <1>6. /\ K(t, u) \in Signs /\ K(u, v) \in Signs /\ K(t, v) \in Signs
        /\ Composes(K(t, u), K(u, v), K(t, v))
        /\ (K(t, u) = 0) <=> (TokenRank(t) = TokenRank(u))
        /\ (K(u, v) = 0) <=> (TokenRank(u) = TokenRank(v))
        /\ (K(t, v) = 0) <=> (TokenRank(t) = TokenRank(v))
    BY <1>5, SignOrders
  <1>7. /\ CompareApkTokens(t, u) = IF K(t, u) # 0 THEN K(t, u) ELSE T(t, u)
        /\ CompareApkTokens(u, v) = IF K(u, v) # 0 THEN K(u, v) ELSE T(u, v)
        /\ CompareApkTokens(t, v) = IF K(t, v) # 0 THEN K(t, v) ELSE T(t, v)
        /\ CompareApkTokens(t, t) = T(t, t)
    <2>1. ASSUME NEW x \in Tokened, NEW y \in Tokened
          PROVE  /\ TokenRank(x) # TokenRank(y) => CompareApkTokens(x, y) = K(x, y)
                 /\ TokenRank(x) = TokenRank(y) => CompareApkTokens(x, y) = T(x, y)
      <3>1. TokenRank(x) = TokenRank(y) => x.type = y.type
        BY TokensByRank
      <3>2. x.type = y.type => CompareApkTokens(x, y) = T(x, y)
        BY DEF CompareApkTokens
      <3>3. TokenRank(x) # TokenRank(y) => CompareApkTokens(x, y) = K(x, y)
        BY TokensByRank
      <3>4. QED
        BY <3>1, <3>2, <3>3
    <2> HIDE DEF K, T
    <2>2. QED
      BY <1>6, <2>1
  <1> HIDE DEF K, F, Vl, N
  <1>8. /\ Deciding(<<Vl(t, u), N(t, u)>>) \in Signs /\ Deciding(<<Vl(u, v), N(u, v)>>) \in Signs
        /\ Deciding(<<Vl(t, v), N(t, v)>>) \in Signs /\ Deciding(<<Vl(t, t), N(t, t)>>) = 0
    BY <1>3, <1>4, DecidingPair DEF Signs
  <1>9. Composes(Deciding(<<Vl(t, u), N(t, u)>>), Deciding(<<Vl(u, v), N(u, v)>>),
                 Deciding(<<Vl(t, v), N(t, v)>>))
    BY <1>3, <1>4, PairComposes
  <1>10. /\ T(t, u) \in Signs /\ T(u, v) \in Signs /\ T(t, v) \in Signs /\ T(t, t) = 0
         /\ t.type = u.type => Composes(T(t, u), T(u, v), T(t, v))
    BY <1>2, <1>8, <1>9
  <1>11. TokenRank(t) = TokenRank(u) => t.type = u.type
    BY TokensByRank
  <1> HIDE DEF T
  <1>12. /\ Deciding(<<K(t, u), T(t, u)>>) = IF K(t, u) # 0 THEN K(t, u) ELSE T(t, u)
         /\ Deciding(<<K(u, v), T(u, v)>>) = IF K(u, v) # 0 THEN K(u, v) ELSE T(u, v)
         /\ Deciding(<<K(t, v), T(t, v)>>) = IF K(t, v) # 0 THEN K(t, v) ELSE T(t, v)
    BY <1>6, <1>10, DecidingPair
  <1>13. /\ Deciding(<<K(t, u), T(t, u)>>) \in Signs
         /\ Composes(Deciding(<<K(t, u), T(t, u)>>), Deciding(<<K(u, v), T(u, v)>>),
                     Deciding(<<K(t, v), T(t, v)>>))
    BY <1>6, <1>10, <1>11, PairComposes
  <1>14. QED
    BY <1>7, <1>10, <1>12, <1>13

\* What is compared at every place are tokens, ends after the last byte.
LEMMA TokensAtPlaces ==
  ASSUME NEW s \in Seq(Byte), NEW n \in Nat
  PROVE  /\ TokenAt(s, n) \in Tokened /\ EndIsPlain(TokenAt(s, n))
         /\ ApkValid(s) /\ n > Len(s) => TokenAt(s, n).type = TokEnd
  <1>1. Len(s) \in Nat
    OBVIOUS
  <1>2. Min({n, Len(s)}) = IF n <= Len(s) THEN n ELSE Len(s)
    BY <1>1 DEF Min
  <1>3. Min({n, Len(s)}) \in 0..Len(s) /\ (n > Len(s) => Min({n, Len(s)}) = Len(s))
    BY <1>1, <1>2
  <1>4. QED
    BY <1>3, TokensAreTokens DEF TokenAt, ApkValid

\* apk's comparison orders the versions that parse.
LEMMA AlpineOrders ==
  ASSUME NEW a \in Seq(Byte), NEW b \in Seq(Byte), NEW c \in Seq(Byte),
         ApkValid(a), ApkValid(b), ApkValid(c)
  PROVE  /\ CompareAlpine(a, b) \in Signs
         /\ CompareAlpine(a, a) = 0
         /\ Composes(CompareAlpine(a, b), CompareAlpine(b, c), CompareAlpine(a, c))
  <1> DEFINE C(v, w, n) == CompareApkTokens(TokenAt(v, n), TokenAt(w, n))
             D(v, w) == [n \in {0} \cup Longest(v, w) |-> C(v, w, n)]
  <1>1. \A v \in Seq(Byte), n \in Nat : TokenAt(v, n) \in Tokened
    BY TokensAtPlaces
  <1>2. ASSUME NEW v \in Seq(Byte), NEW w \in Seq(Byte), ApkValid(v), ApkValid(w)
        PROVE  /\ DOMAIN D(v, w) \in SUBSET Nat
               /\ \A n \in DOMAIN D(v, w) : D(v, w)[n] \in Signs
               /\ \A n \in DOMAIN D(v, v) : D(v, v)[n] = 0
               /\ \A n \in Nat : ResultAt(D(v, w), n) = C(v, w, n)
    <2>1. Len(v) \in Nat /\ Len(w) \in Nat
      OBVIOUS
    <2>2. Longest(v, w) = {n \in Nat : 1 <= n /\ (n <= Len(v) \/ n <= Len(w))}
      BY <2>1, LongestIs
    <2>3. Longest(v, v) \in SUBSET Nat
      BY <2>1, LongestIs
    <2>4. \A n \in Nat : C(v, w, n) \in Signs
      BY <1>1, TokensAreOrdered
    <2>5. \A n \in Nat : C(v, v, n) = 0
      BY <1>1, TokensAreOrdered
    <2>6. ASSUME NEW n \in Nat, n \notin {0} \cup Longest(v, w) PROVE C(v, w, n) = 0
      <3> DEFINE t == TokenAt(v, n)
                 u == TokenAt(w, n)
      <3>1. n > Len(v) /\ n > Len(w)
        BY <2>1, <2>2, <2>6
      <3>2. t.type = TokEnd /\ u.type = TokEnd /\ EndIsPlain(t) /\ EndIsPlain(u)
        BY <1>2, <3>1, TokensAtPlaces
      <3>3. t.value = 0 /\ u.value = 0 /\ t.digits = <<>> /\ u.digits = <<>>
        BY <3>2 DEF EndIsPlain
      <3> HIDE DEF t, u
      <3>4. CompareApkTokens(t, u) = Deciding(<<Sign(0 - 0), CompareNumStr(<<>>, <<>>)>>)
        BY <3>2, <3>3 DEF CompareApkTokens, TokEnd, TokDigitOrZero
      <3>5. Sign(0 - 0) = 0 /\ CompareNumStr(<<>>, <<>>) = 0
        <4>1. <<>> \in Seq(Int)
          OBVIOUS
        <4>2. Sign(0 - 0) = 0
          BY DEF Sign
        <4>3. CompareNumStr(<<>>, <<>>) = 0
          BY <4>1, NumbersAreOrdered
        <4>4. QED
          BY <4>2, <4>3
      <3>6. Deciding(<<0, 0>>) = 0
        BY DecidingPair DEF Signs
      <3>7. QED
        BY <3>4, <3>5, <3>6 DEF t, u
    <2> HIDE DEF C
    <2>7. QED
      BY <2>2, <2>3, <2>4, <2>5, <2>6 DEF ResultAt
  <1>3. \A v, w : CompareAlpine(v, w) = Deciding(D(v, w))
    BY DEF CompareAlpine
  <1>4. ASSUME NEW n \in Nat
        PROVE  Composes(ResultAt(D(a, b), n), ResultAt(D(b, c), n), ResultAt(D(a, c), n))
    <2>1. Composes(C(a, b, n), C(b, c, n), C(a, c, n))
      BY <1>1, TokensAreOrdered
    <2> HIDE DEF C, D
    <2>2. QED
      BY <1>2, <2>1
  <1> HIDE DEF D
  <1>5. /\ DOMAIN D(a, b) \in SUBSET Nat /\ DOMAIN D(b, c) \in SUBSET Nat
        /\ DOMAIN D(a, c) \in SUBSET Nat /\ DOMAIN D(a, a) \in SUBSET Nat
        /\ \A n \in DOMAIN D(a, b) : D(a, b)[n] \in Signs
        /\ \A n \in DOMAIN D(a, a) : D(a, a)[n] \in Signs /\ D(a, a)[n] = 0
    BY <1>2
  <1>6. Deciding(D(a, b)) \in Signs /\ Deciding(D(a, a)) = 0
    BY <1>5, DecidingIsSign
  <1>7. Composes(Deciding(D(a, b)), Deciding(D(b, c)), Deciding(D(a, c)))
    BY <1>4, <1>5, DecidingComposes
  <1>8. QED
    BY <1>3, <1>6, <1>7

\* The n-th word is a string, and empty after the last.
LEMMA WordsAreStrings ==
  ASSUME NEW s \in Seq(Byte), NEW n \in Nat
  PROVE  /\ Word(s, n) \in Seq(Byte)
         /\ n > Len(s) => Word(s, n) = <<>>
  <1> DEFINE found == Nth(WordStarts(s), n)
             i == Min(found)
             run == IF s[i] \in Digits THEN Digits ELSE NonDigits \ {Dot}
  <1>1. Len(s) \in Nat /\ WordStarts(s) \in SUBSET (1..Len(s))
    BY DEF WordStarts
  <1>2. CASE found = {}
    <2>1. Word(s, n) = <<>>
      BY <1>2 DEF Word
    <2>2. <<>> \in Seq(Byte)
      OBVIOUS
    <2>3. QED
      BY <2>1, <2>2
  <1>3. CASE found # {}
    <2>1. i \in 1..Len(s) /\ ~ n > Len(s)
      BY <1>1, <1>3, NthIsOne
    <2>2. i \in 1..(Len(s) + 1)
      BY <1>1, <2>1
    <2>3. RunEnd(s, i, run) \in i..(Len(s) + 1)
      BY <2>2, RunEnds
    <2>4. Word(s, n) = SubSeq(s, i, RunEnd(s, i, run) - 1)
      BY <1>3 DEF Word
    <2> HIDE DEF i, run
    <2>5. SubSeq(s, i, RunEnd(s, i, run) - 1) \in Seq(Byte)
      <3>1. /\ i \in Nat \ {0} /\ RunEnd(s, i, run) - 1 \in Int
            /\ RunEnd(s, i, run) - 1 <= Len(s)
        BY <1>1, <2>2, <2>3
      <3>2. QED
        BY <3>1, PartsAreSequences
    <2>6. QED
      BY <2>1, <2>4, <2>5
  <1>4. QED
    BY <1>2, <1>3

\* The plain form of a version is a string.
LEMMA PlainIsAString ==
  ASSUME NEW s \in Seq(Byte)
  PROVE  Plain(s) \in Seq(Byte)
  <1> DEFINE u == IF s # <<>> /\ s[1] \in {118, 86} THEN Tail(s) ELSE s
             end == RunEnd(u, 1, Byte \ {Plus})
  <1>1. u \in Seq(Byte)
    OBVIOUS
  <1> HIDE DEF u
  <1>2. Len(u) \in Nat /\ 1 \in 1..(Len(u) + 1)
    BY <1>1
  <1>3. end \in 1..(Len(u) + 1)
    BY <1>1, <1>2, RunEnds
  <1> HIDE DEF end
  <1>4. \A i \in 1..(end - 1) : u[i] \in Byte /\ Dot \in Byte
    <2>1. Dot \in Byte
      BY DEF Dot, Byte
    <2>2. \A i \in 1..(end - 1) : i \in 1..Len(u)
      BY <1>2, <1>3
    <2>3. QED
      BY <1>1, <2>1, <2>2
  <1>5. Plain(s) = [i \in 1..(end - 1) |-> IF u[i] = Underscore THEN Dot ELSE u[i]]
    BY DEF Plain, u, end
  <1>6. end - 1 \in Nat
    BY <1>2, <1>3
  <1>7. QED
    BY <1>4, <1>5, <1>6

\* The numbers and the qualifiers of a version are strings.
LEMMA GenericParts ==
  ASSUME NEW s \in Seq(Byte)
  PROVE  ParseGeneric(s).release \in Seq(Byte) /\ ParseGeneric(s).pre \in Seq(Byte)
  <1> DEFINE v == Plain(s)
             dash == RunEnd(v, 1, Byte \ {Dash})
             head == Before(v, dash)
             q == RunEnd(head, 1, Digits \cup {Dot})
  <1>1. ParseGeneric(s) =
          [release |-> Before(head, q), pre |-> From(head, q) \o <<Dot>> \o From(v, dash + 1)]
    BY DEF ParseGeneric
  <1>2. v \in Seq(Byte)
    BY PlainIsAString
  <1> HIDE DEF v
  <1>3. Len(v) \in Nat /\ 1 \in 1..(Len(v) + 1)
    BY <1>2
  <1>4. dash \in 1..(Len(v) + 1)
    BY <1>2, <1>3, RunEnds
  <1>5. head \in Seq(Byte) /\ From(v, dash + 1) \in Seq(Byte)
    <2>1. dash + 1 \in Nat \ {0}
      BY <1>3, <1>4
    <2>2. QED
      BY <1>2, <1>4, <2>1, Strings
  <1> HIDE DEF dash, head
  <1>6. Len(head) \in Nat /\ 1 \in 1..(Len(head) + 1)
    BY <1>5
  <1>7. q \in 1..(Len(head) + 1)
    BY <1>5, <1>6, RunEnds
  <1>8. Before(head, q) \in Seq(Byte) /\ From(head, q) \in Seq(Byte)
    <2>1. q \in Nat \ {0}
      BY <1>6, <1>7
    <2>2. QED
      BY <1>5, <1>7, <2>1, Strings
  <1> HIDE DEF q
  <1>9. <<Dot>> \in Seq(Byte)
    BY DEF Dot, Byte
  <1>10. From(head, q) \o <<Dot>> \o From(v, dash + 1) \in Seq(Byte)
    BY <1>5, <1>8, <1>9
  <1>11. QED
    BY <1>1, <1>8, <1>10

\* Release numbers are compared one by one.
LEMMA ReleasesAreOrdered ==
  ASSUME NEW a \in Seq(Byte), NEW b \in Seq(Byte), NEW c \in Seq(Byte)
  PROVE  /\ CompareRelease(a, b) \in Signs
         /\ CompareRelease(a, a) = 0
         /\ Composes(CompareRelease(a, b), CompareRelease(b, c), CompareRelease(a, c))
  <1> DEFINE D(v, w) == [n \in Longest(v, w) |-> CompareNumStr(Word(v, n), Word(w, n))]
  <1>1. \A v \in Seq(Byte), n \in Nat : Word(v, n) \in Seq(Int)
    BY WordsAreStrings, Strings
  <1>2. ASSUME NEW v \in Seq(Byte), NEW w \in Seq(Byte)
        PROVE  /\ DOMAIN D(v, w) \in SUBSET Nat
               /\ \A n \in DOMAIN D(v, w) : D(v, w)[n] \in Signs
               /\ \A n \in DOMAIN D(v, v) : D(v, v)[n] = 0
               /\ \A n \in Nat : ResultAt(D(v, w), n) =
                    IF n = 0 THEN 0 ELSE CompareNumStr(Word(v, n), Word(w, n))
    <2>1. Len(v) \in Nat /\ Len(w) \in Nat
      OBVIOUS
    <2>2. Longest(v, w) = {n \in Nat : 1 <= n /\ (n <= Len(v) \/ n <= Len(w))}
      BY <2>1, LongestIs
    <2>3. Longest(v, v) \in SUBSET Nat
      BY <2>1, LongestIs
    <2>4. \A n \in Nat : CompareNumStr(Word(v, n), Word(w, n)) \in Signs
      BY <1>1, NumbersAreOrdered
    <2>5. \A n \in Nat : CompareNumStr(Word(v, n), Word(v, n)) = 0
      BY <1>1, NumbersAreOrdered
    <2>6. ASSUME NEW n \in Nat \ {0}, n \notin Longest(v, w)
          PROVE  CompareNumStr(Word(v, n), Word(w, n)) = 0
      <3>1. n > Len(v) /\ n > Len(w)
        BY <2>1, <2>2, <2>6
      <3>2. Word(v, n) = Word(w, n)
        BY <3>1, WordsAreStrings
      <3>3. QED
        BY <2>5, <3>2
    <2>7. QED
      BY <2>2, <2>3, <2>4, <2>5, <2>6 DEF ResultAt
  <1>3. \A v, w : CompareRelease(v, w) = Deciding(D(v, w))
    BY DEF CompareRelease
  <1>4. ASSUME NEW n \in Nat
        PROVE  Composes(ResultAt(D(a, b), n), ResultAt(D(b, c), n), ResultAt(D(a, c), n))
    <2>1. Composes(CompareNumStr(Word(a, n), Word(b, n)), CompareNumStr(Word(b, n), Word(c, n)),
                   CompareNumStr(Word(a, n), Word(c, n)))
      BY <1>1, NumbersAreOrdered
    <2>2. Composes(0, 0, 0)
      BY DEF Composes
    <2> HIDE DEF D
    <2>3. QED
      BY <1>2, <2>1, <2>2
  <1> HIDE DEF D
  <1>5. /\ DOMAIN D(a, b) \in SUBSET Nat /\ DOMAIN D(b, c) \in SUBSET Nat
        /\ DOMAIN D(a, c) \in SUBSET Nat /\ DOMAIN D(a, a) \in SUBSET Nat
        /\ \A n \in DOMAIN D(a, b) : D(a, b)[n] \in Signs
        /\ \A n \in DOMAIN D(a, a) : D(a, a)[n] \in Signs /\ D(a, a)[n] = 0
    BY <1>2
  <1>6. Deciding(D(a, b)) \in Signs /\ Deciding(D(a, a)) = 0
    BY <1>5, DecidingIsSign
  <1>7. Composes(Deciding(D(a, b)), Deciding(D(b, c)), Deciding(D(a, c)))
    BY <1>4, <1>5, DecidingComposes
  <1>8. QED
    BY <1>3, <1>6, <1>7

(* The identifiers that the order is stated for: none, a number or a qualifier. *)
Identifiers == {w \in Seq(Byte) : w = <<>> \/ AllDigits(w) \/ Known(w)}
IdentClass(w) == IF w = <<>> THEN 0 ELSE IF AllDigits(w) THEN 1 ELSE 2

\* Nothing comes before numbers and numbers before qualifiers, which have ranks.
LEMMA IdentifiersAreOrdered ==
  ASSUME NEW x \in Identifiers, NEW y \in Identifiers, NEW z \in Identifiers
  PROVE  /\ ComparePreIdent(x, y) \in Signs
         /\ ComparePreIdent(x, x) = 0
         /\ Composes(ComparePreIdent(x, y), ComparePreIdent(y, z), ComparePreIdent(x, z))
  <1> DEFINE K(u, v) == Sign(IdentClass(u) - IdentClass(v))
             Q(u, v) == Sign(QualifierRank(u) - QualifierRank(v))
             T(u, v) == IF u = <<>> THEN 0 ELSE IF AllDigits(u) THEN CompareNumStr(u, v)
                        ELSE IF Known(u) /\ Known(v) THEN Q(u, v) ELSE 0
  <1>1. x \in Seq(Int) /\ y \in Seq(Int) /\ z \in Seq(Int)
    BY Strings DEF Identifiers
  <1>2. /\ CompareNumStr(x, y) \in Signs /\ CompareNumStr(y, z) \in Signs
        /\ CompareNumStr(x, z) \in Signs /\ CompareNumStr(x, x) = 0
        /\ Composes(CompareNumStr(x, y), CompareNumStr(y, z), CompareNumStr(x, z))
    BY <1>1, NumbersAreOrdered
  <1>3. ASSUME NEW w, Known(w) PROVE QualifierRank(w) \in Int
    BY <1>3 DEF Known, QualifierRank
  <1>4. ASSUME NEW u, NEW v, Known(u), Known(v) PROVE Q(u, v) \in Signs /\ Q(u, u) = 0
    BY <1>3, <1>4, SignOrders
  <1>5. ASSUME Known(x), Known(y), Known(z) PROVE Composes(Q(x, y), Q(y, z), Q(x, z))
    BY <1>3, <1>5, SignOrders
  <1> HIDE DEF Q
  <1>6. /\ T(x, y) \in Signs /\ T(y, z) \in Signs /\ T(x, z) \in Signs /\ T(x, x) = 0
    BY <1>2, <1>4 DEF Signs
  <1>7. /\ K(x, y) \in Signs /\ K(y, z) \in Signs /\ K(x, z) \in Signs
        /\ Composes(K(x, y), K(y, z), K(x, z))
        /\ (K(x, y) = 0) <=> (IdentClass(x) = IdentClass(y))
        /\ (K(y, z) = 0) <=> (IdentClass(y) = IdentClass(z))
        /\ (K(x, z) = 0) <=> (IdentClass(x) = IdentClass(z))
    <2>1. IdentClass(x) \in Int /\ IdentClass(y) \in Int /\ IdentClass(z) \in Int
      BY DEF IdentClass
    <2>2. QED
      BY <2>1, SignOrders
  <1>8. IdentClass(x) = IdentClass(y) /\ IdentClass(y) = IdentClass(z) =>
          Composes(T(x, y), T(y, z), T(x, z))
    BY <1>2, <1>5 DEF IdentClass, Identifiers, Composes
  <1>9. ASSUME NEW u \in Identifiers, NEW v \in Identifiers
        PROVE  ComparePreIdent(u, v) = IF IdentClass(u) # IdentClass(v) THEN K(u, v) ELSE T(u, v)
    <2>1. Len(u) \in Nat /\ Len(v) \in Nat /\ (u = <<>> <=> Len(u) = 0) /\ (v = <<>> <=> Len(v) = 0)
      BY DEF Identifiers
    <2>2. CASE u = <<>> \/ v = <<>>
      BY <2>1, <2>2 DEF ComparePreIdent, IdentClass, Sign
    <2>3. CASE u # <<>> /\ v # <<>>
      BY <2>3 DEF ComparePreIdent, IdentClass, Identifiers, Sign, Q
    <2>4. QED
      BY <2>2, <2>3
  <1>10. /\ ComparePreIdent(x, y) = IF K(x, y) # 0 THEN K(x, y) ELSE T(x, y)
         /\ ComparePreIdent(y, z) = IF K(y, z) # 0 THEN K(y, z) ELSE T(y, z)
         /\ ComparePreIdent(x, z) = IF K(x, z) # 0 THEN K(x, z) ELSE T(x, z)
         /\ ComparePreIdent(x, x) = T(x, x)
    <2> HIDE DEF K, T
    <2>1. QED
      BY <1>7, <1>9
  <1> HIDE DEF K, T
  <1>11. /\ Deciding(<<K(x, y), T(x, y)>>) = IF K(x, y) # 0 THEN K(x, y) ELSE T(x, y)
         /\ Deciding(<<K(y, z), T(y, z)>>) = IF K(y, z) # 0 THEN K(y, z) ELSE T(y, z)
         /\ Deciding(<<K(x, z), T(x, z)>>) = IF K(x, z) # 0 THEN K(x, z) ELSE T(x, z)
    BY <1>6, <1>7, DecidingPair
  <1>12. /\ Deciding(<<K(x, y), T(x, y)>>) \in Signs
         /\ Composes(Deciding(<<K(x, y), T(x, y)>>), Deciding(<<K(y, z), T(y, z)>>),
                     Deciding(<<K(x, z), T(x, z)>>))
    BY <1>6, <1>7, <1>8, PairComposes
  <1>13. QED
    BY <1>6, <1>10, <1>11, <1>12

\* Qualifiers that the code knows, and numbers, are compared one by one.
LEMMA QualifiersAreOrdered ==
  ASSUME NEW a \in Seq(Byte), NEW b \in Seq(Byte), NEW c \in Seq(Byte),
         \A n \in Nat : Word(a, n) \in Identifiers /\ Word(b, n) \in Identifiers
                        /\ Word(c, n) \in Identifiers
  PROVE  /\ ComparePre(a, b) \in Signs
         /\ ComparePre(a, a) = 0
         /\ Composes(ComparePre(a, b), ComparePre(b, c), ComparePre(a, c))
  <1> DEFINE D(v, w) == [n \in Longest(v, w) |-> ComparePreIdent(Word(v, n), Word(w, n))]
             Three == {a, b, c}
  <1>1. \A v \in Three, n \in Nat : v \in Seq(Byte) /\ Word(v, n) \in Identifiers
    OBVIOUS
  <1> HIDE DEF Three
  <1>2. ASSUME NEW v \in Three, NEW w \in Three
        PROVE  /\ DOMAIN D(v, w) \in SUBSET Nat
               /\ \A n \in DOMAIN D(v, w) : D(v, w)[n] \in Signs
               /\ \A n \in DOMAIN D(v, v) : D(v, v)[n] = 0
               /\ \A n \in Nat : ResultAt(D(v, w), n) =
                    IF n = 0 THEN 0 ELSE ComparePreIdent(Word(v, n), Word(w, n))
    <2>1. v \in Seq(Byte) /\ w \in Seq(Byte) /\ Len(v) \in Nat /\ Len(w) \in Nat
      BY <1>1
    <2>2. Longest(v, w) = {n \in Nat : 1 <= n /\ (n <= Len(v) \/ n <= Len(w))}
      BY <2>1, LongestIs
    <2>3. Longest(v, v) \in SUBSET Nat
      BY <2>1, LongestIs
    <2>4. \A n \in Nat : ComparePreIdent(Word(v, n), Word(w, n)) \in Signs
      BY <1>1, IdentifiersAreOrdered
    <2>5. \A n \in Nat : ComparePreIdent(Word(v, n), Word(v, n)) = 0
      BY <1>1, IdentifiersAreOrdered
    <2>6. ASSUME NEW n \in Nat \ {0}, n \notin Longest(v, w)
          PROVE  ComparePreIdent(Word(v, n), Word(w, n)) = 0
      <3>1. n > Len(v) /\ n > Len(w)
        BY <2>1, <2>2, <2>6
      <3>2. Word(v, n) = Word(w, n)
        BY <2>1, <3>1, WordsAreStrings
      <3>3. QED
        BY <2>5, <3>2
    <2>7. QED
      BY <2>2, <2>3, <2>4, <2>5, <2>6 DEF ResultAt
  <1>3. \A v, w : ComparePre(v, w) = Deciding(D(v, w))
    BY DEF ComparePre
  <1>4. a \in Three /\ b \in Three /\ c \in Three
    BY DEF Three
  <1>5. ASSUME NEW n \in Nat
        PROVE  Composes(ResultAt(D(a, b), n), ResultAt(D(b, c), n), ResultAt(D(a, c), n))
    <2>1. Composes(ComparePreIdent(Word(a, n), Word(b, n)), ComparePreIdent(Word(b, n), Word(c, n)),
                   ComparePreIdent(Word(a, n), Word(c, n)))
      BY IdentifiersAreOrdered
    <2>2. Composes(0, 0, 0)
      BY DEF Composes
    <2> HIDE DEF D
    <2>3. QED
      BY <1>2, <1>4, <2>1, <2>2
  <1> HIDE DEF D
  <1>6. /\ DOMAIN D(a, b) \in SUBSET Nat /\ DOMAIN D(b, c) \in SUBSET Nat
        /\ DOMAIN D(a, c) \in SUBSET Nat /\ DOMAIN D(a, a) \in SUBSET Nat
        /\ \A n \in DOMAIN D(a, b) : D(a, b)[n] \in Signs
        /\ \A n \in DOMAIN D(a, a) : D(a, a)[n] \in Signs /\ D(a, a)[n] = 0
    BY <1>2, <1>4
  <1>7. Deciding(D(a, b)) \in Signs /\ Deciding(D(a, a)) = 0
    BY <1>6, DecidingIsSign
  <1>8. Composes(Deciding(D(a, b)), Deciding(D(b, c)), Deciding(D(a, c)))
    BY <1>5, <1>6, DecidingComposes
  <1>9. QED
    BY <1>3, <1>7, <1>8

\* The language ecosystems' comparison orders the versions that it is stated for.
LEMMA GenericOrders ==
  ASSUME NEW a \in Seq(Byte), NEW b \in Seq(Byte), NEW c \in Seq(Byte),
         Stated("generic", a), Stated("generic", b), Stated("generic", c)
  PROVE  /\ CompareGeneric(a, b) \in Signs
         /\ CompareGeneric(a, a) = 0
         /\ Composes(CompareGeneric(a, b), CompareGeneric(b, c), CompareGeneric(a, c))
  <1> DEFINE x == ParseGeneric(a)
             y == ParseGeneric(b)
             z == ParseGeneric(c)
             E(u, v) == CompareRelease(u.release, v.release)
             U(u, v) == Sign(ReleaseTier(u.pre) - ReleaseTier(v.pre))
             R(u, v) == ComparePre(u.pre, v.pre)
  <1>1. /\ x.release \in Seq(Byte) /\ y.release \in Seq(Byte) /\ z.release \in Seq(Byte)
        /\ x.pre \in Seq(Byte) /\ y.pre \in Seq(Byte) /\ z.pre \in Seq(Byte)
    BY GenericParts
  <1>2. /\ CompareGeneric(a, b) = Deciding(<<E(x, y), U(x, y), R(x, y)>>)
        /\ CompareGeneric(b, c) = Deciding(<<E(y, z), U(y, z), R(y, z)>>)
        /\ CompareGeneric(a, c) = Deciding(<<E(x, z), U(x, z), R(x, z)>>)
        /\ CompareGeneric(a, a) = Deciding(<<E(x, x), U(x, x), R(x, x)>>)
    BY DEF CompareGeneric
  <1>3. ASSUME NEW v \in Seq(Byte), Stated("generic", v), NEW n \in Nat
        PROVE  Word(ParseGeneric(v).pre, n) \in Identifiers
    <2> DEFINE pre == ParseGeneric(v).pre
    <2>1. \A k \in 1..Len(pre) : Word(pre, k) # <<>> => AllDigits(Word(pre, k)) \/ Known(Word(pre, k))
      BY <1>3 DEF Stated
    <2>2. pre \in Seq(Byte) /\ Len(pre) \in Nat
      BY GenericParts
    <2> HIDE DEF pre
    <2>3. Word(pre, n) \in Seq(Byte) /\ (n > Len(pre) => Word(pre, n) = <<>>)
      BY <2>2, WordsAreStrings
    <2>4. n = 0 => Word(pre, n) = <<>>
      <3>1. WordStarts(pre) \in SUBSET (1..Len(pre))
        BY DEF WordStarts
      <3>2. ASSUME NEW i \in Nth(WordStarts(pre), 0) PROVE FALSE
        <4> DEFINE UpToI == {j \in WordStarts(pre) : j <= i}
        <4>1. Cardinality(UpToI) = 0 /\ i \in WordStarts(pre)
          BY <3>2 DEF Nth
        <4>2. IsFiniteSet(1..Len(pre)) /\ UpToI \in SUBSET (1..Len(pre)) /\ i \in 1..Len(pre)
          BY <2>2, <3>1, <4>1, FS_Interval
        <4>3. i \in UpToI
          BY <4>1, <4>2
        <4>4. IsFiniteSet(UpToI)
          BY <4>2, FS_Subset
        <4> HIDE DEF UpToI
        <4>5. QED
          BY <4>1, <4>3, <4>4, FS_EmptySet
      <3>3. QED
        BY <3>2 DEF Word
    <2>5. Word(pre, n) \in Identifiers
      BY <2>1, <2>2, <2>3, <2>4 DEF Identifiers
    <2>6. QED
      BY <2>5 DEF pre
  <1>4. \A n \in Nat : /\ Word(x.pre, n) \in Identifiers /\ Word(y.pre, n) \in Identifiers
                       /\ Word(z.pre, n) \in Identifiers
    BY <1>3
  <1> HIDE DEF x, y, z
  <1>5. /\ E(x, y) \in Signs /\ E(y, z) \in Signs /\ E(x, z) \in Signs /\ E(x, x) = 0
        /\ Composes(E(x, y), E(y, z), E(x, z))
    BY <1>1, ReleasesAreOrdered
  <1>6. /\ U(x, y) \in Signs /\ U(y, z) \in Signs /\ U(x, z) \in Signs /\ U(x, x) = 0
        /\ Composes(U(x, y), U(y, z), U(x, z))
    <2>1. \A pre : ReleaseTier(pre) \in Int
      BY DEF ReleaseTier
    <2>2. QED
      BY <2>1, SignOrders
  <1>7. /\ R(x, y) \in Signs /\ R(y, z) \in Signs /\ R(x, z) \in Signs /\ R(x, x) = 0
        /\ Composes(R(x, y), R(y, z), R(x, z))
    <2>1. R(x, y) \in Signs /\ R(x, x) = 0 /\ Composes(R(x, y), R(y, z), R(x, z))
      BY <1>1, <1>4, QualifiersAreOrdered
    <2>2. R(y, z) \in Signs
      BY <1>1, <1>4, QualifiersAreOrdered
    <2>3. R(x, z) \in Signs
      BY <1>1, <1>4, QualifiersAreOrdered
    <2>4. QED
      BY <2>1, <2>2, <2>3
  <1> HIDE DEF E, U, R
  <1>8. /\ Deciding(<<E(x, y), U(x, y), R(x, y)>>) \in Signs
        /\ Composes(Deciding(<<E(x, y), U(x, y), R(x, y)>>),
                    Deciding(<<E(y, z), U(y, z), R(y, z)>>),
                    Deciding(<<E(x, z), U(x, z), R(x, z)>>))
    BY <1>5, <1>6, <1>7, TripleComposes
  <1>9. Deciding(<<0, 0, 0>>) = 0
    BY DecidingTriple DEF Signs
  <1>10. QED
    BY <1>2, <1>5, <1>6, <1>7, <1>8, <1>9

\* The results of each family fit together for any three versions.
LEMMA ComparedVersions ==
  ASSUME NEW f \in DOMAIN Versions,
         NEW a \in Ordered[f], NEW b \in Ordered[f], NEW c \in Ordered[f]
  PROVE  /\ Compare(f, a, b) \in Signs
         /\ Compare(f, a, a) = 0
         /\ Composes(Compare(f, a, b), Compare(f, b, c), Compare(f, a, c))
  <1>1. f \in {"debian", "rhel", "alpine", "generic"} /\ Versions[f] \in SUBSET Seq(Byte)
    BY VersionsAreBytes DEF Comparators
  <1>2. Ordered[f] = {v \in Versions[f] : Stated(f, v)}
    BY DEF Ordered
  <1>3. /\ a \in Seq(Byte) /\ b \in Seq(Byte) /\ c \in Seq(Byte)
        /\ Stated(f, a) /\ Stated(f, b) /\ Stated(f, c)
    BY <1>1, <1>2
  <1>4. CASE f = "debian"
    <2>1. \A v, w : Compare(f, v, w) = CompareDebian(v, w)
      BY <1>4 DEF Compare
    <2>2. QED
      BY <1>3, <2>1, DebianOrders
  <1>5. CASE f = "rhel"
    <2>1. \A v, w : Compare(f, v, w) = CompareRPM(v, w)
      BY <1>5 DEF Compare
    <2>2. QED
      BY <1>3, <2>1, RpmOrders
  <1>6. CASE f = "alpine"
    <2>1. \A v, w : Compare(f, v, w) = CompareAlpine(v, w)
      BY <1>6 DEF Compare
    <2>2. ApkValid(a) /\ ApkValid(b) /\ ApkValid(c)
      BY <1>3, <1>6 DEF Stated, Comparable
    <2>3. QED
      BY <1>3, <2>1, <2>2, AlpineOrders
  <1>7. CASE f = "generic"
    <2>1. \A v, w : Compare(f, v, w) = CompareGeneric(v, w)
      BY <1>7 DEF Compare
    <2>2. Stated("generic", a) /\ Stated("generic", b) /\ Stated("generic", c)
      BY <1>3, <1>7
    <2>3. QED
      BY <1>3, <2>1, <2>2, GenericOrders
  <1>8. QED
    BY <1>1, <1>4, <1>5, <1>6, <1>7

\* Counting the older versions maps the comparison to the order of numbers.
LEMMA OlderVersionsCount ==
  ASSUME NEW f \in DOMAIN Versions, NEW a \in Ordered[f], NEW b \in Ordered[f]
  PROVE  Compared[f][a][b] = Sign(Older[f][a] - Older[f][b])
  <1> DEFINE Vs == Ordered[f]
             OlderThan(v) == {w \in Vs : Compare(f, w, v) < 0}
  <1>1. IsFiniteSet(Vs)
    <2>1. Vs = {v \in Versions[f] : Stated(f, v)} /\ IsFiniteSet(Versions[f])
      BY VersionsAreBytes DEF Ordered
    <2>2. Vs \in SUBSET Versions[f]
      BY <2>1
    <2> HIDE DEF Vs
    <2>3. QED
      BY <2>1, <2>2, FS_Subset
  <1>2. \A v, w \in Vs : Compared[f][v][w] = Compare(f, v, w)
    BY DEF Compared
  <1>3. ASSUME NEW v \in Vs PROVE Older[f][v] = Cardinality(OlderThan(v))
    <2>1. Older[f][v] = Cardinality({w \in Vs : Compared[f][w][v] < 0})
      BY DEF Older
    <2>2. {w \in Vs : Compared[f][w][v] < 0} = OlderThan(v)
      BY <1>2
    <2>3. QED
      BY <2>1, <2>2
  <1>4. ASSUME NEW v \in Vs, NEW w \in Vs, NEW u \in Vs
        PROVE  /\ Compare(f, v, w) \in {-1, 0, 1} /\ Compare(f, v, v) = 0
               /\ Compare(f, v, w) = 0 => Compare(f, v, u) = Compare(f, w, u)
               /\ Compare(f, w, u) = 0 => Compare(f, v, u) = Compare(f, v, w)
               /\ Compare(f, v, w) = Compare(f, w, u) => Compare(f, v, u) = Compare(f, v, w)
    BY ComparedVersions DEF Composes, Signs
  <1> HIDE DEF Vs
  <1>5. ASSUME NEW v \in Vs PROVE IsFiniteSet(OlderThan(v)) /\ Cardinality(OlderThan(v)) \in Nat
    <2>1. OlderThan(v) \in SUBSET Vs
      OBVIOUS
    <2> HIDE DEF OlderThan
    <2>2. IsFiniteSet(OlderThan(v))
      BY <1>1, <2>1, FS_Subset
    <2>3. QED
      BY <2>2, FS_CardinalityType
  <1>6. ASSUME NEW v \in Vs, NEW w \in Vs, Compare(f, v, w) = -1
        PROVE  Cardinality(OlderThan(v)) < Cardinality(OlderThan(w))
    <2>1. OlderThan(v) \in SUBSET OlderThan(w)
      <3>1. ASSUME NEW u \in Vs, Compare(f, u, v) < 0 PROVE Compare(f, u, w) < 0
        <4>1. Compare(f, u, v) = -1
          BY <1>4, <3>1
        <4>2. QED
          BY <1>4, <1>6, <4>1
      <3>2. QED
        BY <3>1
    <2>2. v \in OlderThan(w) /\ v \notin OlderThan(v)
      <3>1. Compare(f, v, v) = 0
        BY <1>4
      <3>2. QED
        BY <1>6, <3>1
    <2>3. IsFiniteSet(OlderThan(w)) /\ Cardinality(OlderThan(v)) \in Nat /\ Cardinality(OlderThan(w)) \in Nat
      BY <1>5
    <2> HIDE DEF OlderThan
    <2>4. Cardinality(OlderThan(v)) <= Cardinality(OlderThan(w)) /\ Cardinality(OlderThan(v)) # Cardinality(OlderThan(w))
      BY <2>1, <2>2, <2>3, FS_Subset
    <2>5. QED
      BY <2>3, <2>4
  <1>7. a \in Vs /\ b \in Vs
    BY DEF Vs
  <1>8. Compare(f, a, b) = Sign(Cardinality(OlderThan(a)) - Cardinality(OlderThan(b)))
    <2>1. Cardinality(OlderThan(a)) \in Nat /\ Cardinality(OlderThan(b)) \in Nat
      BY <1>5, <1>7
    <2>2. CASE Compare(f, a, b) = -1
      <3>1. Cardinality(OlderThan(a)) < Cardinality(OlderThan(b))
        BY <1>6, <1>7, <2>2
      <3> HIDE DEF OlderThan
      <3>2. QED
        BY <2>1, <2>2, <3>1 DEF Sign
    <2>3. CASE Compare(f, a, b) = 1
      <3>1. Compare(f, b, a) = -1
        <4>1. Compare(f, a, a) = 0 /\ Compare(f, b, a) \in {-1, 0, 1}
          BY <1>4, <1>7
        <4>2. Compare(f, a, b) # Compare(f, b, a) /\ Compare(f, b, a) # 0
          BY <1>4, <1>7, <2>3, <4>1
        <4>3. QED
          BY <2>3, <4>1, <4>2
      <3>2. Cardinality(OlderThan(b)) < Cardinality(OlderThan(a))
        BY <1>6, <1>7, <3>1
      <3> HIDE DEF OlderThan
      <3>3. QED
        BY <2>1, <2>3, <3>2 DEF Sign
    <2>4. CASE Compare(f, a, b) = 0
      <3>1. \A u \in Vs : Compare(f, u, a) = Compare(f, u, b)
        BY <1>4, <1>7, <2>4
      <3>2. OlderThan(a) = OlderThan(b)
        BY <3>1
      <3> HIDE DEF OlderThan
      <3>3. QED
        BY <2>1, <2>4, <3>2 DEF Sign
    <2>5. QED
      BY <1>4, <1>7, <2>2, <2>3, <2>4
  <1> HIDE DEF OlderThan
  <1>9. QED
    BY <1>2, <1>3, <1>7, <1>8

\* OrderIsTotal: of any finite sets of versions, those that Compare answers for, and
\* for language ecosystems those whose words it knows, are put into one order.
THEOREM VersionsHaveAnOrder ==
  VersionSpec => []OrderIsTotal
  <1> DEFINE AFamily == family \in DOMAIN Versions
  <1>1. InitVersions => AFamily
    BY DEF InitVersions
  <1>2. AFamily /\ [NextVersions]_versionVars => AFamily'
    BY DEF NextVersions, TakeVersion, versionVars
  <1>3. AFamily => OrderIsTotal
    BY OlderVersionsCount DEF OrderIsTotal
  <1>4. QED
    BY <1>1, <1>2, <1>3, PTL DEF VersionSpec

=============================================================================

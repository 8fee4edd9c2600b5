------------------------------ MODULE Findings ------------------------------
(***************************************************************************)
(* The findings of one host that come from matching its packages against   *)
(* the CVE database: handleReport matches the scan it stores, a             *)
(* recalculation pass matches the latest scan again and removes what the    *)
(* database no longer says, and then asks for a rescan.  All three read     *)
(* first and write later, and imports, reports and the retention go on in   *)
(* between.                                                                 *)
(*                                                                         *)
(* Scans are numbered in the order of their creation.  A package stands for *)
(* a name with a version; which versions a CVE affects is VersionCompare.   *)
(***************************************************************************)
EXTENDS Naturals, FiniteSets

CONSTANTS Cves,
          Libraries,    \* packages with an ecosystem, matched by RematchCVEs
          Runtimes,     \* language runtimes, matched by RematchCPE
          Sources,      \* the sources of the CVE database
          MatchSources, \* those that RematchCVEs is told to use
          Nvd,          \* the source that RematchCPE uses
          About,        \* the packages that each source has advisories about
          MaxImports,   \* bounds the imports
          MaxReports,   \* bounds the reports that no rescan asked for
          MaxHostScans, \* bounds the scans of the host
          MaxPackages,  \* bounds the packages of a scan
          MatchFaults   \* bounds the calls that fail

ASSUME FindingsConstants ==
  /\ MatchSources \subseteq Sources
  /\ Nvd \in Sources
  /\ Libraries \cap Runtimes = {}
  /\ About \in [Sources -> SUBSET (Libraries \cup Runtimes)]
  /\ {MaxImports, MaxReports, MaxHostScans, MaxPackages, MatchFaults} \subseteq Nat

VARIABLES products,  \* the packages that each source's row of a CVE affects; {} without a row
          scans,     \* what is known of each scan
          findings,  \* the rows of vulnerabilities
          summary,   \* the findings that the package summaries count
          pass,      \* the recalculation's pass
          owed,      \* a pass was asked for while one was running
          rescan,    \* a rescan request is pending
          disturbed, \* (history) the last pass met a report or a failing call
          imports, reports, matchFaults \* how often each has happened

findingVars == <<products, scans, findings, summary, pass, owed, rescan, disturbed,
                 imports, reports, matchFaults>>

Packages == Libraries \cup Runtimes
Pairs == Packages \X Cves
Matchers == {"cve", "cpe"}

ScanIds == 1..MaxHostScans

IngestSteps == {"cve-read", "cve-write", "cpe-read", "cpe-write", "summary", "complete"}
PassSteps == {"cleanup", "delete", "cve-read", "cve-write", "cpe-read", "cpe-write",
              "summaries", "rescan"}

(* at: the step that handleReport is at; "done" for a scan that is completed or
   degraded, "gone" for one that was pruned.  found: what a matcher has read
   and not yet written. *)
NoScan == [at |-> "none", packages |-> {}, found |-> {}, degraded |-> FALSE]
Scan == [at : IngestSteps \cup {"none", "done", "gone"}, packages : SUBSET Packages,
         found : SUBSET Pairs, degraded : BOOLEAN]

Finding == [scan : ScanIds, pair : Pairs, from : {"scanner", "cve-db"}]

Idle == [at |-> "idle", scan |-> 0, found |-> {}]

FindingsTypeOK ==
  /\ products \in [Cves \X Sources -> SUBSET Packages]
  /\ scans \in [ScanIds -> Scan]
  /\ findings \subseteq Finding
  /\ summary \subseteq ScanIds \X Pairs
  /\ pass \in [at : PassSteps \cup {"idle"}, scan : ScanIds \cup {0}, found : SUBSET Pairs]
  /\ owed \in BOOLEAN /\ rescan \in BOOLEAN /\ disturbed \in BOOLEAN
  /\ imports \in 0..MaxImports /\ reports \in 0..MaxReports /\ matchFaults \in 0..MatchFaults

-----------------------------------------------------------------------------
Used == {s \in ScanIds : scans[s].at # "none"}
Completed == {s \in ScanIds : scans[s].at = "done"}
Latest == IF Completed = {} THEN 0
          ELSE CHOOSE s \in Completed : \A t \in Completed : t <= s
Ingesting == {s \in ScanIds : scans[s].at \in IngestSteps}

Of(s) == {f.pair : f \in {g \in findings : g.scan = s}}

(* compatibleSecurityCandidate and compatibleCPECandidate: a row of one of the
   sources says that the CVE affects the package. *)
Compatible(pair, sources) == \E src \in sources : pair[1] \in products[pair[2], src]

(* What a matcher finds for the packages pkgs. *)
Matches(m, pkgs) ==
  LET mine == pkgs \cap (IF m = "cve" THEN Libraries ELSE Runtimes)
      sources == IF m = "cve" THEN MatchSources ELSE {Nvd}
  IN {pair \in mine \X Cves : Compatible(pair, sources)}

(* A finding that is there already, the scanner's among them, is left alone. *)
Inserted(s, pairs) ==
  {[scan |-> s, pair |-> p, from |-> "cve-db"] : p \in pairs \ Of(s)}

Summarised(s) == (summary \ ({s} \X Pairs)) \cup ({s} \X Of(s))

InitFindings ==
  /\ products \in {p \in [Cves \X Sources -> SUBSET Packages] :
                     \A x \in DOMAIN p : p[x] \subseteq About[x[2]]}
  /\ scans = [s \in ScanIds |-> NoScan]
  /\ findings = {} /\ summary = {}
  /\ pass = Idle /\ owed = FALSE /\ rescan = FALSE /\ disturbed = FALSE
  /\ imports = 0 /\ reports = 0 /\ matchFaults = 0

-----------------------------------------------------------------------------
(* The import of one source is committed, and its handler calls
   SecurityDatabaseUpdated.  SecurityRecalc has the gap between the two. *)
ImportSource ==
  /\ imports < MaxImports
  /\ imports' = imports + 1
  /\ \E src \in Sources, rows \in [Cves -> SUBSET Packages] :
       /\ \A c \in Cves : rows[c] \subseteq About[src]
       /\ products' = [x \in Cves \X Sources |-> IF x[2] = src THEN rows[x[1]] ELSE products[x]]
  /\ IF pass.at = "idle"
     THEN /\ pass' = [Idle EXCEPT !.at = "cleanup"]
          /\ disturbed' = (Ingesting # {})
          /\ UNCHANGED owed
     ELSE owed' = TRUE /\ UNCHANGED <<pass, disturbed>>
  /\ UNCHANGED <<scans, findings, summary, rescan, reports, matchFaults>>

-----------------------------------------------------------------------------
(* handleReport.  The scan, its packages and the findings that the agent or the
   server's own scanner brings are stored; ReportDelivery has these steps one
   by one. *)
BeginIngest(s) ==
  /\ s \notin Used /\ \A t \in 1..(s - 1) : t \in Used
  /\ \E pkgs \in SUBSET Packages \ {{}} : \E brought \in SUBSET (pkgs \X Cves) :
       /\ Cardinality(pkgs) <= MaxPackages
       /\ scans' = [scans EXCEPT ![s] = [NoScan EXCEPT !.at = "cve-read", !.packages = pkgs]]
       /\ findings' = findings \cup {[scan |-> s, pair |-> p, from |-> "scanner"] : p \in brought}
  /\ disturbed' = (disturbed \/ pass.at # "idle")
  /\ UNCHANGED <<products, summary, pass, owed, imports, matchFaults>>

Report(s) ==
  /\ reports < MaxReports
  /\ reports' = reports + 1
  /\ BeginIngest(s)
  /\ UNCHANGED rescan

(* The agent claims the rescan and reports. *)
Rescan(s) ==
  /\ rescan
  /\ rescan' = FALSE
  /\ BeginIngest(s)
  /\ UNCHANGED reports

AfterRead(m) == IF m = "cve" THEN "cve-write" ELSE "cpe-write"
AfterWrite(m) == IF m = "cve" THEN "cpe-read" ELSE "summary"
ReadStep(m) == IF m = "cve" THEN "cve-read" ELSE "cpe-read"

(* RematchCVEs and RematchCPE for one scan: the matching rows are read, and
   inserted by a transaction of its own. *)
IngestRead(s, m) ==
  /\ scans[s].at = ReadStep(m)
  /\ scans' = [scans EXCEPT ![s].at = AfterRead(m), ![s].found = Matches(m, scans[s].packages)]
  /\ UNCHANGED <<products, findings, summary, pass, owed, rescan, disturbed,
                 imports, reports, matchFaults>>

IngestWrite(s, m) ==
  /\ scans[s].at = AfterRead(m)
  /\ scans' = [scans EXCEPT ![s].at = AfterWrite(m), ![s].found = {}]
  /\ findings' = findings \cup Inserted(s, scans[s].found)
  /\ UNCHANGED <<products, summary, pass, owed, rescan, disturbed, imports, reports, matchFaults>>

(* Either call of the matcher fails: an ingest error, and the scan is degraded. *)
IngestMatchFails(s, m) ==
  /\ scans[s].at \in {ReadStep(m), AfterRead(m)}
  /\ matchFaults < MatchFaults
  /\ matchFaults' = matchFaults + 1
  /\ scans' = [scans EXCEPT ![s].at = AfterWrite(m), ![s].found = {}, ![s].degraded = TRUE]
  /\ UNCHANGED <<products, findings, summary, pass, owed, rescan, disturbed, imports, reports>>

RebuildPackageVulnerabilitySummariesForScan(s) ==
  /\ scans[s].at = "summary"
  /\ scans' = [scans EXCEPT ![s].at = "complete"]
  /\ summary' = Summarised(s)
  /\ UNCHANGED <<products, findings, pass, owed, rescan, disturbed, imports, reports, matchFaults>>

CompleteScan(s) ==
  /\ scans[s].at = "complete"
  /\ scans' = [scans EXCEPT ![s].at = "done"]
  /\ UNCHANGED <<products, findings, summary, pass, owed, rescan, disturbed,
                 imports, reports, matchFaults>>

(* The retention removes a scan that is not the latest, and with it what refers
   to it. *)
PruneScan(s) ==
  /\ s \in Completed \ {Latest}
  /\ scans' = [scans EXCEPT ![s] = [NoScan EXCEPT !.at = "gone"]]
  /\ findings' = {f \in findings : f.scan # s}
  /\ summary' = summary \ ({s} \X Pairs)
  /\ UNCHANGED <<products, pass, owed, rescan, disturbed, imports, reports, matchFaults>>

-----------------------------------------------------------------------------
(* The pass.  Its steps that touch neither findings nor summaries (EPSS, CVSS,
   severities) are left out. *)
PassIsAt(step) == pass.at = step

(* The findings of the matcher that no row of the database supports any more,
   whichever source it is of. *)
StaleRematched ==
  {f \in findings : f.from = "cve-db" /\ ~Compatible(f.pair, Sources)}

(* The batches of RemoveStaleRematchedVulnerabilities go by the findings' ids and
   each of them is read and deleted like the whole. *)
ReadStale ==
  /\ PassIsAt("cleanup")
  /\ pass' = [pass EXCEPT !.at = "delete",
                          !.scan = Latest,
                          !.found = {f.pair : f \in {g \in StaleRematched : g.scan = Latest}}]
  /\ UNCHANGED <<products, scans, findings, summary, owed, rescan, disturbed,
                 imports, reports, matchFaults>>

DeleteStale ==
  /\ PassIsAt("delete")
  /\ findings' = {f \in findings :
                    ~(f.scan = pass.scan /\ f.pair \in pass.found /\ f.from = "cve-db")}
  /\ pass' = [Idle EXCEPT !.at = "cve-read"]
  /\ UNCHANGED <<products, scans, summary, owed, rescan, disturbed, imports, reports, matchFaults>>

PassRead(m) ==
  /\ PassIsAt(ReadStep(m))
  /\ pass' = [at |-> AfterRead(m), scan |-> Latest,
              found |-> IF Latest = 0 THEN {} ELSE Matches(m, scans[Latest].packages)]
  /\ UNCHANGED <<products, scans, findings, summary, owed, rescan, disturbed,
                 imports, reports, matchFaults>>

PassAfter(m) == IF m = "cve" THEN "cpe-read" ELSE "summaries"

(* A package of a pruned scan fails its foreign key; the loop goes on, but the
   transaction is aborted and the commit fails, so that nothing is inserted. *)
PassWrite(m) ==
  /\ PassIsAt(AfterRead(m))
  /\ pass' = [Idle EXCEPT !.at = PassAfter(m)]
  /\ LET lost == pass.found # {} /\ scans[pass.scan].at = "gone"
     IN /\ findings' = IF lost \/ pass.found = {} THEN findings
                       ELSE findings \cup Inserted(pass.scan, pass.found)
        /\ disturbed' = (disturbed \/ lost)
  /\ UNCHANGED <<products, scans, summary, owed, rescan, imports, reports, matchFaults>>

(* A step of the pass fails, is noted as an error, and the next one is taken. *)
PassStepFails ==
  /\ pass.at \in PassSteps \ {"rescan"}
  /\ matchFaults < MatchFaults
  /\ matchFaults' = matchFaults + 1
  /\ disturbed' = TRUE
  /\ pass' = [Idle EXCEPT !.at =
                CASE pass.at \in {"cleanup", "delete"} -> "cve-read"
                  [] pass.at \in {"cve-read", "cve-write"} -> "cpe-read"
                  [] pass.at \in {"cpe-read", "cpe-write"} -> "summaries"
                  [] OTHER -> "rescan"]
  /\ UNCHANGED <<products, scans, findings, summary, owed, rescan, imports, reports>>

RebuildLatestPackageVulnerabilitySummaries ==
  /\ PassIsAt("summaries")
  /\ pass' = [Idle EXCEPT !.at = "rescan"]
  /\ summary' = IF Latest = 0 THEN summary ELSE Summarised(Latest)
  /\ UNCHANGED <<products, scans, findings, owed, rescan, disturbed, imports, reports, matchFaults>>

(* Mutant: an owed pass is forgotten. *)
EndPassForgets ==
  /\ PassIsAt("rescan")
  /\ rescan' = TRUE
  /\ pass' = Idle /\ owed' = FALSE
  /\ UNCHANGED <<products, scans, findings, summary, disturbed, imports, reports, matchFaults>>

(* The rescan is queued whether the steps succeeded or not, and the worker looks
   for an owed pass. *)
EndPass ==
  /\ PassIsAt("rescan")
  /\ rescan' = TRUE
  /\ IF owed
     THEN /\ pass' = [Idle EXCEPT !.at = "cleanup"]
          /\ disturbed' = (Ingesting # {})
     ELSE pass' = Idle /\ UNCHANGED disturbed
  /\ owed' = FALSE
  /\ UNCHANGED <<products, scans, findings, summary, imports, reports, matchFaults>>

PassStep ==
  \/ ReadStale \/ DeleteStale
  \/ \E m \in Matchers : PassRead(m) \/ PassWrite(m)
  \/ RebuildLatestPackageVulnerabilitySummaries \/ EndPass

IngestStep(s) ==
  \/ \E m \in Matchers : IngestRead(s, m) \/ IngestWrite(s, m)
  \/ RebuildPackageVulnerabilitySummariesForScan(s)
  \/ CompleteScan(s)

NextFindings ==
  \/ ImportSource
  \/ \E s \in ScanIds : Report(s) \/ Rescan(s) \/ IngestStep(s) \/ PruneScan(s)
  \/ \E s \in ScanIds, m \in Matchers : IngestMatchFails(s, m)
  \/ PassStep \/ PassStepFails

FindingsSpec == InitFindings /\ [][NextFindings]_findingVars

-----------------------------------------------------------------------------
(* Nothing is going on, and the last pass was either left alone or its rescan has
   been reported. *)
AtRest ==
  /\ pass.at = "idle"
  /\ Ingesting = {}
  /\ disturbed => ~rescan

(* What the matcher should have found is there, and what it has found is still
   supported. *)
Current(s) ==
  /\ \A m \in Matchers : Matches(m, scans[s].packages) \subseteq Of(s)
  /\ \A f \in findings : f.scan = s /\ f.from = "cve-db" => Compatible(f.pair, Sources)
  /\ {x \in summary : x[1] = s} = {s} \X Of(s)

(* Once things are at rest the latest scan's findings and their summary are those
   of the present database, unless its own matching failed, for which it is
   marked degraded.  A report that overlaps an import, a pass that fails in the
   middle and a scan pruned under a pass are made good by the rescan. *)
FindingsAreCurrent ==
  AtRest /\ Latest # 0 /\ ~scans[Latest].degraded => Current(Latest)

=============================================================================

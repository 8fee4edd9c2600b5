--------------------------- MODULE MCServerState ---------------------------
(* Parts of the server that keep state of their own and do not meet each      *)
(* other, checked in one run: `part` says which of them moves.                *)
EXTENDS VulnAnalyzer, BundleCache, Findings, VersionCompare, MCMatching,
        StatsCache, Migrations, OIDCKeys, ServerMatch

VARIABLE part

stateVars == <<part, allVars, bundleVars, findingVars, versionVars, matchVars,
               statsVars, migrationVars, oidcVars, serverMatchVars>>

\* Up to three of 0 1 a ~ - for dpkg, of 1 a ~ ^ - for rpm, of 1 .0 a _p _rc for
\* apk, and of 1 .1 - rc R preview for the others.
VersionPieces ==
    "debian" :> {<<48>>, <<49>>, <<97>>, <<126>>, <<45>>} @@
    "rhel" :> {<<49>>, <<97>>, <<126>>, <<94>>, <<45>>} @@
    "alpine" :> {<<49>>, <<46, 48>>, <<97>>, <<95, 112>>, <<95, 114, 99>>} @@
    "generic" :> {<<49>>, <<46, 49>>, <<45>>, <<114, 99>>, <<82>>,
                  <<112, 114, 101, 118, 105, 101, 119>>}
MCVersions ==
    [f \in DOMAIN VersionPieces |-> {FlattenSeq(p) : p \in SeqOf(VersionPieces[f], 3)}]

\* The advisories matched by name are about libraries, those of the NVD about all.
MCAbout == [s \in Sources |-> IF s = Nvd THEN Packages ELSE Libraries]

\* One token has run out before the other's key can be withdrawn.
SomeJWTs == {[kid |-> 1, signed |-> TRUE, ours |-> TRUE, from |-> 0, exp |-> 9],
             [kid |-> 2, signed |-> TRUE, ours |-> TRUE, from |-> 1, exp |-> 2]}

\* Two versions of a package and another container; a name that two targets
\* have; a package that cannot be matched.
Matched(n, t, g) == [name |-> n, target |-> t, group |-> g]
SomeLists == {<<Matched("a", "x", 1), Matched("a", "x", 1), Matched("b", "y", 2)>>,
              <<Matched("a", "x", 1), Matched("a", "y", 1)>>,
              <<Matched("a", "x", Groupless)>>}

MCKnows == "old" :> 2 @@ "new" :> 3

\* The same two stand for the administrators, the builders of bundles, the
\* requests with a token and the calls that match: only one part moves.
Alike == Permutations(Admins)
ASSUME AlikeAssumption == Admins = Builders /\ Admins = Bearers /\ Admins = MatchCalls

MCInit ==
    /\ part \in {"approvals", "analysis", "bundle", "findings", "versions", "matching",
                "stats", "migrations", "tokens", "scans"}
    /\ InitAnalyzer /\ InitBundleCache /\ InitVersions /\ InitFindings
    /\ InitStatsCache /\ InitMigrations /\ InitOIDCKeys
    \* The parts that stand still start in one state.
    /\ part # "analysis" => \A f \in Findings : facts[f] = "plain"
    /\ part # "bundle" => trivy = 0
    /\ part # "findings" => \A key \in Cves \X Sources : products[key] = {}
    /\ part # "versions" => family = "debian"
    /\ part # "migrations" => before = 0
    /\ \/ part = "matching"
       \/ part # "matching" /\ intervals = <<>> /\ nvd = NoAdvisory
    /\ IF part = "scans" THEN InitServerMatch
       ELSE inUse = 0 /\ match = [m \in MatchCalls |-> StartOf(<<Matched("a", "x", Groupless)>>)]
    /\ InitMatching

\* While the analyzer is at work there is one approval, one fault or change of the
\* facts, and one administrator who decides: the queue by itself is another part.
Busy == {a \in Admins : request[a] # NoRequest}

MCNext ==
    /\ UNCHANGED part
    /\ \/ /\ part = "approvals" /\ Next
          /\ UNCHANGED <<analyzerVars, bundleVars, findingVars, versionVars, matchVars,
                         statsVars, migrationVars, oidcVars, serverMatchVars>>
       \/ /\ part = "analysis" /\ NextAnalyzer
          /\ made' <= 1 /\ Cardinality(Busy') <= 1 /\ changes' + left' + failures' >= 2
          /\ UNCHANGED <<bundleVars, findingVars, versionVars, matchVars,
                         statsVars, migrationVars, oidcVars, serverMatchVars>>
       \/ /\ part = "bundle" /\ NextBundleCache
          /\ UNCHANGED <<allVars, findingVars, versionVars, matchVars,
                         statsVars, migrationVars, oidcVars, serverMatchVars>>
       \/ /\ part = "findings" /\ NextFindings
          /\ UNCHANGED <<allVars, bundleVars, versionVars, matchVars,
                         statsVars, migrationVars, oidcVars, serverMatchVars>>
       \/ /\ part = "versions" /\ NextVersions
          /\ UNCHANGED <<allVars, bundleVars, findingVars, matchVars,
                         statsVars, migrationVars, oidcVars, serverMatchVars>>
       \/ /\ part = "matching" /\ NextMatching
          /\ UNCHANGED <<allVars, bundleVars, findingVars, versionVars,
                         statsVars, migrationVars, oidcVars, serverMatchVars>>
       \/ /\ part = "stats" /\ NextStatsCache
          /\ UNCHANGED <<allVars, bundleVars, findingVars, versionVars,
                         matchVars, migrationVars, oidcVars, serverMatchVars>>
       \/ /\ part = "migrations" /\ NextMigrations
          /\ UNCHANGED <<allVars, bundleVars, findingVars, versionVars,
                         matchVars, statsVars, oidcVars, serverMatchVars>>
       \/ /\ part = "tokens" /\ NextOIDCKeys
          /\ UNCHANGED <<allVars, bundleVars, findingVars, versionVars,
                         matchVars, statsVars, migrationVars, serverMatchVars>>
       \/ /\ part = "scans" /\ NextServerMatch
          /\ UNCHANGED <<allVars, bundleVars, findingVars, versionVars,
                         matchVars, statsVars, migrationVars, oidcVars>>

MCSpec == MCInit /\ [][MCNext]_stateVars
=============================================================================

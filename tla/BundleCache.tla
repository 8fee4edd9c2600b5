----------------------------- MODULE BundleCache -----------------------------
(***************************************************************************)
(* The bundles that carry the security database to another server: the     *)
(* cache of pre-built ones (internal/server/api/secdb_bundle_cache.go),    *)
(* the export that serves them, and the builder that both share            *)
(* (internal/server/api/cvedb.go).                                         *)
(*                                                                         *)
(* A bundle is the pair of the CVE revision it was written from and the    *)
(* Trivy database in it.  The size kept in a description is compared with  *)
(* the file's, so different bundles are taken to have different sizes.     *)
(***************************************************************************)
EXTENDS Naturals, FiniteSets

CONSTANTS
    Builders,    \* the goroutines that build: exports, and the rebuilds after a recalculation
    MaxCveRev,   \* bound: the CVE database changes while its revision is below it
    BundleFaults \* bound: crashes and failing file operations together

ASSUME BundleCacheAssumption == MaxCveRev \in Nat /\ BundleFaults \in Nat

VARIABLES
    cve,     \* the revision of the CVE tables
    trivy,   \* the Trivy database that ArchiveBytes finds: 0 for none
    data,    \* per variant, the bundle file of the cache
    meta,    \* per variant, its description
    builder, \* the builds
    storing, \* the builders that hold the lock of the cache
    download,  \* one download from the cache
    bfaults  \* how many more faults there may be

cacheVars  == <<data, meta, storing>>
bundleVars == <<cve, trivy, cacheVars, builder, download, bfaults>>

Revs == 0..MaxCveRev
Variants == {"cve-only", "with-trivy"}

Bundle == [cve: Revs, trivy: 0..1]
Absent == [cve |-> 0, trivy |-> 2]     \* there is no such file
\* size stands for the bundle that the description was written for.
Meta == [revision: Revs, size: Bundle]
NoMeta == [revision |-> 0, size |-> Absent]

NoBuild == [pc |-> "idle", variant |-> "cve-only", bundle |-> Absent, label |-> 0]
Build == [pc: {"idle", "content", "trivy", "label", "store", "data", "meta"},
          variant: Variants, bundle: Bundle \cup {Absent}, label: Revs]

NoDownload == [pc |-> "idle", variant |-> "cve-only", meta |-> NoMeta,
               file |-> Absent, overtaken |-> FALSE]

BundleCacheTypeOK ==
    /\ cve \in Revs
    /\ trivy \in 0..1
    /\ data \in [Variants -> Bundle \cup {Absent}]
    /\ meta \in [Variants -> Meta \cup {NoMeta}]
    /\ builder \in [Builders -> Build]
    /\ storing \in SUBSET Builders
    /\ download \in [pc: {"idle", "meta", "stat", "serving"}, variant: Variants,
                   meta: Meta \cup {NoMeta}, file: Bundle \cup {Absent}, overtaken: BOOLEAN]
    /\ bfaults \in 0..BundleFaults

InitBundleCache ==
    /\ cve = 0
    /\ trivy \in 0..1
    /\ data = [v \in Variants |-> Absent] /\ meta = [v \in Variants |-> NoMeta]
    /\ builder = [b \in Builders |-> NoBuild] /\ storing = {}
    /\ download = NoDownload
    /\ bfaults = BundleFaults

BundleFault == bfaults > 0 /\ bfaults' = bfaults - 1

\* An import commits.
CveCommit ==
    /\ cve < MaxCveRev /\ cve' = cve + 1
    /\ UNCHANGED <<trivy, cacheVars, builder, download, bfaults>>

\* A Trivy database is loaded, or the one that was moved away for a moment is
\* back (TrivyDatabase).  Bound: it then stays.
TrivyChanges ==
    /\ trivy = 0 /\ trivy' = 1
    /\ UNCHANGED <<cve, cacheVars, builder, download, bfaults>>

----------------------------------------------------------------------------
(* Builds: buildSecurityDBBundleTemp, for an export that found nothing to  *)
(* serve, or for rebuildSecdbBundleCache.                                  *)

\* get's conditions, on a description and a file.
Usable(m, f, revision) == m # NoMeta /\ m.revision = revision /\ f = m.size

\* rebuildSecdbBundleCache, unless the entry is current; the other is built by
\* exports only.
BeginRebuild(b) ==
    /\ builder[b] = NoBuild
    /\ ~Usable(meta["cve-only"], data["cve-only"], cve)
    /\ builder' = [builder EXCEPT ![b].pc = "content"]
    /\ UNCHANGED <<cve, trivy, cacheVars, download, bfaults>>

\* handleSecurityDbExport without a usable entry.
BeginExport(b, v) ==
    /\ builder[b] = NoBuild
    /\ ~Usable(meta[v], data[v], cve)
    /\ builder' = [builder EXCEPT ![b].pc = "content", ![b].variant = v]
    /\ UNCHANGED <<cve, trivy, cacheVars, download, bfaults>>

BuildGoes(b, from, to) == builder[b].pc = from /\ builder' = [builder EXCEPT ![b] = to]

\* writeCveJSONLTemp: the records.
WriteContent(b) ==
    /\ BuildGoes(b, "content", [builder[b] EXCEPT !.pc = "trivy",
                                   !.bundle = [cve |-> cve, trivy |-> 0]])
    /\ UNCHANGED <<cve, trivy, cacheVars, download, bfaults>>

\* ArchiveBytes, which takes no lock: a database moved away meanwhile is left out.
ArchiveTrivy(b) ==
    /\ BuildGoes(b, "trivy", [builder[b] EXCEPT !.pc = "label",
           !.bundle.trivy = IF builder[b].variant = "with-trivy" THEN trivy ELSE 0])
    /\ UNCHANGED <<cve, trivy, cacheVars, download, bfaults>>

\* The revision for the description: the rebuild takes the one of the manifest,
\* the export one read later still.
ReadLabel(b) ==
    /\ BuildGoes(b, "label", [builder[b] EXCEPT !.pc = "store", !.label = cve])
    /\ UNCHANGED <<cve, trivy, cacheVars, download, bfaults>>

\* The build fails, or the caller goes away.
BuildFails(b) ==
    /\ builder[b].pc \in {"content", "trivy", "label"}
    /\ BundleFault
    /\ builder' = [builder EXCEPT ![b] = NoBuild]
    /\ UNCHANGED <<cve, trivy, cacheVars, download>>

\* store takes the lock.
BeginStore(b) ==
    /\ storing = {}
    /\ BuildGoes(b, "store", [builder[b] EXCEPT !.pc = "data"])
    /\ storing' = {b}
    /\ UNCHANGED <<cve, trivy, data, meta, download, bfaults>>

\* The copy is renamed to the data file.
StoreData(b) ==
    /\ BuildGoes(b, "data", [builder[b] EXCEPT !.pc = "meta"])
    /\ data' = [data EXCEPT ![builder[b].variant] = builder[b].bundle]
    /\ download' = [download EXCEPT !.overtaken =
            @ \/ (download.pc = "stat" /\ download.variant = builder[b].variant)]
    /\ UNCHANGED <<cve, trivy, meta, storing, bfaults>>

\* ... and the description to its place.
StoreMeta(b) ==
    /\ BuildGoes(b, "meta", NoBuild)
    /\ meta' = [meta EXCEPT ![builder[b].variant] =
                    [revision |-> builder[b].label, size |-> builder[b].bundle]]
    /\ storing' = storing \ {b}
    /\ UNCHANGED <<cve, trivy, data, download, bfaults>>

\* A file cannot be copied, written or renamed: store returns, and what has been
\* renamed so far stays.
StoreFails(b) ==
    /\ builder[b].pc \in {"data", "meta"}
    /\ BundleFault
    /\ builder' = [builder EXCEPT ![b] = NoBuild]
    /\ storing' = storing \ {b}
    /\ UNCHANGED <<cve, trivy, data, meta, download>>

----------------------------------------------------------------------------
(* A download from the cache takes no lock.                                *)

\* get: the description.
ReadMeta(v) ==
    /\ download.pc = "idle"
    /\ meta[v] # NoMeta /\ meta[v].revision = cve
    /\ download' = [NoDownload EXCEPT !.pc = "meta", !.variant = v, !.meta = meta[v]]
    /\ UNCHANGED <<cve, trivy, cacheVars, builder, bfaults>>

\* Mutant: the file's size is not looked at.
StatAnything ==
    /\ download.pc = "meta"
    /\ download' = IF data[download.variant] # Absent
                 THEN [download EXCEPT !.pc = "stat"] ELSE NoDownload
    /\ UNCHANGED <<cve, trivy, cacheVars, builder, bfaults>>

\* get: the size of the file.
StatData ==
    /\ download.pc = "meta"
    /\ download' = IF data[download.variant] = download.meta.size
                 THEN [download EXCEPT !.pc = "stat"] ELSE NoDownload
    /\ UNCHANGED <<cve, trivy, cacheVars, builder, bfaults>>

\* handleSecurityDbExport opens the file, and what it has opened stays.
OpenData ==
    /\ download.pc = "stat"
    /\ download' = [download EXCEPT !.pc = "serving", !.file = data[download.variant]]
    /\ UNCHANGED <<cve, trivy, cacheVars, builder, bfaults>>

DownloadEnds ==
    /\ download.pc = "serving"
    /\ download' = NoDownload
    /\ UNCHANGED <<cve, trivy, cacheVars, builder, bfaults>>

\* The server stops and starts again: what is on disk stays.
CrashBundleCache ==
    /\ BundleFault
    /\ builder' = [b \in Builders |-> NoBuild] /\ storing' = {}
    /\ download' = NoDownload
    /\ UNCHANGED <<cve, trivy, data, meta>>

BuildStep(b) ==
    \/ WriteContent(b) \/ ArchiveTrivy(b) \/ ReadLabel(b) \/ BuildFails(b)
    \/ BeginStore(b) \/ StoreData(b) \/ StoreMeta(b) \/ StoreFails(b)

NextBundleCache ==
    \/ CveCommit
    \/ TrivyChanges
    \/ \E b \in Builders : BeginRebuild(b) \/ BuildStep(b)
    \/ \E b \in Builders, v \in Variants : BeginExport(b, v)
    \/ \E v \in Variants : ReadMeta(v)
    \/ StatData \/ OpenData \/ DownloadEnds
    \/ CrashBundleCache

BundleCacheSpec == InitBundleCache /\ [][NextBundleCache]_bundleVars

----------------------------------------------------------------------------
\* secdb_bundle_cache.go:19-21 and :83-84: a download that is served from the
\* cache is the bundle its description was written for, whatever crash or
\* failure fell between the two renames and however builders overlap; only a
\* store between the download's looking at the file and opening it mixes the two.
ServedIsDescribed ==
    download.pc = "serving" => download.file = download.meta.size \/ download.overtaken

\* Two stores never mix their files: with no store under way, the description
\* is the file's, but for a store that broke off or was cut short.
PairsAgree ==
    \A v \in Variants :
        (\A b \in Builders : builder[b].pc # "meta") /\ bfaults = BundleFaults
            => meta[v].size = data[v]

\* secdb_bundle_cache.go:16-18, "each entry records the security DB revision it
\* was built from so a stale bundle is never served after a sync/import": the
\* records served are not older than the revision they are served for.
NoStaleBundle ==
    download.pc = "serving" => download.file.cve >= download.meta.revision

\* The first two: the cache hands out what it says it does.
CacheIsSound == ServedIsDescribed /\ PairsAgree
=============================================================================

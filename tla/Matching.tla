------------------------------- MODULE Matching -------------------------------
(***************************************************************************)
(* Whether a row of the CVE database is about an installed package.  It is  *)
(* decided twice: SQL picks the candidates by the affected-package index,   *)
(* and Go looks at each of them again.  A package that either layer drops   *)
(* has no finding, so the two have to normalise ecosystems alike and to     *)
(* accept the same evidence of a fix.                                       *)
(*                                                                         *)
(* All packages and products of the model have one name.  An ecosystem is   *)
(* its lower-case name with or without a release ("alpine", "alpine:v3.21").*)
(* A version is an upstream number with or without an epoch; how upstream   *)
(* versions compare is VersionCompare's subject.                            *)
(***************************************************************************)
EXTENDS Integers, Sequences, FiniteSets, SequencesExt, TLC

CONSTANTS Entries,     \* the entries that imports bring
          MaxUpserts,  \* bounds them
          Intervals,   \* the sequences of intervals that ranges are made of
          NvdProducts, \* the products of the NVD's advisories
          Installed    \* the versions installed

VARIABLES row,       \* one row of cve_database
          upserts,   \* how many entries it was made of
          intervals, \* the intervals of one range
          nvd        \* a product of an advisory of the NVD

matchVars == <<row, upserts, intervals, nvd>>

-----------------------------------------------------------------------------
(* Versions.  compareVersions drops the epoch of the advisory when the scanner
   reported none. *)
NoEpoch == -1
V(epoch, up) == [epoch |-> epoch, up |-> up]
EpochOf(v) == IF v.epoch = NoEpoch THEN 0 ELSE v.epoch

CompareVersions(a, b) ==
  LET bEpoch == IF a.epoch = NoEpoch THEN 0 ELSE EpochOf(b)
  IN IF EpochOf(a) # bEpoch THEN EpochOf(a) - bEpoch ELSE a.up - b.up

Less(a, b) == CompareVersions(a, b) < 0

(* What may be in the place of a version: nothing, the "0" from which a range with
   no beginning is introduced, and a commit, a URL or a branch. *)
Nothing == V(-2, 0)
Always == V(-2, 1)
Commit == V(-2, 2)

(* isSafeFixedVersion. *)
Safe(v) == v # Commit

Event == [introduced |-> Nothing, fixed |-> Nothing, last |-> Nothing, limit |-> Nothing]

(* Mutant: a range stays open behind its fix. *)
PassedStaysOpen(found) == "open"

(* What a range is when the installed version is not below the event. *)
Passed(found) == "closed"

(* versionInRange goes through the events; "yes" and "no" are its early returns. *)
Introduce(v, ev, found) ==
  IF found \in {"yes", "no"} \/ ev.introduced = Nothing THEN found
  ELSE IF ev.introduced # Always /\ Less(v, ev.introduced) THEN "closed" ELSE "open"

Fix(v, ev, found) ==
  IF found # "open" \/ ev.fixed = Nothing THEN found
  ELSE IF ~Safe(ev.fixed) THEN "no"
  ELSE IF Less(v, ev.fixed) THEN "yes" ELSE Passed(found)

LastAffected(v, ev, found) ==
  IF found # "open" \/ ev.last = Nothing THEN found
  ELSE IF CompareVersions(v, ev.last) <= 0 THEN "yes" ELSE Passed(found)

Limit(v, ev, found) ==
  IF found # "open" \/ ev.limit = Nothing THEN found
  ELSE IF Less(v, ev.limit) THEN "yes" ELSE Passed(found)

After(v, ev, found) == Limit(v, ev, LastAffected(v, ev, Fix(v, ev, Introduce(v, ev, found))))

(* What it has found before the first event and after each of them. *)
FoundAfter(v, events) ==
  LET found[n \in 0..Len(events)] ==
        IF n = 0 THEN "closed" ELSE After(v, events[n], found[n - 1])
  IN found

VersionInRange(v, events) == FoundAfter(v, events)[Len(events)] \in {"yes", "open"}

FixesOf(r) == {r[i].fixed : i \in DOMAIN r} \ {Nothing}
SafeFixes(p) == {f \in Range(p.fixed) : Safe(f)}
FixedVersions(p) ==
  SafeFixes(p) \cup {f \in UNION {FixesOf(r) : r \in p.ranges} : Safe(f)}

VersionIsAffected(v, p) ==
  IF p.ranges # {} THEN \E r \in p.ranges : VersionInRange(v, r)
  ELSE Cardinality(SafeFixes(p)) = 1 /\ \A f \in SafeFixes(p) : Less(v, f)

-----------------------------------------------------------------------------
(* Ecosystems. *)
NoEcosystem == [name |-> "", release |-> FALSE]
Eco(name) == [name |-> name, release |-> FALSE]

(* The tables of the two layers.  Go's switch leaves out what its default returns
   as it is. *)
Aliases ==
  [eco \in {"pypi", "npm", "go", "rubygems", "crates.io", "maven", "packagist"} |->
       CASE eco = "pypi" -> {"python", "python-pkg", "pip", "poetry"}
         [] eco = "npm" -> {"node", "node-pkg", "javascript", "yarn", "pnpm"}
         [] eco = "go" -> {"golang", "gomod", "gobinary"}
         [] eco = "rubygems" -> {"ruby", "gem"}
         [] eco = "crates.io" -> {"rust", "cargo", "rustbinary"}
         [] eco = "maven" -> {"jar"}
         [] eco = "packagist" -> {"composer"}]

Families ==
  [family \in {"debian", "ubuntu", "alpine", "rhel", "suse", "wolfi", "azurelinux"} |->
       CASE family = "debian" -> {"debian", "deb"}
         [] family = "ubuntu" -> {"ubuntu"}
         [] family = "alpine" -> {"alpine", "apk"}
         [] family = "rhel" -> {"redhat", "red hat", "red hat enterprise linux", "rhel", "centos",
                                "rocky", "rocky linux", "almalinux", "alma", "amazon",
                                "amazon linux", "oracle linux", "rpm"}
         [] family = "suse" -> {"suse", "opensuse"}
         [] family = "wolfi" -> {"wolfi", "chainguard"}
         [] family = "azurelinux" -> {"azure linux", "azurelinux", "cbl-mariner"}]

AliasesSQL ==
  [eco \in {"pypi", "npm", "go", "rubygems", "crates.io", "maven", "packagist", "nuget"} |->
       CASE eco = "pypi" -> {"python", "python-pkg", "pip", "poetry", "pypi"}
         [] eco = "npm" -> {"node", "node-pkg", "javascript", "npm", "yarn", "pnpm"}
         [] eco = "go" -> {"golang", "gomod", "gobinary", "go"}
         [] eco = "rubygems" -> {"ruby", "gem", "rubygems"}
         [] eco = "crates.io" -> {"rust", "cargo", "rustbinary", "crates.io"}
         [] eco = "maven" -> {"jar", "maven"}
         [] eco = "packagist" -> {"composer", "packagist"}
         [] eco = "nuget" -> {"nuget"}]

(* Mutant: Amazon's advisories keep a family of their own. *)
FamiliesWithoutAmazon == [Families EXCEPT !["rhel"] = @ \ {"amazon linux"}]

FamiliesSQL ==
  [family \in {"debian", "ubuntu", "alpine", "rhel", "suse", "wolfi", "azurelinux"} |->
       CASE family = "debian" -> {"debian", "deb"}
         [] family = "ubuntu" -> {"ubuntu"}
         [] family = "alpine" -> {"alpine", "apk"}
         [] family = "rhel" -> {"redhat", "red hat", "red hat enterprise linux", "rhel", "centos",
                                "rocky", "rocky linux", "almalinux", "alma", "amazon",
                                "amazon linux", "oracle linux", "rpm"}
         [] family = "suse" -> {"suse", "opensuse"}
         [] family = "wolfi" -> {"wolfi", "chainguard"}
         [] family = "azurelinux" -> {"azure linux", "azurelinux", "cbl-mariner"}]

(* The whole name is looked up first, and then the part before the release. *)
Under(aliases, families, eco) ==
  LET alias == {c \in DOMAIN aliases : ~eco.release /\ eco.name \in aliases[c]}
      family == {c \in DOMAIN families : eco.name \in families[c]}
  IN IF alias # {} THEN Eco(CHOOSE c \in alias : TRUE)
     ELSE IF family # {} THEN Eco(CHOOSE c \in family : TRUE) ELSE eco

NormalizeEcosystem(eco) == Under(Aliases, Families, eco)
NormalizeEcosystemSQL(eco) == Under(AliasesSQL, FamiliesSQL, eco)

OSEcosystems ==
  {"debian", "ubuntu", "alpine", "red hat", "redhat", "rhel", "centos", "rocky", "alma",
   "amazon", "suse", "opensuse", "almalinux", "amazon linux", "wolfi", "chainguard",
   "rocky linux", "oracle linux", "azure linux", "azurelinux", "cbl-mariner", "openeuler",
   "mageia", "android"}
CodeEcosystems ==
  {"pypi", "npm", "go", "maven", "crates.io", "nuget", "rubygems", "packagist", "hex", "pub"}
OSTypes ==
  {"debian", "ubuntu", "deb", "alpine", "apk", "redhat", "centos", "rocky", "alma", "amazon",
   "rpm", "suse", "wolfi"}
CodeTypes ==
  {"python-pkg", "pip", "poetry", "node-pkg", "npm", "yarn", "pnpm", "gomod", "go", "gobinary",
   "golang", "jar", "maven", "cargo", "rustbinary", "composer", "gem", "nuget"}

IsOSEcosystem(eco) == eco.name \in OSEcosystems

PackageCategory(type, eco) ==
  IF IsOSEcosystem(eco) THEN "os-package"
  ELSE IF ~eco.release /\ eco.name \in CodeEcosystems THEN "code-library"
  ELSE IF type \in OSTypes THEN "os-package"
  ELSE IF type \in CodeTypes THEN "code-library" ELSE ""

(* The ecosystem that the scanners give a package of each type.  Runtimes have
   the name of an NVD product there. *)
EcosystemForType ==
  [t \in {"debian", "deb"} |-> "debian"] @@ "ubuntu" :> "ubuntu" @@
  [t \in {"alpine", "apk"} |-> "alpine"] @@
  [t \in {"redhat", "centos", "rocky", "alma", "almalinux", "amazon", "oracle", "rpm", "rhel"}
     |-> "rhel"] @@
  [t \in {"python-pkg", "pip", "poetry", "pypi"} |-> "pypi"] @@
  [t \in {"node-pkg", "npm", "yarn", "pnpm"} |-> "npm"] @@
  [t \in {"gomod", "go", "gobinary", "golang"} |-> "go"] @@
  [t \in {"jar", "maven"} |-> "maven"] @@
  [t \in {"cargo", "rustbinary"} |-> "crates.io"] @@
  "composer" :> "packagist" @@ "gem" :> "rubygems" @@ "nuget" :> "nuget" @@ "wolfi" :> ""

RuntimeProducts == {"python", "nodejs", "jdk", "go", "ruby", "php"}

Scanned ==
  {[type |-> t, eco |-> Eco(EcosystemForType[t])] : t \in DOMAIN EcosystemForType} \cup
  {[type |-> "runtime", eco |-> Eco(p)] : p \in RuntimeProducts}

-----------------------------------------------------------------------------
(* The rows.  products is the sequence of affected products of an entry. *)
NoRow == [category |-> "", eco |-> NoEcosystem, products |-> {}]

(* ClassifySecuritySource goes by the first product; the source is osv. *)
Classified(e) ==
  LET eco == IF e.products = <<>> THEN NoEcosystem ELSE e.products[1].eco
  IN IF e.category # "" /\ e.eco # NoEcosystem THEN <<e.category, e.eco>>
     ELSE IF eco = NoEcosystem THEN <<"code-library", NoEcosystem>>
     ELSE IF IsOSEcosystem(eco) THEN <<"os-package", eco>> ELSE <<"code-library", eco>>

(* upsertCveEntriesTx, ON CONFLICT: the affected products are merged, category
   and ecosystem are those of the entry unless it has none. *)
UpsertCveEntry(e) ==
  /\ upserts < MaxUpserts
  /\ upserts' = upserts + 1
  /\ row' = [category |-> Classified(e)[1],
             eco |-> IF Classified(e)[2] # NoEcosystem THEN Classified(e)[2] ELSE row.eco,
             products |-> row.products \cup Range(e.products)]
  /\ UNCHANGED <<intervals, nvd>>

EffectiveEco(p) == IF p.eco = NoEcosystem THEN row.eco ELSE p.eco

(* compatibleSecurityCandidate, for one product of the row. *)
CompatibleProduct(pkg, v, p) ==
  LET eco == NormalizeEcosystem(EffectiveEco(p))
      category == IF row.category \in {"", "general-cve"} THEN PackageCategory("", eco)
                  ELSE row.category
  IN /\ eco # NoEcosystem
     /\ FixedVersions(p) # {}
     /\ VersionIsAffected(v, p)
     /\ category # "" /\ PackageCategory(pkg.type, pkg.eco) = category
     /\ pkg.eco # NoEcosystem /\ NormalizeEcosystem(pkg.eco) = eco

CompatibleSecurityCandidate(pkg, v) == \E p \in row.products : CompatibleProduct(pkg, v, p)

(* cveAffectedPackageFixedVersionSQL: a single fix, or else that of a range. *)
FixedEvidenceSQL(p) ==
  \/ Len(p.fixed) = 1 /\ Safe(p.fixed[1])
  \/ \E r \in p.ranges : \E f \in FixesOf(r) : Safe(f)

(* The rows of cve_affected_packages, by their ecosystem. *)
CveAffectedPackages ==
  {NormalizeEcosystemSQL(EffectiveEco(p)) :
     p \in {q \in row.products : EffectiveEco(q) # NoEcosystem /\ FixedEvidenceSQL(q)}}

PackageEcosystemSQL(pkg) ==
  NormalizeEcosystemSQL(IF pkg.eco = NoEcosystem THEN Eco(pkg.type) ELSE pkg.eco)

Candidate(pkg) == PackageEcosystemSQL(pkg) \in CveAffectedPackages

-----------------------------------------------------------------------------
(* The entries. *)

IsEcosystem(eco) == eco = [name |-> eco.name, release |-> eco.release] /\ eco.release \in BOOLEAN

(* The importers list the fixes of a range once more beside it, and without ranges
   a single fix or several versions. *)
OneEvidence(p) ==
  IF p.ranges = {} THEN Cardinality(SafeFixes(p)) = 1 => Len(p.fixed) = 1
  ELSE SafeFixes(p) \subseteq UNION {FixesOf(r) : r \in p.ranges}

(* A range is a sequence of intervals, of which only the last may be open; a commit
   bounds nothing, and what is behind it is not looked at. *)
Version == [epoch : Nat \cup {NoEpoch}, up : Int]
IntervalSet == [from : Version \cup {Always}, by : {"fixed", "last", "limit"},
             to : Version \cup {Nothing, Commit}]
OnlyTheLastIsOpen(s) ==
  \A k \in 1..Len(s) : s[k].to \notin Version =>
     k = Len(s) /\ (s[k].to = Commit => s[k].by = "fixed")

ASSUME MatchingAssumption ==
  /\ MaxUpserts \in Nat
  /\ \A e \in Entries :
        /\ IsEcosystem(e.eco)
        /\ e.products \in Seq(Range(e.products))
        /\ \A p \in Range(e.products) :
              IsEcosystem(p.eco) /\ p.fixed \in Seq(Range(p.fixed)) /\ OneEvidence(p)
  /\ \A s \in Intervals : s \in Seq(IntervalSet) /\ OnlyTheLastIsOpen(s)
  /\ Installed \subseteq Version

-----------------------------------------------------------------------------
(* Runtimes are matched by the product of the NVD's advisories. *)
CpeNormProduct(s) ==
  CASE s \in {"nodejs", "node.js", "node"} -> "nodejs"
    [] s \in {"jdk", "jre", "openjdk", "java", "java_se"} -> "jdk"
    [] s \in {"go", "golang"} -> "go"
    [] OTHER -> s

CpeRuntimeVendors ==
  "python" :> {"python", "python_software_foundation"} @@
  "nodejs" :> {"nodejs", "node.js"} @@
  "jdk" :> {"oracle", "sun", "eclipse", "adoptium", "azul", "ibm", "redhat", "red_hat",
            "amazon", "bellsoft", "sap", "temurin", "openjdk"} @@
  "go" :> {"golang", "google"} @@
  "ruby" :> {"ruby-lang", "ruby"} @@
  "php" :> {"php", "php_group"}

CpeVendorCompatible(product, vendor) ==
  \/ vendor = ""
  \/ CpeNormProduct(product) \notin DOMAIN CpeRuntimeVendors
  \/ vendor \in CpeRuntimeVendors[CpeNormProduct(product)]

(* Without bounds only an exact version counts. *)
CpeVersionAffected(v, a) ==
  IF a.from = Nothing /\ a.to = Nothing
  THEN a.exact # Nothing /\ CompareVersions(v, a.exact) = 0
  ELSE /\ a.from # Nothing => ~Less(v, a.from)
       /\ a.to # Nothing => IF a.toIncluded THEN CompareVersions(v, a.to) <= 0 ELSE Less(v, a.to)

CompatibleCPECandidate(product, v, a) ==
  /\ CpeNormProduct(product) = CpeNormProduct(a.product)
  /\ CpeVendorCompatible(product, a.vendor)
  /\ CpeVersionAffected(v, a)

CpeProductVariants(product) ==
  CASE product \in {"nodejs", "node", "node.js"} -> {"nodejs", "node.js", "node"}
    [] product \in {"jdk", "jre", "openjdk", "java"} -> {"jdk", "jre", "openjdk", "java", "java_se"}
    [] product \in {"go", "golang"} -> {"go", "golang"}
    [] OTHER -> {product}

-----------------------------------------------------------------------------
NoAdvisory == [product |-> "", vendor |-> "", exact |-> Nothing, from |-> Nothing,
               to |-> Nothing, toIncluded |-> FALSE]

(* One thing at a time: a row that is made of entries, a range or an advisory. *)
InitMatching ==
  /\ row = NoRow /\ upserts = 0
  /\ \/ intervals = <<>> /\ nvd = NoAdvisory
     \/ intervals \in Intervals /\ nvd = NoAdvisory
     \/ intervals = <<>> /\ nvd \in NvdProducts

NextMatching == intervals = <<>> /\ nvd = NoAdvisory /\ \E e \in Entries : UpsertCveEntry(e)

MatchingSpec == InitMatching /\ [][NextMatching]_matchVars

-----------------------------------------------------------------------------
(* What Go accepts, SQL lets through: for every package that the scanners report
   and every advisory, whichever way its ecosystem is spelled and its fixes are
   listed, and for every runtime. *)
FiltersMissNothing ==
  /\ row # NoRow =>
       \A pkg \in Scanned, v \in Installed : CompatibleSecurityCandidate(pkg, v) => Candidate(pkg)
  /\ nvd # NoAdvisory =>
       \A product \in RuntimeProducts, v \in Installed :
         CompatibleCPECandidate(product, v, nvd) => nvd.product \in CpeProductVariants(product)

(* The reference for versionInRange.  The events of an interval are listed one by
   one, or its two bounds in one object. *)
Starting(i) == [Event EXCEPT !.introduced = i.from]
Ending(i) == [Event EXCEPT ![i.by] = i.to]
Bounds(i) == IF i.to = Nothing THEN Starting(i) ELSE [Starting(i) EXCEPT ![i.by] = i.to]

InOneObject(s) == [k \in 1..Len(s) |-> Bounds(s[k])]
OneByOne(s) ==
  [n \in 1..(2 * Len(s) - (IF s[Len(s)].to = Nothing THEN 1 ELSE 0)) |->
     IF n % 2 = 1 THEN Starting(s[(n + 1) \div 2]) ELSE Ending(s[n \div 2])]

(* An epoch that the scanner left out is taken to be the advisory's. *)
Order(v, bound) ==
  LET epoch == IF v.epoch = NoEpoch THEN EpochOf(bound) ELSE v.epoch
  IN IF epoch # EpochOf(bound) THEN epoch - EpochOf(bound) ELSE v.up - bound.up

Inside(v, i) ==
  /\ i.from = Always \/ Order(v, i.from) >= 0
  /\ i.to # Commit
  /\ i.to = Nothing \/ Order(v, i.to) < 0 \/ (i.by = "last" /\ Order(v, i.to) = 0)

RangesMeanIntervals ==
  intervals # <<>> => \A v \in Installed :
    LET inside == \E k \in DOMAIN intervals : Inside(v, intervals[k])
    IN /\ VersionInRange(v, OneByOne(intervals)) <=> inside
       /\ VersionInRange(v, InOneObject(intervals)) <=> inside

=============================================================================

------------------------------ MODULE MCMatching ------------------------------
(* Finite instances of Matching. *)
EXTENDS Matching

SomeVersions == {V(NoEpoch, 1), V(NoEpoch, 3), V(0, 2), V(1, 1)}
SomeInstalled == {V(NoEpoch, u) : u \in 0..3} \cup {V(1, u) : u \in 0..2} \cup {V(0, 2)}

\* What the registries call their ecosystems, with and without a release.
Spellings ==
    {[name |-> n, release |-> r] :
        n \in UNION {Families[f] : f \in DOMAIN Families} \cup {"openeuler"}, r \in BOOLEAN} \cup
    {Eco(n) : n \in CodeEcosystems \cup UNION {Aliases[a] : a \in DOMAIN Aliases}}

Product(eco, fixed, ranges) == [eco |-> eco, fixed |-> fixed, ranges |-> ranges]

\* The OSV importer lists the fixes of all ranges once more in "fixed".
FixedAt(v) == <<[Event EXCEPT !.introduced = Always], [Event EXCEPT !.fixed = v]>>
Backported == <<[Event EXCEPT !.introduced = Always], [Event EXCEPT !.fixed = V(NoEpoch, 1)],
                [Event EXCEPT !.introduced = V(NoEpoch, 2)], [Event EXCEPT !.fixed = V(NoEpoch, 3)]>>
UpTo(v) == <<[Event EXCEPT !.introduced = Always], [Event EXCEPT !.last = v]>>

Evidence(eco) ==
    {Product(eco, <<V(NoEpoch, 3)>>, {}), Product(eco, <<Commit>>, {}), Product(eco, <<>>, {}),
     Product(eco, <<V(NoEpoch, 1), V(NoEpoch, 3)>>, {}),
     Product(eco, <<V(1, 2)>>, {FixedAt(V(1, 2))}),
     Product(eco, <<V(NoEpoch, 1), V(NoEpoch, 3)>>, {Backported}),
     Product(eco, <<Commit, V(NoEpoch, 3)>>, {FixedAt(Commit), FixedAt(V(NoEpoch, 3))}),
     Product(eco, <<Commit>>, {FixedAt(Commit)}),
     Product(eco, <<>>, {UpTo(V(NoEpoch, 2))})}

Entry(category, eco, products) == [category |-> category, eco |-> eco, products |-> products]
Osv(products) == Entry("", NoEcosystem, products)

\* Every ecosystem with one fix, two of them with every evidence, and entries that
\* say what they are about themselves.
SomeEntries ==
    {Osv(<<Product(eco, <<V(NoEpoch, 3)>>, {})>>) : eco \in Spellings} \cup
    {Osv(<<p>>) : p \in Evidence(Eco("pypi")) \cup Evidence([name |-> "debian", release |-> TRUE])} \cup
    {Entry(c, eco, <<Product(NoEcosystem, <<V(NoEpoch, 3)>>, {})>>) :
        c \in {"", "os-package", "general-cve"}, eco \in {NoEcosystem, Eco("alpine")}}

Interval(from, by, to) == [from |-> from, by |-> by, to |-> to]
Starts == {Always} \cup SomeVersions
OfVersions == {Interval(f, by, t) : f \in Starts, by \in {"fixed", "last", "limit"}, t \in SomeVersions}
Open == {Interval(f, "fixed", Nothing) : f \in Starts}
SomeIntervals ==
    {<<i, j>> : i \in OfVersions, j \in OfVersions \cup Open} \cup {<<i>> : i \in Open} \cup
    {<<Interval(Always, "fixed", Commit)>>}

\* The NVD's names are those that cpeProductVariants knows, and one of neither list.
Nvds(products, vendors) ==
    {[product |-> p, vendor |-> vendor, exact |-> exact, from |-> Nothing, to |-> to, toIncluded |-> inc] :
        p \in products, vendor \in vendors, exact \in {Nothing, V(NoEpoch, 1)},
        to \in {Nothing, V(NoEpoch, 2)}, inc \in BOOLEAN}
SomeNvd ==
    Nvds({"python", "nodejs", "node.js", "node", "jdk", "jre", "openjdk", "java", "java_se",
          "go", "golang", "ruby", "php", "curl"}, {"", "microsoft"})
===============================================================================

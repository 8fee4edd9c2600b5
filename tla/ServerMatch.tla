----------------------------- MODULE ServerMatch -----------------------------
(***************************************************************************)
(* The matching that the server does itself for a report without findings  *)
(* (internal/server/cvematch/matcher.go, called by handleReport): the      *)
(* packages are grouped by asset and type, each group goes through one run *)
(* of Trivy, of which few may run at a time, and what Trivy names is       *)
(* brought back to the packages by target and name.                        *)
(*                                                                         *)
(* One CVE for each name is enough: two packages of a name meet at it.     *)
(***************************************************************************)
EXTENDS Integers, Sequences, FiniteSets

CONSTANTS
    MatchCalls,   \* the calls of handleReport that match
    PackageLists, \* what they may have to match: [name, target, group]
    Permits       \* the capacity of the semaphore

Groupless == 0    \* the group of a package without a name or a version
NoPackage == 0

ASSUME ServerMatchAssumption ==
    /\ Permits \in Nat \ {0}
    /\ \A list \in PackageLists :
         /\ Len(list) \in Nat /\ DOMAIN list = 1..Len(list)
         /\ \A i \in DOMAIN list : list[i].group \in Nat

VARIABLES
    inUse,  \* the permits that are taken
    match   \* the calls

serverMatchVars == <<inUse, match>>

\* The packages of a group keep the order of the report.
In(m, g) == {i \in DOMAIN match[m].packages : match[m].packages[i].group = g}
GroupsOf(packages) == {packages[i].group : i \in DOMAIN packages} \ {Groupless}

StartOf(packages) ==
    [step |-> "group", packages |-> packages, groups |-> GroupsOf(packages),
     lost |-> {}, found |-> {}, stored |-> {}, skipped |-> 0, errors |-> FALSE,
     cancelled |-> FALSE]

ServerMatchTypeOK ==
    /\ inUse \in 0..Permits
    /\ \A m \in MatchCalls :
         /\ match[m].step \in {"group", "run", "insert", "done"}
         /\ match[m].packages \in PackageLists
         /\ match[m].groups \cup match[m].lost \subseteq GroupsOf(match[m].packages)
         /\ match[m].stored \subseteq match[m].found
         /\ match[m].skipped \in Nat
         /\ match[m].errors \in BOOLEAN /\ match[m].cancelled \in BOOLEAN

InitServerMatch ==
    /\ inUse = 0
    /\ match \in [MatchCalls -> {StartOf(packages) : packages \in PackageLists}]

Becomes(m, call) == match' = [match EXCEPT ![m] = call]

-----------------------------------------------------------------------------
Highest(s) == CHOOSE i \in s : \A j \in s : j <= i
NextGroup(m) == CHOOSE g \in match[m].groups : \A h \in match[m].groups : g <= h

\* acquire
AcquirePermit(m) ==
    /\ match[m].step = "group" /\ match[m].groups # {}
    /\ inUse < Permits /\ inUse' = inUse + 1
    /\ Becomes(m, [match[m] EXCEPT !.step = "run"])

Loses(m) == [match[m] EXCEPT !.step = "group",
                             !.groups = match[m].groups \ {NextGroup(m)},
                             !.lost = match[m].lost \cup {NextGroup(m)}]

\* Its SBOM cannot be written, or the request is over before a permit is free.
GroupGivenUp(m) ==
    /\ match[m].step = "group" /\ match[m].groups # {}
    /\ Becomes(m, Loses(m))
    /\ UNCHANGED inUse

\* It fails, takes more than a minute, or its request is over: the other
\* groups go on.
TrivyFails(m) ==
    /\ match[m].step = "run"
    /\ Becomes(m, Loses(m))
    /\ inUse' = inUse - 1

SameName(m, i) == {j \in In(m, NextGroup(m)) :
                     match[m].packages[j].name = match[m].packages[i].name}
SameKey(m, i) == {j \in SameName(m, i) :
                    match[m].packages[j].target = match[m].packages[i].target}

\* Mutant: an ambiguous name is given to the last package that has it.
AttributedAnyway(m, i, keepsTarget) ==
    IF keepsTarget THEN Highest(SameKey(m, i)) ELSE Highest(SameName(m, i))
\* The package that a vulnerability of package i is attributed to: the last of
\* its target and name, where Trivy's answer keeps the target, and otherwise
\* the one of its name, if there is one only.
Attributed(m, i, keepsTarget) ==
    IF keepsTarget THEN Highest(SameKey(m, i))
    ELSE IF Cardinality(SameName(m, i)) = 1 THEN i ELSE NoPackage

TrivyAnswers(m) ==
    /\ match[m].step = "run" /\ ~match[m].cancelled
    /\ \E reported \in SUBSET In(m, NextGroup(m)), keepsTarget \in BOOLEAN :
         Becomes(m, [match[m] EXCEPT
             !.step = "group",
             !.groups = match[m].groups \ {NextGroup(m)},
             !.found = match[m].found \cup
                       {[of |-> i, package |-> Attributed(m, i, keepsTarget)] : i \in reported}])
    /\ inUse' = inUse - 1

\* What was found is the answer, though groups may have failed; when nothing
\* was found, one that failed, or no group at all, makes it an error.
MatchReturns(m) ==
    /\ match[m].step = "group" /\ match[m].groups = {}
    /\ LET fails == /\ match[m].found = {}
                    /\ match[m].lost # {} \/ GroupsOf(match[m].packages) = {}
       IN Becomes(m, [match[m] EXCEPT !.step = IF fails THEN "done" ELSE "insert",
                                      !.errors = fails])
    /\ UNCHANGED inUse

Insertable(m) == {f \in match[m].found : f.package # NoPackage}

\* A finding without a package is skipped, and so is the second of a package
\* with one identifier.
InsertVulnerabilities(m) ==
    /\ match[m].step = "insert"
    /\ match[m].cancelled => Insertable(m) = {}
    /\ \E kept \in SUBSET Insertable(m) :
         /\ \A f, g \in kept : f.package = g.package => f = g
         /\ \A f \in Insertable(m) : \E g \in kept : f.package = g.package
         /\ Becomes(m, [match[m] EXCEPT
                !.step = "done", !.stored = kept,
                !.skipped = Cardinality(match[m].found) - Cardinality(kept)])
    /\ UNCHANGED inUse

InsertFails(m) ==
    /\ match[m].step = "insert" /\ Insertable(m) # {}
    /\ Becomes(m, [match[m] EXCEPT !.step = "done", !.errors = TRUE])
    /\ UNCHANGED inUse

\* The agent goes away.
AgentGoesAway(m) ==
    /\ match[m].step # "done" /\ ~match[m].cancelled
    /\ Becomes(m, [match[m] EXCEPT !.cancelled = TRUE])
    /\ UNCHANGED inUse

NextServerMatch ==
    \E m \in MatchCalls :
        \/ AcquirePermit(m) \/ GroupGivenUp(m) \/ TrivyFails(m) \/ TrivyAnswers(m)
        \/ MatchReturns(m) \/ InsertVulnerabilities(m) \/ InsertFails(m)
        \/ AgentGoesAway(m)

ServerMatchSpec == InitServerMatch /\ [][NextServerMatch]_serverMatchVars

-----------------------------------------------------------------------------
\* reportAuditStatus: the answer to the agent, and the audit, say "degraded".
Told(m) == match[m].skipped > 0 \/ match[m].errors

\* A permit is held by a run of Trivy and by nothing else, however the runs
\* end.  What is stored names a package of the same asset, name and target,
\* though Trivy does not know the packages; and of what the runs reported that
\* succeeded, nothing is missing without the report being degraded.  (The
\* runs that failed are not told of when another has found something.)
MatchIsAccountedFor ==
    /\ inUse = Cardinality({m \in MatchCalls : match[m].step = "run"})
    /\ \A m \in MatchCalls :
         LET packages == match[m].packages IN
         /\ \A f \in match[m].stored :
              /\ packages[f.package].group = packages[f.of].group
              /\ packages[f.package].name = packages[f.of].name
              /\ packages[f.package].target = packages[f.of].target
         /\ match[m].step = "done" /\ ~Told(m) =>
              /\ {f.of : f \in match[m].stored} = {f.of : f \in match[m].found}
              /\ match[m].lost # {} => match[m].found # {}
==============================================================================

---------------------------- MODULE AccessScopes ----------------------------
(***************************************************************************)
(* Which hosts a request may read or export: the access policies of        *)
(* internal/server/db/rbac.go, the administrators' requests that change    *)
(* them (internal/server/api/admin.go), and the scope that accessScope and *)
(* exportScope of internal/server/api/api.go compute for a request from    *)
(* the subjects it speaks for.                                             *)
(*                                                                         *)
(* A scope is the result of several queries, each of which sees the        *)
(* database of its own moment: the policies of a subject, then the hosts   *)
(* of the containers, of the images and of the asset groups they name.     *)
(***************************************************************************)
EXTENDS Naturals, FiniteSets

CONSTANTS
    Names,       \* the external ids subjects may have
    Hosts,       \* the hosts
    Container,   \* the name of a container,
    Image,       \* ... of its image,
    Owner,       \* ... and of an asset group
    Star,        \* the resource id "*", which UpsertAccessPolicy puts for none
    Offers,      \* bound: the resources and permissions policies are made for
    MaxPolicies, \* bound: the policies there are at once
    MaxChanges   \* bound: the changes while a scope is computed

ASSUME AccessScopesAssumption ==
    Star \notin Hosts \cup {Container, Image, Owner} /\ MaxPolicies \in Nat /\ MaxChanges \in Nat

VARIABLES
    subjects, \* access_subjects
    policies, \* access_policies
    runs,     \* the hosts whose latest scan has Container with Image
    owned,    \* the hosts of the asset group
    reader    \* the request whose scope is being computed

accessVars == <<subjects, policies, runs, owned, reader>>

Subject == [type: {"user", "group"}, name: Names]

\* What parseAccessSubjectRef makes of a reference: without a prefix it stands
\* for the subjects of either type.
Ref == [type: {"user", "group", "any"}, name: Names]
Means(ref, s) == ref.name = s.name /\ ref.type \in {"any", s.type}

Permissions == {"read", "write", "admin", "export"}
Resource ==
    ({"all", "cve_db"} \X {Star}) \cup ({"host"} \X (Hosts \cup {Star}))
        \cup ({"container"} \X {Container, Star}) \cup ({"image"} \X {Image, Star})
        \cup ({"asset_group"} \X {Owner, Star})
Policy == [subject: Subject, res: Resource, permission: Permissions]

\* handleUpsertAccessPolicy refuses any other type of resource and any other permission.
ASSUME OffersAssumption == Offers \subseteq Resource \X Permissions

\* refs: the subjects still to do; grants: what the policy query returned for
\* one of them, part: the hosts found for it; hosts and all: the scope so far;
\* changes: how many changes there were meanwhile; whole: no query has failed;
\* always and ever (history): what the tables held throughout, and what they
\* held at some moment, since it began.
Database == [policies: SUBSET Policy, runs: SUBSET Hosts, owned: SUBSET Hosts]
Reader == [pc: {"idle", "policies", "containers", "images", "groups", "done"},
           perms: {{"read", "admin"}, {"export", "admin"}},
           asked: SUBSET Ref, refs: SUBSET Ref, grants: SUBSET Resource,
           part: SUBSET Hosts, hosts: SUBSET Hosts, all: BOOLEAN, changes: 0..MaxChanges, whole: BOOLEAN,
           always: Database, ever: Database]
NoTables == [policies |-> {}, runs |-> {}, owned |-> {}]
NoReader == [pc |-> "idle", perms |-> {"read", "admin"}, asked |-> {}, refs |-> {},
             grants |-> {}, part |-> {}, hosts |-> {}, all |-> FALSE, changes |-> 0, whole |-> TRUE,
             always |-> NoTables, ever |-> NoTables]

AccessScopesTypeOK ==
    /\ subjects \in SUBSET Subject
    /\ policies \in SUBSET Policy
    /\ runs \in SUBSET Hosts /\ owned \in SUBSET Hosts
    /\ reader \in Reader

InitAccessScopes ==
    /\ subjects = {} /\ policies = {}
    /\ runs \in SUBSET Hosts /\ owned \in SUBSET Hosts
    /\ reader = NoReader

Reading == reader.pc \notin {"idle", "done"}

Tables == [policies |-> policies, runs |-> runs, owned |-> owned]
Both(D, E) == [table \in DOMAIN D |-> D[table] \cap E[table]]
Either(D, E) == [table \in DOMAIN D |-> D[table] \cup E[table]]

\* A change of the tables, counted while a scope is being computed.
Changes ==
    IF Reading
    THEN /\ reader.changes < MaxChanges
         /\ reader' = [reader EXCEPT !.changes = @ + 1, !.always = Both(@, Tables'),
                                     !.ever = Either(@, Tables')]
    ELSE reader' = NoReader

----------------------------------------------------------------------------
(* The administrators.                                                     *)

UpsertAccessSubject(s) ==
    /\ s \notin subjects
    /\ subjects' = subjects \cup {s}
    /\ UNCHANGED <<policies, runs, owned>> /\ Changes

\* The foreign key deletes the subject's policies with it.
DeleteAccessSubject(s) ==
    /\ s \in subjects
    /\ subjects' = subjects \ {s}
    /\ policies' = {p \in policies : p.subject # s}
    /\ UNCHANGED <<runs, owned>> /\ Changes

\* resolveAccessSubjectID: the one subject that the reference means.
UpsertAccessPolicy(ref, res, permission) ==
    /\ Cardinality(policies) < MaxPolicies
    /\ Cardinality({s \in subjects : Means(ref, s)}) = 1
    /\ \E s \in subjects :
        /\ Means(ref, s)
        /\ policies' = policies \cup {[subject |-> s, res |-> res, permission |-> permission]}
    /\ UNCHANGED <<subjects, runs, owned>> /\ Changes

DeleteAccessPolicy(p) ==
    /\ p \in policies
    /\ policies' = policies \ {p}
    /\ UNCHANGED <<subjects, runs, owned>> /\ Changes

\* A new latest scan of a host has the container, or no longer has it.
LatestScanChanges(h) ==
    /\ runs' = IF h \in runs THEN runs \ {h} ELSE runs \cup {h}
    /\ UNCHANGED <<subjects, policies, owned>> /\ Changes

\* The hosts of a static group.
AddHostToAssetGroup(h) ==
    /\ h \notin owned
    /\ owned' = owned \cup {h}
    /\ UNCHANGED <<subjects, policies, runs>> /\ Changes

RemoveHostFromAssetGroup(h) ==
    /\ h \in owned
    /\ owned' = owned \ {h}
    /\ UNCHANGED <<subjects, policies, runs>> /\ Changes

----------------------------------------------------------------------------
(* What the policies grant, policy by policy and host by host, with the    *)
(* tables of a given moment: the reference for the scope that the queries  *)
(* compute.                                                                *)

Covers(D, res, h) ==
    \/ res[1] = "all"
    \/ res = <<"host", h>>
    \/ res[1] \in {"container", "image"} /\ h \in D.runs
    \/ res = <<"asset_group", Star>>
    \/ res = <<"asset_group", Owner>> /\ h \in D.owned

Granted(D, refs, perms) ==
    {h \in Hosts : \E p \in D.policies : /\ \E ref \in refs : Means(ref, p.subject)
                                         /\ p.permission \in perms
                                         /\ Covers(D, p.res, h)}

----------------------------------------------------------------------------
(* The scope of a request.                                                 *)

\* accessScope (perms read, admin) and exportScope (export, admin) of a request
\* that is not an administrator's: viewerSubjects are those of its viewer key,
\* of its API token and of its trusted or OIDC identity.
BeginScope(refs, perms) ==
    /\ ~Reading /\ refs # {}
    /\ reader' = [NoReader EXCEPT !.pc = "policies", !.perms = perms, !.asked = refs,
                                   !.refs = refs, !.always = Tables, !.ever = Tables]
    /\ UNCHANGED <<subjects, policies, runs, owned>>

\* The resources of the policies of one subject with one of the permissions.
Grants(ref, perms) ==
    {p.res : p \in {q \in policies : Means(ref, q.subject) /\ q.permission \in perms}}

\* The resource ids of one type among them.
SubjectIds(grants, type) == {res[2] : res \in {g \in grants : g[1] = type}}

\* The scope of one subject is complete: MergeAccessScopes makes one of all.
Merge(r, part, all) ==
    [r EXCEPT !.pc = IF r.refs = {} \/ all THEN "done" ELSE "policies",
              !.grants = {}, !.part = {},
              !.all = all, !.hosts = IF all THEN {} ELSE r.hosts \cup part]

\* getAccessScopeForPermissions: the policies.  "all" ends the matter; a host
\* policy for "*" covers no host.
ReadPolicies ==
    /\ reader.pc = "policies"
    /\ \E ref \in reader.refs :
        LET grants == Grants(ref, reader.perms)
            left   == [reader EXCEPT !.refs = @ \ {ref}]
        IN  reader' = IF SubjectIds(grants, "all") # {} THEN Merge(left, {}, TRUE)
                      ELSE [left EXCEPT !.pc = "containers", !.grants = grants,
                                        !.part = SubjectIds(grants, "host") \cap Hosts]
    /\ UNCHANGED <<subjects, policies, runs, owned>>

\* hostIDsForContainerPolicies: by id or name, or every container for "*".
ResolveContainers ==
    /\ reader.pc = "containers"
    /\ reader' = [reader EXCEPT !.pc = "images",
                    !.part = @ \cup IF SubjectIds(reader.grants, "container") # {} THEN runs ELSE {}]
    /\ UNCHANGED <<subjects, policies, runs, owned>>

\* hostIDsForImagePolicies: by name, id or digest, or every image for "*".
ResolveImages ==
    /\ reader.pc = "images"
    /\ reader' = [reader EXCEPT !.pc = "groups",
                    !.part = @ \cup IF SubjectIds(reader.grants, "image") # {} THEN runs ELSE {}]
    /\ UNCHANGED <<subjects, policies, runs, owned>>

\* Mutant: the wildcard of asset groups covers the hosts of a group only.
GroupHostsNarrow(ids) == IF ids # {} THEN owned ELSE {}

\* hostIDsForAssetGroupPolicies: "*" is every host, in a group or not.
GroupHosts(ids) == IF Star \in ids THEN Hosts ELSE IF Owner \in ids THEN owned ELSE {}

ResolveGroups ==
    /\ reader.pc = "groups"
    /\ reader' = Merge(reader, reader.part \cup GroupHosts(SubjectIds(reader.grants, "asset_group")),
                       FALSE)
    /\ UNCHANGED <<subjects, policies, runs, owned>>

\* A query fails: the subject is skipped, whatever was found for it.
ScopeFails ==
    /\ reader.whole
    /\ \/ /\ reader.pc = "policies"
          /\ \E ref \in reader.refs :
                reader' = Merge([reader EXCEPT !.refs = @ \ {ref}, !.whole = FALSE], {}, FALSE)
       \/ /\ reader.pc \in {"containers", "images", "groups"}
          /\ reader' = Merge([reader EXCEPT !.whole = FALSE], {}, FALSE)
    /\ UNCHANGED <<subjects, policies, runs, owned>>

NextAccessScopes ==
    \/ \E s \in Subject : UpsertAccessSubject(s) \/ DeleteAccessSubject(s)
    \/ \E ref \in Ref, offer \in Offers : UpsertAccessPolicy(ref, offer[1], offer[2])
    \/ \E p \in policies : DeleteAccessPolicy(p)
    \/ \E h \in Hosts : \/ LatestScanChanges(h)
                       \/ AddHostToAssetGroup(h) \/ RemoveHostFromAssetGroup(h)
    \/ \E refs \in SUBSET Ref, perms \in {{"read", "admin"}, {"export", "admin"}} :
            BeginScope(refs, perms)
    \/ ReadPolicies \/ ResolveContainers \/ ResolveImages \/ ResolveGroups \/ ScopeFails

AccessScopesSpec == InitAccessScopes /\ [][NextAccessScopes]_accessVars

----------------------------------------------------------------------------
Scope == IF reader.all THEN Hosts ELSE reader.hosts

\* docs/requirements-audit.md:21, access by user and group to hosts, containers
\* and images: a scope is just what the policies of the request's subjects
\* grant.  One that changes overtook between its queries holds no host but those
\* granted by a policy there was at some moment meanwhile, to a container, image
\* or group that the host had at some moment; and all the hosts granted by what
\* there was throughout, unless a query failed.
ScopeIsGranted ==
    reader.pc = "done" =>
        /\ Scope \subseteq Granted(reader.ever, reader.asked, reader.perms)
        /\ reader.whole => Granted(reader.always, reader.asked, reader.perms) \subseteq Scope
=============================================================================

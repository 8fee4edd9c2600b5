-------------------------- MODULE MCServerRequests --------------------------
(* What the server does for agents, for people and for the host it runs on,   *)
(* checked in one run: `part` says which part moves.                          *)
EXTENDS MCReportDelivery, LocalUsers, Sessions, AccessScopes, TrivyDatabase,
        CveImport

VARIABLE part

requestVars == <<part, vars, userVars, sessionVars, accessVars, trivyVars, importVars>>

\* The kinds of reference, but for images, whose query has the same hosts as that
\* for containers; and the right to export.
ReadOffers == {<<"all", Star>>, <<"host", "h1">>, <<"container", Container>>,
               <<"asset_group", Owner>>}
AllOffers == (ReadOffers \X {"read"}) \cup {<<<<"asset_group", Star>>, "export">>}

\* Bound: the subjects of a request.  A listing speaks for two, an export, which
\* goes the same way, for one.
SubjectsOf(perms) == IF "read" \in perms THEN 2 ELSE 1

MCInit ==
    /\ part \in {"reports", "users", "sessions", "access", "trivy", "imports"}
    /\ Init /\ InitLocalUsers /\ InitSessions /\ InitAccessScopes
    /\ InitTrivyDatabase /\ InitCveImport
    \* The parts that stand still start in one state.
    /\ part # "access" => runs = {} /\ owned = {}
    /\ part # "trivy" => dir = None
    /\ part # "imports" => table = "affected" /\ rows = NoRows

MCNext ==
    /\ UNCHANGED part
    /\ \/ /\ part = "reports" /\ Next
          /\ UNCHANGED <<userVars, sessionVars, accessVars, trivyVars, importVars>>
       \/ /\ part = "users" /\ NextLocalUsers
          /\ UNCHANGED <<vars, sessionVars, accessVars, trivyVars, importVars>>
       \/ /\ part = "sessions" /\ NextSessions
          /\ UNCHANGED <<vars, userVars, accessVars, trivyVars, importVars>>
       \/ /\ part = "access" /\ NextAccessScopes
          /\ Cardinality(reader'.asked) <= SubjectsOf(reader'.perms)
          /\ UNCHANGED <<vars, userVars, sessionVars, trivyVars, importVars>>
       \/ /\ part = "trivy" /\ NextTrivyDatabase
          /\ UNCHANGED <<vars, userVars, sessionVars, accessVars, importVars>>
       \/ /\ part = "imports" /\ NextCveImport
          /\ UNCHANGED <<vars, userVars, sessionVars, accessVars, trivyVars>>

MCSpec == MCInit /\ [][MCNext]_requestVars
==============================================================================

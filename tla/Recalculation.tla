---------------------------- MODULE Recalculation ----------------------------
(***************************************************************************)
(* What recalculateSecurityFindings promises, without workers, passes and  *)
(* flags: findings may be brought up to date at any time while it is at    *)
(* work, and it comes to rest with a good conscience only when they        *)
(* reflect the database of the last request.  SecurityRecalc implements    *)
(* this.                                                                   *)
(***************************************************************************)
EXTENDS Naturals

VARIABLES
    db,        \* the revision of the database
    asked,     \* the revision at the latest request
    reflected, \* the revisions that the findings reflect
    busy,      \* it is at work
    clean      \* it has come to rest without a failure

Init ==
    /\ db = 0 /\ asked = 0
    /\ reflected = {0}
    /\ busy = FALSE /\ clean = FALSE

\* The database changes under it.
Change ==
    /\ db' = db + 1
    /\ UNCHANGED <<asked, reflected, busy, clean>>

\* A request, also while it is at work.
Ask ==
    /\ asked' = db
    /\ busy' = TRUE /\ clean' = FALSE
    /\ UNCHANGED <<db, reflected>>

\* Findings are recomputed, from any state of the database since.
Refresh ==
    /\ busy
    /\ reflected \subseteq reflected' /\ reflected' \subseteq 0..db
    /\ UNCHANGED <<db, asked, busy, clean>>

\* It rests: nothing asked for is left out, or it says that something failed.
Rest ==
    /\ busy /\ busy' = FALSE
    /\ clean' \in BOOLEAN
    /\ clean' => asked \in reflected
    /\ UNCHANGED <<db, asked, reflected>>

\* The server stops: what was asked for is forgotten.
Forget ==
    /\ busy' = FALSE /\ clean' = FALSE
    /\ UNCHANGED <<db, asked, reflected>>

Next == Change \/ Ask \/ Refresh \/ Rest \/ Forget

Spec == Init /\ [][Next]_<<db, asked, reflected, busy, clean>>
==============================================================================

---------------------------- MODULE MCAIApproval ----------------------------
(* Finite instances of AIApproval. *)
EXTENDS AIApproval, TLC

Symmetric == Permutations(Findings) \cup Permutations(Admins)
=============================================================================

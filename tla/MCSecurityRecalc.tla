-------------------------- MODULE MCSecurityRecalc --------------------------
(* Finite instances of SecurityRecalc. *)
EXTENDS SecurityRecalc, TLC

AnyFault     == {"database", "writer", "crash"}
WriterFaults == {"writer"}
=============================================================================

---------------------------- MODULE MCScanQueue ----------------------------
(* Finite instances of ScanQueue. *)
EXTENDS ScanQueue, TLC

TwoReqIds == 1..2
Symmetry == Permutations(Hosts)
============================================================================

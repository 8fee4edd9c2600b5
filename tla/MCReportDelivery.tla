-------------------------- MODULE MCReportDelivery --------------------------
(* Finite instances of ReportDelivery. *)
EXTENDS ReportDelivery, TLC

Faults(outage, cut, dberror, delete) ==
    "outage" :> outage @@ "cut" :> cut @@ "dberror" :> dberror @@ "delete" :> delete

SafetyBudget   == Faults(2, 1, 1, 1)
OutageBudget   == Faults(3, 0, 2, 0)
ReplayBudget   == Faults(2, 0, 0, 0)
CutBudget      == Faults(0, 1, 0, 0)
=============================================================================

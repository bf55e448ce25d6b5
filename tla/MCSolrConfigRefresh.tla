------------------------ MODULE MCSolrConfigRefresh ------------------------
(* Instances of SolrConfigRefresh for TLC: how many events each run allows. *)
EXTENDS SolrConfigRefreshProperties, TLC

Counts(f, c, u, e, s) ==
    [event \in Events |-> CASE event = "fault" -> f [] event = "crash" -> c
        [] event = "update" -> u [] event = "edit" -> e [] event = "restart" -> s]

SafetyBudget == Counts(2, 1, 2, 1, 1)
DriftBudget == Counts(1, 1, 1, 1, 1)
LivenessBudget == Counts(2, 1, 2, 0, 1)
ConvergenceBudget == Counts(1, 1, 1, 0, 1)

\* Budgets that no single one covers within reach of TLC: an edit of the conf
\* with few failures, or more failures without an edit.
ContestedInit == Settled /\ budget \in {DriftBudget, LivenessBudget}
ContestedSpec == ContestedInit /\ [][Next]_vars

RunSymmetry == Permutations(Runs)
=============================================================================

--------------------------- MODULE MCWorkExecutor ---------------------------
(***************************************************************************)
(* WorkExecutor on small instances.                                        *)
(***************************************************************************)
EXTENDS WorkExecutor, TLC

CONSTANTS w1, w2, s1, s2

Symmetry == Permutations(Threads) \cup Permutations(Sessions)

Plan(openLoop, timed, stopped, mode) ==
    [openLoop |-> openLoop, timed |-> timed, stopped |-> stopped, mode |-> mode]

PlainPlan == {Plan(FALSE, FALSE, FALSE, "none")}
AbortingPlan == {Plan(FALSE, FALSE, FALSE, "abort_after_headers")}

\* Each load model, each way to end and each fault mode once.
MixedPlans ==
    {Plan(FALSE, FALSE, FALSE, "abort_during_response"),
     Plan(TRUE, FALSE, TRUE, "connection_churn"),
     Plan(FALSE, TRUE, FALSE, "abort_after_headers")}
=============================================================================

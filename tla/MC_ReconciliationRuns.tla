------------------------ MODULE MC_ReconciliationRuns ------------------------
(***************************************************************************)
(* Instances of ReconciliationRuns: every transaction in a bank statement  *)
(* of its own; one request is a run, since nothing happens without one.    *)
(***************************************************************************)
EXTENDS ReconciliationRuns, TLC

CONSTANTS r1, r2, r3

OneEach == [t \in Transactions |-> t]

ARunAndTwoMore ==
  (r1 :> {"run"}) @@ (r2 :> {"run", "remove", "override"}) @@ (r3 :> AllOps)

OnlyRuns == [r \in Requests |-> {"run"}]
=============================================================================

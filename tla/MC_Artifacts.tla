---------------------------- MODULE MC_Artifacts ----------------------------
(***************************************************************************)
(* Instances of Artifacts: two generations with a download, or any others  *)
(* with at most one generation.                                            *)
(***************************************************************************)
EXTENDS Artifacts, Integers, FiniteSets, TLC

Count(plan, ops) == Cardinality({r \in Requests : plan[r] \in ops})

FewGenerations ==
  {plan \in [Requests -> AllOps] :
     \/ Count(plan, {"generate"}) <= 1
     \/ Count(plan, {"generate"}) = 2 /\ Count(plan, TemplateOps) = 0}

RequestSymmetry == Permutations(Requests)
=============================================================================

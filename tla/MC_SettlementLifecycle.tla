----------------------- MODULE MC_SettlementLifecycle -----------------------
(***************************************************************************)
(* Instances of SettlementLifecycle: ann is treasurer and president, ben   *)
(* the auditor of the organization, cho an auditor of another organization *)
(* of the college, dan a student member.                                   *)
(***************************************************************************)
EXTENDS SettlementLifecycle, TLC

CONSTANTS ann, ben, cho, dan

MCUsers == {ann, ben, cho, dan}

MCHolders ==
  [student |-> {dan}, treasurer |-> {ann}, president |-> {ann},
   auditor |-> {ben}]

MCCollegeAuditors == {ben, cho}

OneAuditor == {ben}

AuditTrailOps == {"submit", "resubmit", "approve", "reject", "publish"}

RequestSymmetry == Permutations(Requests)
=============================================================================

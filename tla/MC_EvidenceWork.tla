-------------------------- MODULE MC_EvidenceWork --------------------------
(***************************************************************************)
(* Instances of EvidenceWork.                                              *)
(***************************************************************************)
EXTENDS EvidenceWork, TLC

ReviewOutcomes == {"extracting", "confirmed"}

RequestSymmetry == Permutations(Requests)
=============================================================================

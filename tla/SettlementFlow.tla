--------------------------- MODULE SettlementFlow ---------------------------
(***************************************************************************)
(* What a settlement promises its readers: the state machine drawn in the  *)
(* docstring of services/settlement_lifecycle.py, with the three           *)
(* timestamps of lines 14-17 reduced to "set" or "not set".                *)
(*                                                                         *)
(* Nothing here knows of requests, snapshots or commits.                   *)
(* SettlementLifecycle is the detailed specification: it leaves this one   *)
(* where commits overlap and only there (LeavesFlowOnlyByOverlap).         *)
(***************************************************************************)

VARIABLES
  status,      \* settlements.status
  submitted,   \* settlements.submitted_at IS NOT NULL
  audited,     \* settlements.audited_at IS NOT NULL
  published    \* settlements.published_at IS NOT NULL

flowVars == <<status, submitted, audited, published>>

Init ==
  /\ status = "draft"
  /\ submitted = FALSE
  /\ audited = FALSE
  /\ published = FALSE

Submit ==
  /\ status = "draft"
  /\ status' = "submitted"
  /\ submitted' = TRUE
  /\ audited' = FALSE
  /\ UNCHANGED published

Audit(verdict) ==
  /\ status \in {"submitted", "resubmitted"}
  /\ status' = verdict
  /\ audited' = TRUE
  /\ UNCHANGED <<submitted, published>>

Resubmit ==
  /\ status = "rejected"
  /\ status' = "resubmitted"
  /\ submitted' = TRUE
  /\ audited' = FALSE
  /\ UNCHANGED published

Publish ==
  /\ status = "approved"
  /\ ~published
  /\ published' = TRUE
  /\ UNCHANGED <<status, submitted, audited>>

Next ==
  \/ Submit
  \/ \E verdict \in {"approved", "rejected"} : Audit(verdict)
  \/ Resubmit
  \/ Publish

Spec == Init /\ [][Next]_flowVars

=============================================================================

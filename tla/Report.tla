------------------------------- MODULE Report -------------------------------
(***************************************************************************)
(* What a reconciliation run writes, seen from outside: rows that pair     *)
(* evidences E with bank transactions T, none of either twice, with rows   *)
(* of their own for those that stay alone.  Matching is shown to produce   *)
(* such a report; ReconciliationRuns inserts an arbitrary one.             *)
(***************************************************************************)

IsReport(rows, E, T, null) ==
  /\ rows \subseteq ((E \cup {null}) \X (T \cup {null})) \ {<<null, null>>}
  /\ \A e \in E : \E row \in rows : row[1] = e
  /\ \A t \in T : \E row \in rows : row[2] = t
  /\ \A a, b \in rows :
       /\ a[1] = b[1] /\ a[1] # null => a = b
       /\ a[2] = b[2] /\ a[2] # null => a = b

=============================================================================

--------------------------- MODULE StatusContract ---------------------------
(***************************************************************************)
(* What the ClusterOperator API contract (config/v1/types_cluster_operator *)
(* .go) says of the status, stated for StatusSync, and the code does not   *)
(* meet.                                                                   *)
(***************************************************************************)
EXTENDS StatusSync

\* "A component must not report Degraded during the course of a normal
\* upgrade": a conflict on setStatusProgressing's write is returned by sync as
\* if the operands had failed, and Reconcile reports Degraded.
NotDegradedInUpgrade == ~Holds("Degraded", "True")

=============================================================================

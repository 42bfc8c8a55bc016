---------------------------- MODULE AtomicStatus ----------------------------
(***************************************************************************)
(* What the controllers promise about the shared ClusterOperator: its      *)
(* status only ever changes by one controller's update applied, in one     *)
(* step, to the status as it is.  No update is computed from an old status *)
(* and none overwrites what another controller has reported since.         *)
(***************************************************************************)
EXTENDS ClusterOperatorStatus

CONSTANT StatusAtStart

VARIABLES exists, status

Init ==
  \/ ~exists /\ status = EmptyStatus
  \/ exists /\ status \in StatusAtStart

Create ==
  /\ ~exists
  /\ exists' = TRUE
  /\ status' = EmptyStatus

Delete ==
  /\ exists
  /\ exists' = FALSE
  /\ status' = EmptyStatus

Report(update(_)) ==
  /\ exists
  /\ status' = update(status)
  /\ UNCHANGED exists

Next ==
  \/ Create
  \/ Delete
  \/ Report(setStatusDegraded)
  \/ Report(setStatusProgressing)
  \/ Report(setStatusAvailable)
  \/ Report(removeCloudControllerOwner)
  \/ Report(cloudConfigSetAvailable)
  \/ Report(cloudConfigSetDegraded)
  \/ Report(trustedCASetAvailable)
  \/ Report(trustedCASetDegraded)

Spec == Init /\ [][Next]_<<exists, status>>
=============================================================================

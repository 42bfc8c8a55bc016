---------------------------- MODULE MCStatusSync ----------------------------
(* Instances of StatusSync for TLC. *)
EXTENDS StatusContract

Stored(s) == [rv |-> CHOOSE t \in RV : TRUE, status |-> s]

\* A pod of the new release starts on what the old release left: everything
\* reported healthy, and the ownership condition still there.
Previous ==
  [setStatusAvailable(cloudConfigSetAvailable(trustedCASetAvailable(EmptyStatus)))
     EXCEPT !.version = "previous", !.conditions["CloudControllerOwner"] = "True"]

MCUpgrade == {Stored(Previous)}

\* A new cluster, before anyone has created the object.
MCInstall == {NoObject}
=============================================================================

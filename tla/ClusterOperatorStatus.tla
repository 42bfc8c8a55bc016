------------------------ MODULE ClusterOperatorStatus ------------------------
(***************************************************************************)
(* The status of the cloud-controller-manager ClusterOperator and the      *)
(* updates the three controllers make to it (pkg/controllers/status.go and *)
(* the set*Condition methods of the two sync controllers).                 *)
(*                                                                         *)
(* Every update is a function from the status that was read to the status  *)
(* that is sent back.  Messages, transition times and relatedObjects are   *)
(* left out; of the reasons only that of Progressing is kept, the one that *)
(* depends on what was read.                                               *)
(***************************************************************************)

CONSTANTS
  Version,         \* the values of the "operator" entry of status.versions
  NoVersion,       \* status.versions is empty
  ReleaseVersion   \* the RELEASE_VERSION of the running operator

ASSUME VersionAssumption ==
  /\ NoVersion \in Version
  /\ ReleaseVersion \in Version
  /\ ReleaseVersion # NoVersion

OperatorConditions == {"Available", "Progressing", "Degraded", "Upgradeable"}

CloudConfigConditions ==
  {"CloudConfigControllerAvailable", "CloudConfigControllerDegraded"}

TrustedCAConditions ==
  {"TrustedCABundleControllerControllerAvailable",
   "TrustedCABundleControllerControllerDegraded"}

ConditionType ==
  OperatorConditions \cup CloudConfigConditions \cup TrustedCAConditions
    \cup {"CloudControllerOwner"}

\* "Missing": the list of conditions has no entry of that type.
ConditionStatus == {"True", "False", "Missing"}

Reason == {"AsExpected", "SyncingResources"}

Status == [conditions : [ConditionType -> ConditionStatus],
           version    : Version,
           reason     : Reason]

\* The status of an object just created by getOrCreateClusterOperator.
EmptyStatus ==
  [conditions |-> [t \in ConditionType |-> "Missing"],
   version    |-> NoVersion,
   reason     |-> "AsExpected"]

setStatusDegraded(s) ==
  [s EXCEPT !.conditions = [@ EXCEPT !["Degraded"]    = "True",
                                     !["Upgradeable"] = "False"]]

setStatusProgressing(s) ==
  [s EXCEPT !.conditions = [@ EXCEPT !["Progressing"] = "True",
                                     !["Upgradeable"] = "True"],
            !.reason = IF s.version # ReleaseVersion
                       THEN "SyncingResources" ELSE "AsExpected"]

setStatusAvailable(s) ==
  [s EXCEPT !.conditions = [@ EXCEPT !["Available"]   = "True",
                                     !["Progressing"] = "False",
                                     !["Degraded"]    = "False",
                                     !["Upgradeable"] = "True"],
            !.reason  = "AsExpected",
            !.version = ReleaseVersion]

\* What clearCloudControllerOwnerCondition writes when the condition is there.
removeCloudControllerOwner(s) ==
  [s EXCEPT !.conditions = [@ EXCEPT !["CloudControllerOwner"] = "Missing"],
            !.version = ReleaseVersion]

cloudConfigSetAvailable(s) ==
  [s EXCEPT !.conditions =
              [@ EXCEPT !["CloudConfigControllerAvailable"] = "True",
                        !["CloudConfigControllerDegraded"]  = "False"],
            !.version = ReleaseVersion]

cloudConfigSetDegraded(s) ==
  [s EXCEPT !.conditions =
              [@ EXCEPT !["CloudConfigControllerAvailable"] = "False",
                        !["CloudConfigControllerDegraded"]  = "True"],
            !.version = ReleaseVersion]

trustedCASetAvailable(s) ==
  [s EXCEPT !.conditions =
      [@ EXCEPT !["TrustedCABundleControllerControllerAvailable"] = "True",
                !["TrustedCABundleControllerControllerDegraded"]  = "False"],
            !.version = ReleaseVersion]

trustedCASetDegraded(s) ==
  [s EXCEPT !.conditions =
      [@ EXCEPT !["TrustedCABundleControllerControllerAvailable"] = "False",
                !["TrustedCABundleControllerControllerDegraded"]  = "True"],
            !.version = ReleaseVersion]

(***************************************************************************)
(* The two questions CloudOperatorReconciler asks of a status it has read: *)
(* checkControllerConditions and isCloudControllersOwnedByCCM.             *)
(***************************************************************************)
DependantDegraded(s) ==
  \/ s.conditions["CloudConfigControllerDegraded"] = "True"
  \/ s.conditions["TrustedCABundleControllerControllerDegraded"] = "True"

DependantsAvailable(s) ==
  /\ s.conditions["CloudConfigControllerAvailable"] = "True"
  /\ s.conditions["TrustedCABundleControllerControllerAvailable"] = "True"

\* Mutants of checkControllerConditions: one available controller is enough;
\* a degraded one is not looked at.
checkControllerConditionsAny(s) ==
  CASE DependantDegraded(s) -> "error"
    [] ~DependantDegraded(s)
         /\ s.conditions["CloudConfigControllerAvailable"] = "True" -> "allowed"
    [] OTHER -> "wait"

checkControllerConditionsAvailable(s) ==
  IF DependantsAvailable(s) THEN "allowed" ELSE "wait"

\* "error": a controller is degraded; "allowed" and "wait": true and false.
checkControllerConditions(s) ==
  CASE DependantDegraded(s) -> "error"
    [] ~DependantDegraded(s) /\ DependantsAvailable(s) -> "allowed"
    [] OTHER -> "wait"

\* Both sync controllers report themselves available, and neither degraded.
GateOpen(s) == DependantsAvailable(s) /\ ~DependantDegraded(s)

OwnershipRecorded(s) == s.conditions["CloudControllerOwner"] # "Missing"

OwnedByCCM(s) == s.conditions["CloudControllerOwner"] = "True"
==============================================================================

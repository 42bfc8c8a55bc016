-------------------------- MODULE MCProcessInputs --------------------------
(* Small instances of ProcessInputs. *)
EXTENDS ProcessInputs

\* The operator.openshift.io group has two versions here, and the predicate drops
\* the group apps.
MCGroups ==
  [g \in {"", "config.openshift.io", "operator.openshift.io", "apps"} |->
     IF g = "operator.openshift.io" THEN {"v1", "v1alpha1"} ELSE {"v1"}]

\* A cluster with several control plane nodes, and a single node.
MCInfras ==
  {[type |-> "VSphere", stack |-> FALSE, single |-> FALSE],
   [type |-> "Azure", stack |-> FALSE, single |-> TRUE]}

\* No opinion, and profiles that are not the default; others come by a change.
MCAPIServers ==
  {[policy |-> "", profile |-> "Intermediate"], [policy |-> "Strict", profile |-> "Modern"],
   [policy |-> "Strict", profile |-> "CustomNil"]}

Components ==
  {"CloudControllerManagerOperator", "CloudControllerManagerVSphere",
   "CloudControllerManagerAzure", "CloudNodeManagerAzure"}

\* Two releases, the second without the image vSphere needs, and a file that
\* does not parse.
MCImages ==
  {[readable |-> TRUE, refs |-> [c \in Components |-> "1"]],
   [readable |-> TRUE,
    refs |-> [c \in Components |-> IF c = "CloudControllerManagerVSphere" THEN "" ELSE "2"]],
   [readable |-> FALSE, refs |-> << >>]}

MCProxies ==
  {[http |-> "", https |-> "", no |-> ""], [http |-> "h", https |-> "", no |-> "n"]}

MCWanted == {"", "config.openshift.io", "operator.openshift.io"}
=============================================================================

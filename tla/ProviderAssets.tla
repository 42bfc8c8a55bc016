--------------------------- MODULE ProviderAssets ---------------------------
(***************************************************************************)
(* The operands the operator makes of its config (pkg/cloud): the          *)
(* templates of the platform are rendered, proxy and replicas are          *)
(* substituted, and the common resources are appended.                     *)
(*                                                                         *)
(* A config has the platform's type, whether it is an Azure Stack Hub and  *)
(* whether the control plane is a single replica, the images (a function   *)
(* from component to image, "" for one the file does not name), the        *)
(* feature gates, the TLS settings and the Proxy.  The infrastructure name *)
(* is taken as given.  Objects are told apart by kind; a workload is what  *)
(* its template takes from the config.                                     *)
(***************************************************************************)
EXTENDS Naturals, Sequences

-----------------------------------------------------------------------------
(* The templates of the platforms *)

CCMLabel == "infrastructure.openshift.io/cloud-controller-manager"
NodeManagerLabel == "infrastructure.openshift.io/cloud-node-manager"

\* A cloud-controller-manager, with the images of its init containers and
\* whether its command line takes the upstream feature gates.
Deployment(image, inits, gated) ==
  [kind |-> "Deployment", label |-> CCMLabel, image |-> image, inits |-> inits,
   gated |-> gated, tls |-> TRUE, replicas |-> 2]

\* A cloud-node-manager serves nothing: no TLS settings, and no replicas.
DaemonSet(image, inits) ==
  [kind |-> "DaemonSet", label |-> NodeManagerLabel, image |-> image, inits |-> inits,
   gated |-> FALSE, tls |-> FALSE, replicas |-> 0]

\* Objects whose templates take nothing from the config.
Plain(kinds) == [i \in 1 .. Len(kinds) |-> [kind |-> kinds[i]]]

Operator == "CloudControllerManagerOperator"

\* What the NewProviderAssets of each platform renders.
aws ==
  <<Deployment("CloudControllerManagerAWS", << >>, FALSE)>>
    \o Plain(<<"ValidatingAdmissionPolicy", "ValidatingAdmissionPolicyBinding">>)

azure ==
  <<Deployment("CloudControllerManagerAzure", <<Operator>>, FALSE),
    DaemonSet("CloudNodeManagerAzure", <<Operator>>)>>
    \o Plain(<<"Role", "RoleBinding", "ClusterRole", "ClusterRoleBinding",
               "ValidatingAdmissionPolicy", "ValidatingAdmissionPolicyBinding",
               "ValidatingAdmissionPolicyBinding", "ValidatingAdmissionPolicy">>)

azurestack ==
  <<Deployment("CloudControllerManagerAzure", <<Operator>>, FALSE),
    DaemonSet("CloudNodeManagerAzure", <<Operator>>)>>
    \o Plain(<<"Role", "RoleBinding">>)

gcp ==
  <<Deployment("CloudControllerManagerGCP", << >>, FALSE)>>
    \o Plain(<<"ClusterRole", "ClusterRoleBinding", "ValidatingAdmissionPolicyBinding",
               "ValidatingAdmissionPolicy">>)

\* The public endpoint is for PowerVS, which has assets of its own: it is off.
ibm == <<Deployment("CloudControllerManagerIBM", << >>, FALSE)>>

nutanix ==
  <<Deployment("CloudControllerManagerNutanix", << >>, FALSE)>>
    \o Plain(<<"Role", "RoleBinding", "ClusterRole", "ClusterRoleBinding">>)

openstack == <<Deployment("CloudControllerManagerOpenStack", << >>, TRUE)>>

powervs == <<Deployment("CloudControllerManagerPowerVS", << >>, FALSE)>>

vsphere ==
  <<Deployment("CloudControllerManagerVSphere", << >>, TRUE)>>
    \o Plain(<<"Role", "RoleBinding", "RoleBinding", "ClusterRole", "ClusterRoleBinding",
               "ClusterRoleBinding">>)

HasAssets(config) ==
  config.type \in {"AWS", "Azure", "GCP", "IBMCloud", "OpenStack", "PowerVS", "VSphere", "Nutanix"}

getAssetsConstructor(config) ==
  CASE config.type = "AWS"       -> aws
    [] config.type = "Azure"     -> IF config.stack THEN azurestack ELSE azure
    [] config.type = "GCP"       -> gcp
    [] config.type = "IBMCloud"  -> ibm
    [] config.type = "OpenStack" -> openstack
    [] config.type = "PowerVS"   -> powervs
    [] config.type = "VSphere"   -> vsphere
    [] config.type = "Nutanix"   -> nutanix

-----------------------------------------------------------------------------
(* Rendering *)

IsWorkload(object) == object.kind \in {"Deployment", "DaemonSet"}

\* The images a platform needs: the required fields of its imagesReference.
RequiredImages(config) ==
  CASE config.type = "AWS"       -> {"CloudControllerManagerAWS"}
    [] config.type = "Azure"     -> {"CloudControllerManagerAzure", "CloudNodeManagerAzure", Operator}
    [] config.type = "GCP"       -> {"CloudControllerManagerGCP"}
    [] config.type = "IBMCloud"  -> {"CloudControllerManagerIBM"}
    [] config.type = "OpenStack" -> {"CloudControllerManagerOpenStack"}
    [] config.type = "PowerVS"   -> {"CloudControllerManagerPowerVS"}
    [] config.type = "VSphere"   -> {"CloudControllerManagerVSphere"}
    [] config.type = "Nutanix"   -> {"CloudControllerManagerNutanix"}

\* features.Enabled(VSphereMixedNodeEnv) panics when the gate is not registered.
ValuesPanic(config) == config.type = "VSphere" /\ config.gates = "bare"

render(template, config) ==
  IF ~IsWorkload(template) THEN template
  ELSE [kind |-> template.kind, label |-> template.label, platform |-> config.type,
        image |-> config.images[template.image],
        inits |-> [i \in 1 .. Len(template.inits) |-> config.images[template.inits[i]]],
        tls |-> IF template.tls THEN config.tls ELSE "unused",
        gates |-> IF template.gated THEN config.gates ELSE "unused",
        env |-> << >>, replicas |-> template.replicas]

\* NewProviderAssets, the same on every platform: the images are validated
\* before the template values are put together.  A platform without assets is
\* no error.
NewProviderAssets(config) ==
  IF ~HasAssets(config) THEN "ok"
  ELSE IF \E i \in RequiredImages(config) : config.images[i] = "" THEN "error"
  ELSE IF ValuesPanic(config) THEN "panic"
  ELSE "ok"

RenderTemplates(templates, config) ==
  [i \in 1 .. Len(templates) |-> render(templates[i], config)]

-----------------------------------------------------------------------------
(* Substitution and common resources *)

\* HTTP_PROXY, HTTPS_PROXY and NO_PROXY, as far as the Proxy's status has them.
getProxyArgs(proxy) ==
  SelectSeq(<<<<"HTTP_PROXY", proxy.http>>, <<"HTTPS_PROXY", proxy.https>>,
              <<"NO_PROXY", proxy.no>>>>, LAMBDA e : e[2] # "")

\* setProxySettings appends to the containers' environment, not to that of the
\* init containers.
setProxySettings(config, workload) ==
  [workload EXCEPT !.env = @ \o getProxyArgs(config.proxy)]

Substituted(config, object) ==
  IF ~IsWorkload(object) THEN object
  ELSE IF object.kind = "Deployment" /\ config.single
       THEN [setProxySettings(config, object) EXCEPT !.replicas = 1]
       ELSE setProxySettings(config, object)

SubstituteCommonPartsFromConfig(config, objects) ==
  [i \in 1 .. Len(objects) |-> Substituted(config, objects[i])]

getPDB(config) ==
  [kind |-> "PodDisruptionBudget", label |-> CCMLabel, platform |-> config.type, minAvailable |-> 1]

getService(config) == [kind |-> "Service", label |-> CCMLabel, platform |-> config.type]

\* Mutant of GetCommonResources: the budget is added for a single replica too.
CommonResourcesAlways(config) == <<getPDB(config), getService(config)>>

GetCommonResources(config) ==
  (IF config.single THEN << >> ELSE <<getPDB(config)>>) \o <<getService(config)>>

\* The objects when NewProviderAssets is ok; a platform without assets has none.
GetResources(config) ==
  IF ~HasAssets(config) THEN << >>
  ELSE SubstituteCommonPartsFromConfig(config,
         RenderTemplates(getAssetsConstructor(config), config)) \o GetCommonResources(config)
=============================================================================

--------------------------- MODULE ConfigPipeline ---------------------------
(***************************************************************************)
(* From the user's cloud config, the credentials and the trusted CAs to    *)
(* what the cloud controller manager runs with:                            *)
(*                                                                         *)
(*   source --Sync--> cloud-conf --Apply--> pod template --StartPod--> pod *)
(*   secret, bundle -------------^              (hash)       ^             *)
(*                                              mounts, injector           *)
(*                                                                         *)
(* Sync is the transforming part of the cloud config controller (module    *)
(* ConfigSync has its choice of the source and its races).  Apply is the   *)
(* hash of the related configs, which makes the Deployment roll; module    *)
(* WorkloadApply has the apply.  The pod is the newest of the Deployment:  *)
(* its files are mounted at its start and replaced by the kubelet later.   *)
(* The bundle is kept by the trusted CA controller, also in ConfigSync.    *)
(* On Azure the injector reads them, one after the other.                  *)
(***************************************************************************)
EXTENDS CredentialsInjector

CONSTANTS
  PlatformsOf,   \* the platforms: type and Azure cloud name
  SourcesOf(_),  \* cloud configs of a platform
  FeatureSets,   \* sets of enabled feature gates
  SecretsOf(_),  \* credentials Secrets of a platform: files and contents
  Bundles,       \* contents of the ConfigMap ccm-trusted-ca
  FirstBundle,   \* its content at the installation
  MaxChanges,    \* bound on changes of the four inputs
  MaxFaults      \* bound on failed reads and on restarts of pods and containers

ASSUME PipelineAssumption ==
  /\ MaxChanges \in Nat /\ MaxFaults \in Nat
  /\ \A p \in PlatformsOf : p.type \in {"AWS", "Azure", "OpenStack"}

\* A source of AWS: the overrides have names, the address families are a list.
IsAWSSource(s) ==
  /\ s.form \in {"empty", "unparsable", "ini"}
  /\ s.form = "ini" =>
       /\ DOMAIN s.overrides \subseteq Range(SectionNames) \ {"Global"}
       /\ "NodeIPFamilies" \in DOMAIN s.global => s.global["NodeIPFamilies"] \in Seq(STRING)

\* Not there yet.
None == << >>

ASSUME InputsAssumption ==
  /\ \A p \in PlatformsOf : IF p.type = "AWS" THEN \A s \in SourcesOf(p) : IsAWSSource(s)
                           ELSE None \notin SecretsOf(p)
  /\ FirstBundle \in Bundles /\ None \notin Bundles

\* No Deployment yet, and one whose pod template has no hash.
NoTemplate == [deployed |-> FALSE]
Hashless == << >>

VARIABLES
  platform, source, features, secret, bundle,
  cloudConf,  \* the ConfigMap cloud-conf
  reported,   \* CloudConfigControllerDegraded or ...Available
  template,   \* the pod template's hash of the related configs
  pod,        \* the newest pod
  syncedFrom, \* history: what cloud-conf was made from
  returned,   \* history: a content the newest pod's hash is of went and came back
  changes, faults

inputVars == <<platform, source, features, secret, bundle, changes>>
historyVars == <<syncedFrom, returned>>
vars == <<inputVars, cloudConf, reported, template, pod, historyVars, faults>>

\* The ConfigMaps and Secrets in the volumes of the Deployment; that of AWS has
\* no credentials.
Mounted ==
  {"cloud-conf", "ccm-trusted-ca"} \cup IF platform.type = "AWS" THEN {} ELSE {"credentials"}

Kind(name) == IF name = "credentials" THEN "Secret" ELSE "ConfigMap"

Related(name) ==
  CASE name = "cloud-conf" -> cloudConf
    [] name = "ccm-trusted-ca" -> bundle
    [] OTHER -> secret

-----------------------------------------------------------------------------
(* config-sync-controllers *)

\* A related config gets a content: whether it is the one the newest pod's hash
\* is of.
Record(name, content) ==
  returned' = (returned \/ (/\ pod # None /\ name \in DOMAIN pod.template
                            /\ pod.template[name] = content))

\* The reconcile from the transformer on.  A panic is recovered and retried.
Sync ==
  /\ \E outcome \in Transform(platform, source, features) :
       \/ outcome.result = "panic" /\ UNCHANGED <<cloudConf, reported, historyVars>>
       \/ /\ outcome.result = "error"
          /\ reported' = "degraded"
          /\ UNCHANGED <<cloudConf, historyVars>>
       \/ /\ outcome.result = "ok"
          /\ reported' = "available"
          /\ cloudConf' = outcome.conf
          /\ syncedFrom' = [source |-> source, features |-> features]
          /\ IF outcome.conf = cloudConf THEN UNCHANGED returned
             ELSE Record("cloud-conf", outcome.conf)
  /\ UNCHANGED <<inputVars, template, pod, faults>>

-----------------------------------------------------------------------------
(* The operator: config_hash.go *)

\* Mutant of collectRelatedConfigSources: Secrets are not looked for.
collectConfigMapsOnly == {n \in Mounted : Kind(n) = "ConfigMap"}

\* No container of these Deployments has a ConfigMap or Secret in its environment.
collectRelatedConfigSources == {n \in Mounted : Kind(n) \in {"ConfigMap", "Secret"}}

\* Mutant of calculateRelatedConfigsHash: BinaryData is hashed, which all leave empty.
calculateBinaryDataHash(names) == [n \in names |-> << >>]

\* No hash is set when a source is not there: the error is logged.
calculateRelatedConfigsHash(names) ==
  IF \E n \in names : Related(n) = None THEN Hashless ELSE [n \in names |-> Related(n)]

Apply ==
  /\ template' = calculateRelatedConfigsHash(collectRelatedConfigSources)
  /\ UNCHANGED <<inputVars, cloudConf, reported, pod, historyVars, faults>>

Fault == faults < MaxFaults /\ faults' = faults + 1

\* A read of a related config fails: the Deployment is applied without a hash.
ApplyUnread ==
  /\ Fault
  /\ template' = Hashless
  /\ UNCHANGED <<inputVars, cloudConf, reported, pod, historyVars>>

-----------------------------------------------------------------------------
(* The pod: kubelet, injector, cloud controller manager *)

unlessPod == <<inputVars, cloudConf, reported, template, syncedFrom>>

\* A pod is at a file of the injector, which only the Azure pods have, at the
\* start of the manager, or running.
Starting == Len(CredentialFiles) + 1
Running == Starting + 1
FirstStage == IF platform.type = "Azure" THEN 1 ELSE Starting

NewPod ==
  [template |-> template, stage |-> FirstStage, mounts |-> [n \in Mounted |-> Related(n)],
   files |-> << >>, config |-> None]

\* The Deployment rolls: a pod of the new template, with the contents of now.  A
\* pod whose volumes are not there waits for them.
StartPod ==
  /\ template # NoTemplate
  /\ \A n \in Mounted : Related(n) # None
  /\ pod # None => pod.template # template
  /\ pod' = NewPod /\ returned' = FALSE
  /\ UNCHANGED <<unlessPod, faults>>

\* The kubelet replaces the mounted files, all those of a volume at once.
Refresh(n) ==
  /\ pod # None /\ n \in Mounted /\ pod.mounts[n] # Related(n)
  /\ pod' = [pod EXCEPT !.mounts = [@ EXCEPT ![n] = Related(n)]]
  /\ UNCHANGED <<unlessPod, returned, faults>>

\* readSecretFile of the next credential; a missing client id ends the injector,
\* which is started again.
ReadFile ==
  /\ pod # None /\ pod.stage \in 1 .. Len(CredentialFiles)
  /\ LET file == CredentialFiles[pod.stage]
         found == pod.mounts["credentials"]
     IN  pod' = IF file \in DOMAIN found
                THEN [pod EXCEPT !.files = With(@, file, found[file]), !.stage = @ + 1]
                ELSE IF file = "azure_client_id" THEN pod
                     ELSE [pod EXCEPT !.stage = @ + 1]
  /\ UNCHANGED <<unlessPod, returned, faults>>

\* What a manager that starts with these settings runs with.
Config(mounts, settings) == [settings |-> settings, trust |-> mounts["ccm-trusted-ca"]]

\* The rest of mergeCloudConfig, and the start of the manager; other platforms
\* start with it, and it reads the files itself.
StartCCM ==
  /\ pod # None /\ pod.stage = Starting
  /\ pod' =
       IF platform.type # "Azure"
       THEN [pod EXCEPT !.stage = Running, !.config = Config(pod.mounts, pod.mounts)]
       ELSE IF Complete(pod.files)
       THEN [pod EXCEPT !.stage = Running,
               !.config = Config(pod.mounts, prepareCloudConfig(pod.mounts["cloud-conf"], pod.files,
                                                                ~IsAzureStackHub(platform)))]
       ELSE [pod EXCEPT !.stage = 1, !.files = << >>]
  /\ UNCHANGED <<unlessPod, returned, faults>>

\* The pod is replaced by another of the same template.
ReplacePod ==
  /\ pod # None /\ Fault
  /\ pod' = [NewPod EXCEPT !.template = pod.template]
  /\ returned' = FALSE
  /\ UNCHANGED unlessPod

\* The container of the manager restarts, which does not run the injector again.
RestartCCM ==
  /\ pod # None /\ pod.stage = Running /\ Fault
  /\ pod' = [pod EXCEPT !.config = Config(pod.mounts, IF platform.type = "Azure"
                                                      THEN pod.config.settings ELSE pod.mounts)]
  /\ UNCHANGED <<unlessPod, returned>>

-----------------------------------------------------------------------------
(* Users and the cloud credential operator *)

Change ==
  /\ changes < MaxChanges /\ changes' = changes + 1
  /\ UNCHANGED <<platform, cloudConf, reported, template, pod, syncedFrom, faults>>

ChangeSource(s) ==
  /\ s # source
  /\ Change
  /\ source' = s
  /\ UNCHANGED <<features, secret, bundle, returned>>

ChangeFeatures(f) ==
  /\ platform.type = "AWS" /\ f # features
  /\ Change
  /\ features' = f
  /\ UNCHANGED <<source, secret, bundle, returned>>

ChangeSecret(x) ==
  /\ x # secret
  /\ Change
  /\ secret' = x
  /\ Record("credentials", x)
  /\ UNCHANGED <<source, features, bundle>>

ChangeBundle(b) ==
  /\ b # bundle
  /\ Change
  /\ bundle' = b
  /\ Record("ccm-trusted-ca", b)
  /\ UNCHANGED <<source, features, secret>>

Init ==
  /\ platform \in PlatformsOf
  /\ source \in SourcesOf(platform) /\ secret \in SecretsOf(platform) /\ bundle = FirstBundle
  /\ features \in IF platform.type = "AWS" THEN FeatureSets ELSE {{}}
  /\ cloudConf = None /\ reported = "none" /\ template = NoTemplate /\ pod = None
  /\ syncedFrom = None /\ returned = FALSE
  /\ changes = 0 /\ faults = 0

Next ==
  \/ Sync \/ Apply \/ ApplyUnread
  \/ StartPod \/ ReadFile \/ StartCCM \/ ReplacePod \/ RestartCCM
  \/ \E n \in Mounted : Refresh(n)
  \/ \E s \in SourcesOf(platform) : ChangeSource(s)
  \/ \E f \in FeatureSets : ChangeFeatures(f)
  \/ \E x \in SecretsOf(platform) : ChangeSecret(x)
  \/ \E b \in Bundles : ChangeBundle(b)

Spec == Init /\ [][Next]_vars

\* The controllers reconcile for what they watch and at every resync; the
\* Deployment controller and the kubelet do their work.
FairSpec ==
  /\ Spec
  /\ WF_vars(Sync) /\ WF_vars(Apply) /\ WF_vars(StartPod)
  /\ \A n \in {"cloud-conf", "ccm-trusted-ca", "credentials"} : WF_vars(Refresh(n))
  /\ WF_vars(ReadFile) /\ WF_vars(StartCCM)

-----------------------------------------------------------------------------
(* Properties *)

\* Every variable has its type, as far as the transformers leave one.
TypeOK ==
  /\ source \in SourcesOf(platform) /\ secret \in SecretsOf(platform) /\ bundle \in Bundles
  /\ reported \in {"none", "degraded", "available"}
  /\ template = NoTemplate \/ DOMAIN template \in {{}, Mounted}
  /\ pod # None =>
       /\ DOMAIN pod.template \in {{}, Mounted} /\ DOMAIN pod.mounts = Mounted
       /\ pod.stage \in 1 .. Running
       /\ DOMAIN pod.files \subseteq Range(CredentialFiles)
       /\ pod.stage = Running <=> pod.config # None
  /\ returned \in BOOLEAN /\ changes \in 0 .. MaxChanges /\ faults \in 0 .. MaxFaults

\* The keys in S that the user has given a value are as the user gave them.
Kept(S, given, made) ==
  \A k \in S \cap DOMAIN given : Get(made, k) = given[k]

Families(keys) ==
  IF "NodeIPFamilies" \in DOMAIN keys THEN Range(keys["NodeIPFamilies"]) ELSE {}

AWSContract(s, gates, made) ==
  LET user == IF s.form = "empty" THEN << >> ELSE s.global
      overrides == IF s.form = "empty" THEN << >> ELSE s.overrides
      keys == made[1].keys
      flag == "DisableSecurityGroupIngress"
      managed == "AWSServiceLBNetworkSecurityGroup" \in gates
  IN  /\ Len(made) = 1 + Cardinality(DOMAIN overrides) /\ made[1].name = "Global"
      /\ {made[i].name : i \in 2 .. Len(made)} = DOMAIN overrides
      /\ \A i \in 2 .. Len(made) : made[i].keys = overrides[made[i].name]
      /\ Kept({"ClusterServiceLoadBalancerHealthProbeMode"},
              Restrict(user, {k \in DOMAIN user : k \in Strings => user[k] # ""}), keys)
      /\ Get(keys, flag) = "true" <=> Get(user, flag) = "true"
      /\ "ClusterServiceLoadBalancerHealthProbeMode" \in DOMAIN keys
      /\ Families(keys) = Families(user)
      /\ IF managed THEN Get(keys, "NLBSecurityGroupMode") = "Managed"
         ELSE Get(keys, "NLBSecurityGroupMode") = Get(user, "NLBSecurityGroupMode")

AzureContract(s, made) ==
  /\ Kept({"vmType", "aadClientSecret"}, Restrict(s.keys, {k \in DOMAIN s.keys : k = "vmType" => s.keys[k] # ""}), made)
  /\ Get(made, "vmType") # ""
  /\ ~IsAzureStackHub(platform) =>
       /\ made["cloud"] = IF platform.cloudName = "" THEN "AzurePublicCloud" ELSE platform.cloudName
       /\ made["clusterServiceLoadBalancerHealthProbeMode"] = "shared"
       /\ Get(s.keys, "cloud") \in {"", made["cloud"], "AZUREPUBLICCLOUD"}

OpenStackContract(s, made) ==
  LET given == IF s.form = "empty" THEN << >> ELSE s.sections
      balancer == IF "LoadBalancer" \in DOMAIN given THEN given["LoadBalancer"] ELSE << >>
  IN  /\ DOMAIN made = (DOMAIN given \ {"BlockStorage"}) \cup {"Global", "LoadBalancer"}
      /\ DOMAIN made["Global"] \cap {"secret-name", "secret-namespace", "kubeconfig-path"} = {}
      /\ made["Global"]["clouds-file"] = "/etc/openstack/secret/clouds.yaml"
      /\ "use-octavia" \notin DOMAIN made["LoadBalancer"]
      /\ Kept(DOMAIN balancer \ {"use-octavia"}, balancer, made["LoadBalancer"])
      /\ {"max-shared-lb", "manage-security-groups"} \subseteq DOMAIN made["LoadBalancer"]
      /\ Kept(DOMAIN given \ {"Global", "LoadBalancer", "BlockStorage"}, given, made)

\* cloud-conf is what the transformer of the platform is for: OpenShift's
\* settings where the user has none or must not have another, what the user set
\* otherwise, each section once, [Global] first, and no legacy setting (the doc
\* comments and tests of the transformers).  A flag that is not set is false.
TransformContract ==
  cloudConf # None =>
    CASE platform.type = "AWS"   -> AWSContract(syncedFrom.source, syncedFrom.features, cloudConf)
      [] platform.type = "Azure" -> AzureContract(syncedFrom.source, cloudConf)
      [] OTHER                   -> OpenStackContract(syncedFrom.source, cloudConf)

\* A sync rewrites cloud-conf only for a source or feature gates it was not made
\* from, in whatever order Go walks the service overrides: rewriting it would
\* change the hash and roll the Deployment (marshalAWSConfig sorts the sections).
SyncIsStable ==
  [][cloudConf' # cloudConf => syncedFrom # [source |-> source, features |-> features]]_vars

\* The manager of an Azure pod has one whole way to authenticate: a federated
\* token with its tenant, or a client secret, although the Secret may be replaced
\* between two reads of the injector.  (An empty file is taken as it is.)
MethodComplete ==
  platform.type = "Azure" /\ pod # None /\ pod.stage = Running
    /\ (\A f \in DOMAIN pod.files : pod.files[f] # "") =>
    LET settings == pod.config.settings
    IN  IF "useFederatedWorkloadIdentityExtension" \in DOMAIN settings
        THEN Get(settings, "tenantId") # "" /\ Get(settings, "aadFederatedTokenFile") # ""
        ELSE Get(settings, "aadClientSecret") # ""

Outcomes == {o \in Transform(platform, source, features) : o.result = "ok"}

Accepted == Outcomes # {} /\ (platform.type = "Azure" => Complete(secret))

\* What the manager is to run with, for the inputs of now.
Settings(conf) ==
  IF platform.type = "Azure" THEN prepareCloudConfig(conf, secret, ~IsAzureStackHub(platform))
  ELSE [n \in Mounted |-> IF n = "cloud-conf" THEN conf ELSE Related(n)]

Expected ==
  IF Accepted THEN {[settings |-> Settings(o.conf), trust |-> bundle] : o \in Outcomes} ELSE {}

\* No reason is left to sync or to roll the Deployment: cloud-conf is made from
\* the source and the gates of now, and the newest pod runs under the hash of now.
AtRest ==
  /\ syncedFrom = [source |-> source, features |-> features]
  /\ pod # None /\ pod.stage = Running
  /\ pod.template = calculateRelatedConfigsHash(collectRelatedConfigSources)

\* A pod that nothing would replace runs with just the inputs of now, whatever
\* the injector read of files the kubelet was replacing and however often the
\* Deployment was applied without a hash: the hash covers all a pod reads.  Not
\* when a content went and came back while the pod stayed: it may have read what
\* was there in between, under a hash that is right again.
PodAtRest == ~returned /\ AtRest => pod.config \in Expected

\* Once the inputs stay acceptable, the newest pod comes to run with just them: a
\* pod that read old files, or files of two Secrets, is replaced, and so is one
\* without a hash.  For contents that come back see PodAtRest.
PodsFollow ==
  <>[](Accepted /\ ~returned) =>
    <>[](pod # None /\ pod.stage = Running /\ pod.config \in Expected)

\* The sources the transformers are to refuse: what does not parse (an empty file
\* is no JSON), an Azure cloud that is unknown or not the one the file names, and
\* a legacy key of OpenStack's [Global] that is overridden.
InConflict(s) ==
  LET cloud == IF platform.cloudName = "" THEN "AzurePublicCloud" ELSE platform.cloudName
      named == Get(s.keys, "cloud")
      global == s.sections["Global"]
  IN  \/ s.form = "unparsable"
      \/ platform.type = "Azure" /\ s.form # "json" /\ cloud # "nil"
      \/ /\ platform.type = "Azure" /\ s.form = "json" /\ cloud \notin {"nil", "AzureStackCloud"}
         /\ cloud \notin validAzureCloudNames \/ (named # "" /\ ~EqualFold(cloud, named))
      \/ /\ platform.type = "OpenStack" /\ s.form = "ini" /\ "Global" \in DOMAIN s.sections
         /\ \E key \in DOMAIN Legacy \cap DOMAIN global : global[key] # Legacy[key]

Conflicting == InConflict(source)

\* A cloud config that stays in conflict with the cluster is reported as Degraded
\* (the comments in the Azure and OpenStack transformers).  The OpenStack one also
\* refuses a [Global] without the legacy keys, of which this says nothing.
RefusalReported == <>[]Conflicting => <>[](reported = "degraded")
=============================================================================

-------------------------- MODULE CloudTransformers --------------------------
(***************************************************************************)
(* The cloud config transformers of AWS, Azure, Azure Stack Hub and        *)
(* OpenStack (pkg/cloud/<platform>; the one of vSphere is VSphereConfig).  *)
(*                                                                         *)
(* A source is a cloud.conf as it parses: its "form" is "ini" or "json",   *)
(* "empty" for the empty text, "unparsable" for what is neither.  An INI   *)
(* section and a JSON object are functions from keys to values.  A         *)
(* transformer is the set of its possible outcomes: Go iterates over a map *)
(* in any order.                                                           *)
(***************************************************************************)
EXTENDS Integers, Sequences, FiniteSets, Functions

CONSTANT SectionNames  \* names of AWS sections in the byte order of their text

ASSUME NamesAssumption ==
  /\ SectionNames \in Seq(STRING) /\ SectionNames # << >> /\ SectionNames[1] = "Global"
  /\ \A i, j \in 1 .. Len(SectionNames) : SectionNames[i] = SectionNames[j] => i = j

Ok(conf) == [result |-> "ok", conf |-> conf]
Error == [result |-> "error"]
Panic == [result |-> "panic"]

\* The value of a key, "" when there is none.
Get(object, key) == IF key \in DOMAIN object THEN object[key] ELSE ""

With(object, key, value) ==
  [k \in DOMAIN object \cup {key} |-> IF k = key THEN value ELSE object[k]]
Without(object, keys) == Restrict(object, DOMAIN object \ keys)

\* Two objects in one; the first wins.
Over(object, base) ==
  [k \in DOMAIN object \cup DOMAIN base |-> IF k \in DOMAIN object THEN object[k] ELSE base[k]]

-----------------------------------------------------------------------------
(* AWS: [global |-> keys of [Global], overrides |-> sections by their id] *)

Strings == {"ClusterServiceLoadBalancerHealthProbeMode", "NLBSecurityGroupMode"}

readAWSConfig(source) ==
  IF source.form = "empty" THEN [form |-> "ini", global |-> << >>, overrides |-> << >>]
  ELSE source

isFeatureGateEnabled(features, name) == name \in features

setOpenShiftDefaults(cfg, features) ==
  LET probed == IF Get(cfg.global, "ClusterServiceLoadBalancerHealthProbeMode") # ""
                THEN cfg.global
                ELSE With(cfg.global, "ClusterServiceLoadBalancerHealthProbeMode", "Shared")
  IN  [form |-> cfg.form, overrides |-> cfg.overrides, global |->
         IF isFeatureGateEnabled(features, "AWSServiceLBNetworkSecurityGroup")
         THEN With(probed, "NLBSecurityGroupMode", "Managed") ELSE probed]

\* The n-th of a set in the order of their ranks, which differ.
Nth(S, rank, n) == CHOOSE i \in S : Cardinality({j \in S : rank[j] <= rank[i]}) = n

\* A list without its repetitions, in the order of first mention.
Distinct(list) ==
  LET first == {i \in 1 .. Len(list) : \A j \in 1 .. (i - 1) : list[j] # list[i]}
  IN  [n \in 1 .. Cardinality(first) |-> list[Nth(first, [i \in first |-> i], n)]]

\* ReflectFrom writes every field of the struct; keys with "" are deleted
\* afterwards, which the text "false" of a Boolean field is not.  The address
\* families are written one by one, the library drops repetitions.
GlobalSection(global) ==
  LET fields == [k \in Strings |-> Get(global, k)]
      flag == "DisableSecurityGroupIngress"
      families == "NodeIPFamilies"
      kept == Restrict(fields, {k \in Strings : fields[k] # ""})
      flagged == With(kept, flag, IF flag \in DOMAIN global THEN global[flag] ELSE "false")
  IN  IF families \notin DOMAIN global \/ global[families] = << >> THEN flagged
      ELSE With(flagged, families, Distinct(global[families]))

\* The sections of the first file: Global, then the overrides as the map's
\* iteration produced them.
Reflected(cfg, order) ==
  <<[name |-> "Global", keys |-> GlobalSection(cfg.global)]>> \o
  [i \in 1 .. Len(order) |-> [name |-> order[i], keys |-> cfg.overrides[order[i]]]]

\* Mutant of sorted: sort.Slice is applied to a slice nobody reads.
unsorted(sections) == sections

NameRank(name) == CHOOSE i \in 1 .. Len(SectionNames) : SectionNames[i] = name

\* sort.Slice; no two sections have the same name.
sorted(sections) ==
  LET places == 1 .. Len(sections)
      rank == [i \in places |-> NameRank(sections[i].name)]
  IN  [n \in places |-> sections[Nth(places, rank, n)]]

\* The orders in which Go may walk a map with these keys.
Orders(keys) == Bijection(1 .. Cardinality(keys), keys)

marshalAWSConfig(cfg) ==
  {Ok(sorted(sections)) :
     sections \in {Reflected(cfg, order) : order \in Orders(DOMAIN cfg.overrides)}}

AWSTransformer(source, features) ==
  IF source.form = "unparsable" THEN {Error}
  ELSE marshalAWSConfig(setOpenShiftDefaults(readAWSConfig(source), features))

-----------------------------------------------------------------------------
(* Azure: [keys |-> the JSON object]; the struct knows these fields, and      *)
(* leaves out the ones with a zero value ("omitempty").                      *)

AzureFields == {"cloud", "vmType", "clusterServiceLoadBalancerHealthProbeMode",
                "aadClientSecret", "useManagedIdentityExtension"}

Unmarshalled(object) == Restrict(object, {k \in DOMAIN object \cap AzureFields :
                          object[k] \notin IF k = "useManagedIdentityExtension" THEN {FALSE} ELSE {""}})

validAzureCloudNames == {"AzurePublicCloud", "AzureUSGovernmentCloud", "AzureChinaCloud",
                         "AzureGermanCloud", "AzureStackCloud"}

\* strings.EqualFold with a cloud name in capitals.
EqualFold(name, text) ==
  text = name \/ (name = "AzurePublicCloud" /\ text = "AZUREPUBLICCLOUD")

VMTypeSet(cfg) == IF Get(cfg, "vmType") = "" THEN With(cfg, "vmType", "standard") ELSE cfg

\* Mutant of CloudMatches: a cloud.conf of another cloud is taken over.
CloudMatchesAny(cfg, cloud) == TRUE

\* The cloud of the cloud.conf, if it names one, is the infrastructure's.
CloudMatches(cfg, cloud) == Get(cfg, "cloud") = "" \/ EqualFold(cloud, cfg["cloud"])

\* cloudName is the infrastructure's; "nil" when it has no Azure platform
\* status, which IsAzure dereferences.
AzureTransformer(source, cloudName) ==
  LET cloud == IF cloudName = "" THEN "AzurePublicCloud" ELSE cloudName
      cfg == Unmarshalled(source.keys)
      set == Over([cloud |-> cloud, clusterServiceLoadBalancerHealthProbeMode |-> "shared"],
                  VMTypeSet(cfg))
  IN  IF cloudName = "nil" THEN Panic
      ELSE IF \/ source.form # "json"
              \/ cloud \notin validAzureCloudNames
              \/ ~CloudMatches(cfg, cloud)
           THEN Error
           ELSE Ok(set)

AzureStackTransformer(source) ==
  IF source.form # "json" THEN Error ELSE Ok(VMTypeSet(Unmarshalled(source.keys)))

-----------------------------------------------------------------------------
(* OpenStack: [sections |-> their keys by section name] *)

\* The legacy keys and the values they may have.
Legacy == [key \in {"secret-name", "secret-namespace", "kubeconfig-path"} |->
             CASE key = "secret-name"      -> "openstack-credentials"
               [] key = "secret-namespace" -> "kube-system"
               [] OTHER                    -> ""]

CloudsKeys == [key \in {"use-clouds", "clouds-file", "cloud"} |->
                 CASE key = "use-clouds" -> "true"
                   [] key = "cloud"      -> "openstack"
                   [] OTHER              -> "/etc/openstack/secret/clouds.yaml"]

\* A [Global] section must have all legacy keys at their defaults: a key that is
\* not there reads as "".
LegacyDefault(global) == \A key \in DOMAIN Legacy : Get(global, key) = Legacy[key]

createLoadBalancerSection ==
  [key \in {"max-shared-lb", "manage-security-groups"} |->
     IF key = "max-shared-lb" THEN "1" ELSE "true"]

\* Mutant of updateLoadBalancerSection: the defaults win over the user's keys.
updateLoadBalancerSectionAlways(section) ==
  Over(createLoadBalancerSection, Without(section, {"use-octavia"}))

updateLoadBalancerSection(section) ==
  Over(Without(section, {"use-octavia"}), createLoadBalancerSection)

OpenStackTransformer(source) ==
  LET given == source.sections
      global == IF "Global" \in DOMAIN given THEN Without(given["Global"], DOMAIN Legacy)
                ELSE << >>
      balancer == IF "LoadBalancer" \in DOMAIN given
                  THEN updateLoadBalancerSection(given["LoadBalancer"])
                  ELSE createLoadBalancerSection
      refused == "Global" \in DOMAIN given /\ ~LegacyDefault(given["Global"])
      made == [name \in {"Global", "LoadBalancer"} |->
                 IF name = "Global" THEN Over(CloudsKeys, global) ELSE balancer]
  IN  CASE source.form = "unparsable" -> Error
        [] source.form = "empty"      -> Ok([name \in {"Global", "LoadBalancer"} |->
                                           IF name = "Global" THEN CloudsKeys
                                           ELSE createLoadBalancerSection])
        [] source.form = "ini" /\ refused -> Error
        [] OTHER -> Ok(Over(made, Without(given, {"BlockStorage"})))

-----------------------------------------------------------------------------
\* GetCloudConfigTransformer, and the call of what it returns.  A platform has a
\* type and, if Azure, the cloud name of its status.
IsAzureStackHub(platform) == platform.cloudName = "AzureStackCloud"

Transform(platform, source, features) ==
  CASE platform.type = "AWS"       -> AWSTransformer(source, features)
    [] platform.type = "OpenStack" -> {OpenStackTransformer(source)}
    [] platform.type = "Azure" /\ IsAzureStackHub(platform)  -> {AzureStackTransformer(source)}
    [] platform.type = "Azure" /\ ~IsAzureStackHub(platform) -> {AzureTransformer(source, platform.cloudName)}
=============================================================================

--------------------------- MODULE VSphereConfig ---------------------------
(***************************************************************************)
(* CloudConfigTransformer of vSphere: from the user's cloud.conf, in INI   *)
(* or YAML, the Infrastructure and the Network to the configuration of the *)
(* cloud provider.  It runs inside CloudConfigReconciler (Transform of     *)
(* ConfigSync) and goes through its parts in a fixed order, of which the   *)
(* second changes what the third reads.  A panic is recovered by the       *)
(* controller runtime: Reconcile fails, without a condition being set.     *)
(*                                                                         *)
(* Server names, datacenters, addresses and CIDRs are opaque; joined       *)
(* strings are sequences.                                                  *)
(***************************************************************************)
EXTENDS Integers, Sequences, FiniteSets, Functions

CONSTANTS
    Server, Datacenter,
    SourceConfigs,      \* the user's configurations, see Source
    Infras              \* the Infrastructures, with the Network, see Infra

(* format "broken" is what neither parser accepts, the empty text          *)
(* included.  vcenter has a sequence of datacenters per section; exclude   *)
(* are the CIDRs [Nodes] excludes.                                         *)
IsSource(s) ==
    /\ s.format \in {"ini", "yaml", "broken"}
    /\ DOMAIN s.vcenter \subseteq Server
    /\ \A v \in DOMAIN s.vcenter : s.vcenter[v] \in Seq(Datacenter)
    /\ s.labels \in {"none", "user"}
    /\ s.ipFamily \in {<< >>, <<"v4">>}
    /\ DOMAIN s.exclude = {"external", "internal"}

(* spec: whether spec.platformSpec.vsphere is set; the other fields of the *)
(* spec count only then.  vips are the API and ingress addresses.          *)
IsInfra(n) ==
    /\ n.spec \in BOOLEAN
    /\ n.vcenters \in Seq([server : Server, datacenters : Seq(Datacenter)])
    /\ n.domains \in Seq([server : Server, datacenter : Datacenter])
    /\ DOMAIN n.exclude = {"external", "internal"}
    /\ \A side \in DOMAIN n.exclude : n.exclude[side] \in Seq(Range(n.exclude[side]))
    /\ n.vips \in Seq(Range(n.vips))
    /\ \A i \in DOMAIN n.vips : n.vips[i].family \in {"v4", "v6"}
    /\ n.serviceNetwork \in {<<"v4">>, <<"v6">>, <<"v4", "v6">>, <<"v6", "v4">>}

ASSUME InputsAssumption ==
    (\A s \in SourceConfigs : IsSource(s)) /\ (\A n \in Infras : IsInfra(n))

VARIABLES
    source,         \* the text of cloud.conf
    infra,          \* Infrastructure and Network
    exclude,        \* nodeNetworking.*.ExcludeNetworkSubnetCIDR, changed in place
    cfg,            \* the CPIConfig under construction
    pc,
    next            \* the failure domain the loop is at

vars == <<source, infra, exclude, cfg, pc, next>>
given == <<source, infra>>

EmptyConfig == [vcenter |-> << >>, made |-> FALSE, labels |-> "none", ipFamily |-> << >>,
                exclude |-> [external |-> << >>, internal |-> << >>]]

Steps == {"read", "setIPFamilies", "setExcludeNetworkSubnetCIDR", "setNodes",
          "setVirtualCenters", "domains", "done", "error", "panic"}

TypeOK ==
    /\ source \in SourceConfigs /\ infra \in Infras
    /\ DOMAIN cfg = DOMAIN EmptyConfig
    /\ DOMAIN cfg.vcenter \subseteq Server
    /\ \A v \in DOMAIN cfg.vcenter : cfg.vcenter[v] \in Seq(Datacenter)
    /\ pc \in Steps
    /\ next \in 1..(Len(infra.domains) + 1)

Init ==
    /\ source \in SourceConfigs
    /\ infra \in Infras
    /\ exclude = infra.exclude
    /\ cfg = EmptyConfig
    /\ pc = "read"
    /\ next = 1

-----------------------------------------------------------------------------
(* The INI parser drops the IP family of the global section and makes the  *)
(* map of the sections; the YAML parser makes it when there is a section.  *)
createConfig ==
    [EmptyConfig EXCEPT !.vcenter = source.vcenter, !.made = TRUE, !.labels = source.labels,
                        !.exclude = source.exclude]

readCPIConfigINI == createConfig

readCPIConfigYAML ==
    [EmptyConfig EXCEPT !.vcenter = source.vcenter, !.made = DOMAIN source.vcenter # {},
                        !.labels = source.labels, !.ipFamily = source.ipFamily,
                        !.exclude = source.exclude]

ReadConfig ==
    /\ pc = "read"
    /\ \/ source.format = "broken" /\ pc' = "error" /\ UNCHANGED cfg
       \/ /\ source.format # "broken"
          /\ cfg' = IF source.format = "ini" THEN readCPIConfigINI ELSE readCPIConfigYAML
          /\ pc' = IF infra.spec THEN "setIPFamilies" ELSE "done"
    /\ UNCHANGED <<given, exclude, next>>

(* A single IPv4 network leaves the source's value.                        *)
setIPFamilies ==
    /\ pc = "setIPFamilies"
    /\ cfg' = IF infra.serviceNetwork = <<"v4">> THEN cfg
              ELSE [cfg EXCEPT !.ipFamily = infra.serviceNetwork]
    /\ pc' = "setExcludeNetworkSubnetCIDR"
    /\ UNCHANGED <<given, exclude, next>>

\* A single address as a CIDR.
HostCIDR(vip) == <<vip.addr, IF vip.family = "v4" THEN 32 ELSE 128>>

OVN == <<"fd69::2", 128>>

(* Only with an IPv6 network.                                              *)
setExcludeNetworkSubnetCIDR ==
    /\ pc = "setExcludeNetworkSubnetCIDR"
    /\ exclude' =
         IF "v6" \notin Range(infra.serviceNetwork) THEN exclude
         ELSE [side \in DOMAIN exclude |->
                 exclude[side] \o [i \in DOMAIN infra.vips |-> HostCIDR(infra.vips[i])]
                               \o <<OVN>>]
    /\ pc' = "setNodes"
    /\ UNCHANGED <<given, cfg, next>>

\* Mutant of setNodes: from the Infrastructure as it was read.
setNodesUnchanged ==
    /\ pc = "setNodes"
    /\ cfg' = [cfg EXCEPT !.exclude = infra.exclude]
    /\ pc' = "setVirtualCenters"
    /\ UNCHANGED <<given, exclude, next>>

(* The exclusions of cloud.conf give way to those of the Infrastructure.   *)
setNodes ==
    /\ pc = "setNodes"
    /\ cfg' = [cfg EXCEPT !.exclude = exclude]
    /\ pc' = "setVirtualCenters"
    /\ UNCHANGED <<given, exclude, next>>

(* The vCenters of the spec, each in place of a section of that name; the  *)
(* last one of a name counts.  An assignment to a nil map panics.          *)
SpecServers == {infra.vcenters[i].server : i \in DOMAIN infra.vcenters}

SpecDatacenters(v) ==
    infra.vcenters[CHOOSE i \in DOMAIN infra.vcenters :
                     /\ infra.vcenters[i].server = v
                     /\ \A j \in (i + 1)..Len(infra.vcenters) : infra.vcenters[j].server # v
                  ].datacenters

setVirtualCenters ==
    /\ pc = "setVirtualCenters"
    /\ \/ ~cfg.made /\ infra.vcenters # << >> /\ pc' = "panic" /\ UNCHANGED cfg
       \/ /\ cfg.made \/ infra.vcenters = << >>
          /\ cfg' = [cfg EXCEPT !.vcenter =
                       [v \in DOMAIN cfg.vcenter \cup SpecServers |->
                          IF v \in SpecServers THEN SpecDatacenters(v) ELSE cfg.vcenter[v]]]
          /\ pc' = "domains"
    /\ UNCHANGED <<given, exclude, next>>

\* Mutant of WithDatacenter: without dcSeen.
WithDatacenterTwice(dcs, dc) == Append(dcs, dc)

WithDatacenter(dcs, dc) == IF dc \in Range(dcs) THEN dcs ELSE Append(dcs, dc)

NextDomain == next + 1

(* One round of the loop over the failure domains.  A section that is not  *)
(* there is made, but the nil the lookup returned is used.                 *)
FailureDomain ==
    /\ pc = "domains" /\ next <= Len(infra.domains)
    /\ LET fd == infra.domains[next] IN
       \/ /\ fd.server \in DOMAIN cfg.vcenter
          /\ cfg' = [cfg EXCEPT !.vcenter[fd.server] = WithDatacenter(@, fd.datacenter)]
          /\ next' = NextDomain
          /\ UNCHANGED pc
       \/ fd.server \notin DOMAIN cfg.vcenter /\ pc' = "panic" /\ UNCHANGED <<cfg, next>>
    /\ UNCHANGED <<given, exclude>>

(* The labels are OpenShift's when there is more than one failure domain.  *)
Labels ==
    /\ pc = "domains" /\ next > Len(infra.domains)
    /\ cfg' = IF Len(infra.domains) > 1 THEN [cfg EXCEPT !.labels = "openshift"] ELSE cfg
    /\ pc' = "done"
    /\ UNCHANGED <<given, exclude, next>>

Next == ReadConfig \/ setIPFamilies \/ setExcludeNetworkSubnetCIDR \/ setNodes
          \/ setVirtualCenters \/ FailureDomain \/ Labels

Spec == Init /\ [][Next]_vars

-----------------------------------------------------------------------------
Zonal == pc = "done" /\ infra.spec

(* The datacenters a section has before the failure domains.               *)
Base(v) == IF v \in SpecServers THEN SpecDatacenters(v) ELSE source.vcenter[v]

(* The result has the sections of the source and of the spec, the spec's   *)
(* in place of the source's, and each lists, next to its own datacenters,  *)
(* exactly those of its failure domains, none of them added twice: in      *)
(* whatever order the domains come and however they overlap.               *)
SectionsExact ==
    Zonal =>
      /\ DOMAIN cfg.vcenter = DOMAIN source.vcenter \cup SpecServers
      /\ \A v \in DOMAIN cfg.vcenter :
           LET wanted == {d \in Datacenter : \E i \in DOMAIN infra.domains :
                                infra.domains[i] = [server |-> v, datacenter |-> d]} IN
           /\ Range(cfg.vcenter[v]) = Range(Base(v)) \cup wanted
           /\ Len(cfg.vcenter[v]) = Len(Base(v)) + Cardinality(wanted \ Range(Base(v)))

(* With spec.platformSpec.vsphere and IPv6 no API or ingress address and   *)
(* no address of OVN can become a node address, on either side; on IPv4    *)
(* the exclusions of the Infrastructure stand as they are.  In both cases  *)
(* they replace those of cloud.conf, which stand without the spec.         *)
(* setExcludeNetworkSubnetCIDR has to come before setNodes.                *)
ExcludesVIPs ==
    pc = "done" =>
      \A side \in {"external", "internal"} :
         IF ~infra.spec THEN cfg.exclude[side] = source.exclude[side]
         ELSE IF "v6" \in Range(infra.serviceNetwork)
         THEN Range(infra.exclude[side]) \cup {OVN}
                \cup {<<infra.vips[i].addr, IF infra.vips[i].family = "v4" THEN 32 ELSE 128>>
                        : i \in DOMAIN infra.vips} = Range(cfg.exclude[side])
         ELSE cfg.exclude[side] = infra.exclude[side]

(* The transformer returns: neither the format of the source nor where the *)
(* servers of the failure domains are declared makes it panic.             *)
NoPanic == pc # "panic"

=============================================================================

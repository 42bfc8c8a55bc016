------------------------ MODULE VSphereConfigProofs ------------------------
(***************************************************************************)
(* Theorems on VSphereConfig, for all configurations, Infrastructures and  *)
(* Networks, with any number of servers, datacenters, vCenters and failure *)
(* domains: the types, the sections and the exclusions of the result.      *)
(***************************************************************************)
EXTENDS VSphereConfig, FiniteSetTheorems, TLAPS

-----------------------------------------------------------------------------
(* Sequences and their ranges.                                             *)

(* The indices and the elements of a sequence.                             *)
LEMMA SeqElements ==
    ASSUME NEW A, NEW s \in Seq(A)
    PROVE  Len(s) \in Nat /\ DOMAIN s = 1..Len(s) /\ \A i \in 1..Len(s) : s[i] \in A
OBVIOUS

(* A concatenation has the elements of both parts.                         *)
LEMMA RangeConcat ==
    ASSUME NEW A, NEW s \in Seq(A), NEW B, NEW t \in Seq(B)
    PROVE  Range(s \o t) = Range(s) \cup Range(t)
<1>1. Len(s) \in Nat /\ Len(t) \in Nat /\ DOMAIN s = 1..Len(s) /\ DOMAIN t = 1..Len(t)
  OBVIOUS
<1>2. s \in Seq(A \cup B) /\ t \in Seq(A \cup B)
  OBVIOUS
<1>3. DOMAIN (s \o t) = 1..(Len(s) + Len(t))
  BY <1>1, <1>2
<1>4. /\ \A i \in 1..Len(s) : (s \o t)[i] = s[i]
      /\ \A i \in 1..Len(t) : (s \o t)[i + Len(s)] = t[i]
  BY <1>1, <1>2
<1>5. ASSUME NEW i \in 1..(Len(s) + Len(t)) PROVE (s \o t)[i] \in Range(s) \cup Range(t)
  <2>1. CASE i \in 1..Len(s)
    BY <1>1, <1>4, <2>1 DEF Range
  <2>2. CASE i \notin 1..Len(s)
    <3>1. i - Len(s) \in 1..Len(t) /\ (i - Len(s)) + Len(s) = i
      BY <1>1, <2>2
    <3>2. (s \o t)[i] = t[i - Len(s)]
      BY <1>4, <3>1
    <3>3. QED
      BY <1>1, <3>1, <3>2 DEF Range
  <2>3. QED
    BY <2>1, <2>2
<1>6. ASSUME NEW i \in 1..Len(s) PROVE s[i] \in Range(s \o t)
  <2>1. i \in 1..(Len(s) + Len(t))
    BY <1>1
  <2>2. QED
    BY <1>3, <1>4, <2>1 DEF Range
<1>7. ASSUME NEW i \in 1..Len(t) PROVE t[i] \in Range(s \o t)
  <2>1. i + Len(s) \in 1..(Len(s) + Len(t))
    BY <1>1
  <2>2. QED
    BY <1>3, <1>4, <2>1 DEF Range
<1>8. QED
  BY <1>1, <1>3, <1>5, <1>6, <1>7 DEF Range

(* Appending adds one element.                                             *)
LEMMA RangeAppend ==
    ASSUME NEW A, NEW s \in Seq(A), NEW x \in A
    PROVE  Range(Append(s, x)) = Range(s) \cup {x}
<1>1. Len(s) \in Nat /\ DOMAIN s = 1..Len(s) /\ DOMAIN Append(s, x) = 1..(Len(s) + 1)
  OBVIOUS
<1>2. /\ \A i \in 1..Len(s) : Append(s, x)[i] = s[i]
      /\ Append(s, x)[Len(s) + 1] = x
  OBVIOUS
<1>3. \A i \in 1..(Len(s) + 1) : i \in 1..Len(s) \/ i = Len(s) + 1
  BY <1>1
<1>4. 1..Len(s) \subseteq 1..(Len(s) + 1) /\ Len(s) + 1 \in 1..(Len(s) + 1)
  BY <1>1
<1>5. QED
  BY <1>1, <1>2, <1>3, <1>4 DEF Range

(* A set of positions of a sequence has a last one.                        *)
LEMMA LastExists ==
    ASSUME NEW n \in Nat, NEW I \in SUBSET (1..n), I # {}
    PROVE  \E i \in I : \A j \in I : j <= i
<1> DEFINE T == {i..n : i \in I}
<1>1. IsWellFoundedOn(StrictSubsetOrdering(1..n), FiniteSubsetsOf(1..n))
  BY FS_StrictSubsetOrderingWellFounded
<1>2. IsFiniteSet(1..n)
  BY FS_Interval
<1>3. \A i \in I : i..n \in SUBSET (1..n) /\ IsFiniteSet(i..n)
  BY <1>2, FS_Subset
<1>4. T \subseteq FiniteSubsetsOf(1..n)
  BY <1>3 DEF FiniteSubsetsOf
<1>5. T # {}
  OBVIOUS
<1> HIDE DEF T
<1>6. PICK x \in T : \A y \in T : <<y, x>> \notin StrictSubsetOrdering(1..n)
  BY <1>1, <1>4, <1>5, WFMin
<1>7. PICK i \in I : x = i..n
  BY <1>6 DEF T
<1>8. ASSUME NEW j \in I, ~(j <= i) PROVE FALSE
  <2>1. j..n \in T
    BY DEF T
  <2>2. i \in 1..n /\ j \in 1..n /\ i < j
    BY <1>8
  <2>3. j..n \subseteq i..n /\ i \in i..n /\ i \notin j..n
    BY <2>2
  <2>4. <<j..n, i..n>> \in StrictSubsetOrdering(1..n)
    BY <1>3, <2>3 DEF StrictSubsetOrdering
  <2>5. QED
    BY <1>6, <1>7, <2>1, <2>4
<1>9. QED
  BY <1>8

-----------------------------------------------------------------------------
(* The inputs, and the invariant.                                          *)

(* The inputs are a source config and an Infrastructure.                   *)
LEMMA InputsTyped ==
    ASSUME source \in SourceConfigs, infra \in Infras
    PROVE  IsSource(source) /\ IsInfra(infra)
BY InputsAssumption

(* The names of the sections of the result.                                *)
SectionNames == DOMAIN source.vcenter \cup SpecServers

(* What a section starts with is a list of datacenters.                    *)
LEMMA BaseTyped ==
    ASSUME source \in SourceConfigs, infra \in Infras, NEW v \in SectionNames
    PROVE  v \in Server /\ Base(v) \in Seq(Datacenter)
<1>1. IsSource(source) /\ IsInfra(infra)
  BY InputsTyped
<1>2. CASE v \in SpecServers
  <2> DEFINE vcs == infra.vcenters
  <2>1. vcs \in Seq([server : Server, datacenters : Seq(Datacenter)])
    BY <1>1 DEF IsInfra
  <2>2. /\ Len(vcs) \in Nat /\ DOMAIN vcs = 1..Len(vcs)
        /\ \A i \in 1..Len(vcs) : vcs[i].server \in Server /\ vcs[i].datacenters \in Seq(Datacenter)
    <3> DEFINE R == [server : Server, datacenters : Seq(Datacenter)]
    <3>1. \A r \in R : r.server \in Server /\ r.datacenters \in Seq(Datacenter)
      OBVIOUS
    <3> HIDE DEF R
    <3>2. vcs \in Seq(R)
      BY <2>1 DEF R
    <3>3. QED
      BY <3>1, <3>2, SeqElements
  <2> DEFINE I == {i \in 1..Len(vcs) : vcs[i].server = v}
  <2>3. I \in SUBSET (1..Len(vcs)) /\ I # {}
    BY <1>2, <2>2 DEF SpecServers
  <2>4. PICK i \in I : \A j \in I : j <= i
    BY <2>2, <2>3, LastExists
  <2>5. \A j \in (i + 1)..Len(vcs) : vcs[j].server # v
    BY <2>2, <2>4
  <2> DEFINE last == CHOOSE k \in DOMAIN vcs :
                       /\ vcs[k].server = v
                       /\ \A j \in (k + 1)..Len(vcs) : vcs[j].server # v
  <2>6. last \in DOMAIN vcs
    BY <2>2, <2>4, <2>5
  <2>7. SpecDatacenters(v) = vcs[last].datacenters
    BY DEF SpecDatacenters
  <2> HIDE DEF last
  <2>8. QED
    BY <1>2, <2>2, <2>3, <2>6, <2>7 DEF Base
<1>3. CASE v \notin SpecServers
  BY <1>1, <1>3 DEF SectionNames, Base, IsSource
<1>4. QED
  BY <1>2, <1>3

(* The datacenters the failure domains before the n-th want in a section.  *)
WantedBefore(v, n) ==
    {d \in Datacenter : \E i \in 1..(n - 1) : infra.domains[i] = [server |-> v, datacenter |-> d]}

(* After n - 1 failure domains.                                            *)
SectionsUpTo(vcenter, n) ==
    /\ vcenter \in [SectionNames -> Seq(Datacenter)]
    /\ \A v \in SectionNames :
          /\ IsFiniteSet(WantedBefore(v, n))
          /\ Range(vcenter[v]) = Range(Base(v)) \cup WantedBefore(v, n)
          /\ Len(vcenter[v]) = Len(Base(v)) + Cardinality(WantedBefore(v, n) \ Range(Base(v)))

(* The exclusions of ExcludesVIPs, wherever the transformer has them.      *)
Excluded(e) ==
    \A side \in {"external", "internal"} :
       IF "v6" \in Range(infra.serviceNetwork)
       THEN Range(infra.exclude[side]) \cup {OVN}
              \cup {<<infra.vips[i].addr, IF infra.vips[i].family = "v4" THEN 32 ELSE 128>>
                      : i \in DOMAIN infra.vips} = Range(e[side])
       ELSE e[side] = infra.exclude[side]

Typed ==
    /\ source \in SourceConfigs /\ infra \in Infras
    /\ pc \in Steps
    /\ DOMAIN cfg = {"vcenter", "made", "labels", "ipFamily", "exclude"}
    /\ DOMAIN cfg.vcenter \subseteq Server
    /\ \A v \in DOMAIN cfg.vcenter : cfg.vcenter[v] \in Seq(Datacenter)
    /\ next \in 1..(Len(infra.domains) + 1)
    /\ pc \notin {"domains", "done", "panic"} => next = 1

(* What is true at each step of the transformer, given that the spec of    *)
(* the platform is set.                                                    *)
Progress ==
    /\ pc \in {"read", "setIPFamilies", "setExcludeNetworkSubnetCIDR"} => exclude = infra.exclude
    /\ pc \in {"setIPFamilies", "setExcludeNetworkSubnetCIDR", "setNodes", "setVirtualCenters"}
         => cfg.vcenter = source.vcenter
    /\ pc \in {"setIPFamilies", "setExcludeNetworkSubnetCIDR", "setNodes", "setVirtualCenters", "domains"}
         => infra.spec
    /\ pc = "done" /\ ~infra.spec => cfg.exclude = source.exclude
    /\ pc = "setNodes" => Excluded(exclude)
    /\ pc \in {"setVirtualCenters", "domains"} \/ Zonal => Excluded(cfg.exclude)
    /\ pc = "domains" \/ Zonal => SectionsUpTo(cfg.vcenter, next)
    /\ Zonal => next = Len(infra.domains) + 1

SectionInv == Typed /\ Progress

(* The invariant holds initially.                                          *)
LEMMA InitHolds == Init => SectionInv
<1> SUFFICES ASSUME Init PROVE SectionInv
  OBVIOUS
<1>1. IsSource(source) /\ IsInfra(infra)
  BY InputsTyped DEF Init
<1>2. Len(infra.domains) \in Nat
  BY <1>1 DEF IsInfra
<1>3. DOMAIN << >> = {}
  OBVIOUS
<1>4. Typed
  BY <1>1, <1>2, <1>3 DEF Typed, Init, EmptyConfig, Steps
<1>5. QED
  BY <1>4 DEF SectionInv, Progress, Init, Zonal

-----------------------------------------------------------------------------
(* The inputs never change, and neither does what is wanted of them.       *)
LEMMA SameSections ==
    ASSUME UNCHANGED given
    PROVE  SectionsUpTo(cfg.vcenter, next)' <=> SectionsUpTo(cfg'.vcenter, next')
<1>1. source' = source /\ infra' = infra
  BY DEF given
<1>2. SpecServers' = SpecServers
  BY <1>1 DEF SpecServers
<1>3. SectionNames' = SectionNames
  BY <1>1, <1>2 DEF SectionNames
<1>4. ASSUME NEW v PROVE Base(v)' = Base(v)
  BY <1>1, <1>2 DEF Base, SpecDatacenters
<1>5. ASSUME NEW v PROVE WantedBefore(v, next)' = WantedBefore(v, next')
  BY <1>1 DEF WantedBefore
<1>6. QED
  BY <1>3, <1>4, <1>5 DEF SectionsUpTo

(* What is to be excluded depends on the given inputs alone.               *)
LEMMA SameExclusions ==
    ASSUME UNCHANGED given
    PROVE  /\ Excluded(exclude)' <=> Excluded(exclude')
           /\ Excluded(cfg.exclude)' <=> Excluded(cfg'.exclude)
BY DEF given, Excluded

(* What setExcludeNetworkSubnetCIDR makes of the user's exclusions.        *)
LEMMA ExcludeComputes ==
    ASSUME SectionInv, setExcludeNetworkSubnetCIDR
    PROVE  Excluded(exclude')
<1>1. exclude = infra.exclude /\ IsInfra(infra)
  BY InputsTyped DEF SectionInv, Typed, Progress, setExcludeNetworkSubnetCIDR
<1>2. CASE "v6" \notin Range(infra.serviceNetwork)
  BY <1>1, <1>2 DEF setExcludeNetworkSubnetCIDR, Excluded
<1>3. CASE "v6" \in Range(infra.serviceNetwork)
  <2> DEFINE hosts == [i \in DOMAIN infra.vips |-> HostCIDR(infra.vips[i])]
  <2>1. exclude' = [side \in DOMAIN exclude |-> exclude[side] \o hosts \o <<OVN>>]
    BY <1>3 DEF setExcludeNetworkSubnetCIDR
  <2>2. Len(infra.vips) \in Nat /\ DOMAIN infra.vips = 1..Len(infra.vips)
    BY <1>1, SeqElements DEF IsInfra
  <2>3. hosts \in Seq(Range(hosts))
    BY <2>2 DEF Range
  <2>4. Range(hosts) = {<<infra.vips[i].addr, IF infra.vips[i].family = "v4" THEN 32 ELSE 128>>
                          : i \in DOMAIN infra.vips}
    BY DEF Range, HostCIDR
  <2>5. <<OVN>> \in Seq({OVN}) /\ Range(<<OVN>>) = {OVN}
    BY DEF Range
  <2> HIDE DEF hosts
  <2>6. ASSUME NEW side \in {"external", "internal"}
        PROVE  Range(exclude'[side]) = Range(infra.exclude[side]) \cup Range(hosts) \cup {OVN}
    <3> DEFINE e == infra.exclude[side]
    <3>1. e \in Seq(Range(e)) /\ exclude'[side] = e \o hosts \o <<OVN>>
      BY <1>1, <2>1 DEF IsInfra
    <3>2. Range(e \o hosts) = Range(e) \cup Range(hosts)
      BY <2>3, <3>1, RangeConcat
    <3>3. e \o hosts \in Seq(Range(e) \cup Range(hosts))
      BY <2>3, <3>1
    <3>4. Range((e \o hosts) \o <<OVN>>) = Range(e \o hosts) \cup {OVN}
      <4> DEFINE s == e \o hosts
                 t == <<OVN>>
      <4>1. s \in Seq(Range(e) \cup Range(hosts)) /\ t \in Seq({OVN}) /\ Range(t) = {OVN}
        BY <2>5, <3>3
      <4> HIDE DEF s, t
      <4>2. Range(s \o t) = Range(s) \cup Range(t)
        BY <4>1, RangeConcat
      <4>3. QED
        BY <4>1, <4>2 DEF s, t
    <3>5. QED
      BY <3>1, <3>2, <3>4
  <2>7. QED
    BY <1>3, <2>4, <2>6 DEF Excluded
<1>4. QED
  BY <1>2, <1>3

(* The vCenters of the spec in place of the sections of their names.       *)
LEMMA VirtualCentersCompute ==
    ASSUME SectionInv, setVirtualCenters, pc' = "domains"
    PROVE  SectionsUpTo(cfg'.vcenter, 1)
<1>1. cfg.vcenter = source.vcenter /\ DOMAIN cfg = {"vcenter", "made", "labels", "ipFamily", "exclude"}
  BY DEF SectionInv, Typed, Progress, setVirtualCenters
<1>2. cfg'.vcenter = [v \in DOMAIN cfg.vcenter \cup SpecServers |->
                        IF v \in SpecServers THEN SpecDatacenters(v) ELSE cfg.vcenter[v]]
  BY <1>1 DEF setVirtualCenters
<1>3. cfg'.vcenter = [v \in SectionNames |-> Base(v)]
  BY <1>1, <1>2 DEF SectionNames, Base
<1>4. \A v \in SectionNames : Base(v) \in Seq(Datacenter)
  BY BaseTyped DEF SectionInv, Typed
<1>5. \A v \in SectionNames : Len(Base(v)) \in Nat
  BY <1>4
<1>6. \A v : WantedBefore(v, 1) = {}
  BY DEF WantedBefore
<1>7. ASSUME NEW v \in SectionNames
      PROVE  /\ IsFiniteSet(WantedBefore(v, 1))
             /\ Range(Base(v)) = Range(Base(v)) \cup WantedBefore(v, 1)
             /\ Len(Base(v)) = Len(Base(v)) + Cardinality(WantedBefore(v, 1) \ Range(Base(v)))
  <2>1. WantedBefore(v, 1) \ Range(Base(v)) = {} /\ WantedBefore(v, 1) = {}
    BY <1>6
  <2>2. Cardinality(WantedBefore(v, 1) \ Range(Base(v))) = 0 /\ IsFiniteSet(WantedBefore(v, 1))
    BY <2>1, FS_EmptySet
  <2>3. Len(Base(v)) = Len(Base(v)) + 0
    BY <1>5
  <2>4. Range(Base(v)) = Range(Base(v)) \cup WantedBefore(v, 1)
    BY <2>1
  <2>5. QED
    BY <2>2, <2>3, <2>4
<1>8. cfg'.vcenter \in [SectionNames -> Seq(Datacenter)]
  BY <1>3, <1>4
<1>9. \A v \in SectionNames : cfg'.vcenter[v] = Base(v)
  BY <1>3
<1>10. QED
  BY <1>7, <1>8, <1>9 DEF SectionsUpTo

(* WithDatacenter lists the datacenter, and lists it once.                 *)
LEMMA WithDatacenterAdds ==
    ASSUME NEW dcs \in Seq(Datacenter), NEW d \in Datacenter
    PROVE  /\ WithDatacenter(dcs, d) \in Seq(Datacenter)
           /\ Range(WithDatacenter(dcs, d)) = Range(dcs) \cup {d}
           /\ Len(WithDatacenter(dcs, d)) = IF d \in Range(dcs) THEN Len(dcs) ELSE Len(dcs) + 1
BY RangeAppend DEF WithDatacenter

(* What the next failure domain adds to what is wanted.                    *)
LEMMA WantedGrows ==
    ASSUME NEW n \in 1..Len(infra.domains), infra \in Infras, source \in SourceConfigs, NEW v
    PROVE  /\ infra.domains[n].server \in Server /\ infra.domains[n].datacenter \in Datacenter
           /\ WantedBefore(v, n + 1) =
                IF v = infra.domains[n].server
                THEN WantedBefore(v, n) \cup {infra.domains[n].datacenter}
                ELSE WantedBefore(v, n)
<1> DEFINE fds == infra.domains
           R == [server : Server, datacenter : Datacenter]
<1>1. fds \in Seq(R)
  BY InputsTyped DEF IsInfra
<1>2. \A r \in R : /\ r.server \in Server /\ r.datacenter \in Datacenter
                   /\ \A d : r = [server |-> v, datacenter |-> d]
                               <=> r.server = v /\ r.datacenter = d
  OBVIOUS
<1> HIDE DEF R
<1>3. Len(fds) \in Nat /\ \A i \in 1..Len(fds) : fds[i] \in R
  BY <1>1, SeqElements
<1>4. n \in Nat /\ fds[n] \in R
  BY <1>3
<1>5. \A i : i \in 1..((n + 1) - 1) <=> i \in 1..(n - 1) \/ i = n
  BY <1>3, <1>4
<1>6. \A d \in Datacenter : fds[n] = [server |-> v, datacenter |-> d]
                              <=> fds[n].server = v /\ fds[n].datacenter = d
  BY <1>2, <1>4
<1>7. fds[n].server \in Server /\ fds[n].datacenter \in Datacenter
  BY <1>2, <1>4
<1>8. \A d \in Datacenter : d \in WantedBefore(v, n + 1)
        <=> d \in WantedBefore(v, n) \/ (fds[n].server = v /\ fds[n].datacenter = d)
  BY <1>5, <1>6 DEF WantedBefore
<1>9. WantedBefore(v, n + 1) \subseteq Datacenter /\ WantedBefore(v, n) \subseteq Datacenter
  BY DEF WantedBefore
<1>10. QED
  BY <1>7, <1>8, <1>9

(* One round of the loop over the failure domains.                         *)
LEMMA FailureDomainComputes ==
    ASSUME SectionInv, pc = "domains", next \in 1..Len(infra.domains),
           infra.domains[next].server \in DOMAIN cfg.vcenter,
           cfg' = [cfg EXCEPT !.vcenter[infra.domains[next].server] =
                                  WithDatacenter(@, infra.domains[next].datacenter)]
    PROVE  SectionsUpTo(cfg'.vcenter, next + 1)
<1> DEFINE srv == infra.domains[next].server
           dc == infra.domains[next].datacenter
           old == cfg.vcenter
           new == cfg'.vcenter
<1>1. source \in SourceConfigs /\ infra \in Infras /\ SectionsUpTo(old, next)
      /\ DOMAIN cfg = {"vcenter", "made", "labels", "ipFamily", "exclude"}
  BY DEF SectionInv, Typed, Progress
<1>2. srv \in Server /\ dc \in Datacenter
  BY <1>1, WantedGrows
<1>3. old \in [SectionNames -> Seq(Datacenter)] /\ srv \in SectionNames
  BY <1>1 DEF SectionsUpTo
<1>4. new = [old EXCEPT ![srv] = WithDatacenter(old[srv], dc)]
  BY <1>1
<1> HIDE DEF srv, dc, old, new
<1>5. WithDatacenter(old[srv], dc) \in Seq(Datacenter)
  BY <1>2, <1>3, WithDatacenterAdds
<1>6. new \in [SectionNames -> Seq(Datacenter)]
  BY <1>3, <1>4, <1>5
<1>7. ASSUME NEW v \in SectionNames
      PROVE  /\ IsFiniteSet(WantedBefore(v, next + 1))
             /\ Range(new[v]) = Range(Base(v)) \cup WantedBefore(v, next + 1)
             /\ Len(new[v]) = Len(Base(v)) + Cardinality(WantedBefore(v, next + 1) \ Range(Base(v)))
  <2> DEFINE W == WantedBefore(v, next)
             B == Range(Base(v))
  <2>1. /\ IsFiniteSet(W) /\ Range(old[v]) = B \cup W
        /\ Len(old[v]) = Len(Base(v)) + Cardinality(W \ B)
    BY <1>1 DEF SectionsUpTo
  <2>2. WantedBefore(v, next + 1) = IF v = srv THEN W \cup {dc} ELSE W
    BY <1>1, WantedGrows DEF srv, dc
  <2>3. Len(Base(v)) \in Nat
    BY <1>1, BaseTyped
  <2> HIDE DEF W, B
  <2>4. CASE v # srv
    <3>1. new[v] = old[v]
      BY <1>3, <1>4, <2>4
    <3>2. QED
      BY <2>1, <2>2, <2>4, <3>1 DEF B
  <2>5. CASE v = srv
    <3>1. /\ new[v] = WithDatacenter(old[v], dc) /\ old[v] \in Seq(Datacenter)
      BY <1>3, <1>4, <2>5
    <3>2. /\ Range(new[v]) = Range(old[v]) \cup {dc}
          /\ Len(new[v]) = IF dc \in Range(old[v]) THEN Len(old[v]) ELSE Len(old[v]) + 1
      BY <1>2, <3>1, WithDatacenterAdds
    <3>3. WantedBefore(v, next + 1) = W \cup {dc}
      BY <2>2, <2>5
    <3>4. IsFiniteSet(W \cup {dc}) /\ IsFiniteSet(W \ B) /\ Cardinality(W \ B) \in Nat
      BY <2>1, FS_AddElement, FS_Difference, FS_CardinalityType
    <3>5. Range(new[v]) = B \cup (W \cup {dc})
      BY <2>1, <3>2
    <3>6. CASE dc \in Range(old[v])
      <4>1. (W \cup {dc}) \ B = W \ B
        BY <2>1, <3>6
      <4>2. Len(new[v]) = Len(Base(v)) + Cardinality((W \cup {dc}) \ B)
        BY <2>1, <3>2, <3>6, <4>1
      <4>3. QED
        BY <3>3, <3>4, <3>5, <4>2 DEF B
    <3>7. CASE dc \notin Range(old[v])
      <4>1. (W \cup {dc}) \ B = (W \ B) \cup {dc} /\ dc \notin W \ B
        BY <2>1, <3>7
      <4>2. Cardinality((W \ B) \cup {dc}) = Cardinality(W \ B) + 1
        BY <3>4, <4>1, FS_AddElement
      <4>3. Len(new[v]) = Len(Base(v)) + Cardinality(W \ B) + 1
        BY <2>1, <3>2, <3>7
      <4>4. Len(new[v]) = Len(Base(v)) + Cardinality((W \cup {dc}) \ B)
        <5>1. Cardinality((W \cup {dc}) \ B) = Cardinality(W \ B) + 1
          BY <4>1, <4>2
        <5>2. QED
          BY <2>3, <3>4, <4>3, <5>1
      <4>5. QED
        BY <3>3, <3>4, <3>5, <4>4 DEF B
    <3>8. QED
      BY <3>6, <3>7
  <2>6. QED
    BY <2>4, <2>5
<1>8. QED
  BY <1>6, <1>7 DEF SectionsUpTo, new

(* Every step keeps the invariant.                                         *)
LEMMA StepHolds == SectionInv /\ [Next]_vars => SectionInv'
<1> SUFFICES ASSUME SectionInv, [Next]_vars PROVE SectionInv'
  OBVIOUS
<1> DEFINE Keys == {"vcenter", "made", "labels", "ipFamily", "exclude"}
<1>0. /\ Typed /\ Progress /\ DOMAIN cfg = Keys
      /\ IsSource(source) /\ IsInfra(infra) /\ Len(infra.domains) \in Nat /\ next \in Nat
  <2>1. Typed /\ Progress /\ DOMAIN cfg = Keys /\ IsSource(source) /\ IsInfra(infra)
    BY InputsTyped DEF SectionInv, Typed
  <2>2. Len(infra.domains) \in Nat
    BY <2>1, SeqElements DEF IsInfra
  <2>3. QED
    BY <2>1, <2>2 DEF Typed
<1>1. CASE ReadConfig
  <2>1. UNCHANGED given /\ UNCHANGED <<exclude, next>> /\ next = 1 /\ exclude = infra.exclude
    BY <1>0, <1>1 DEF ReadConfig, Typed, Progress
  <2>2. CASE pc' = "error" /\ UNCHANGED cfg
    BY <1>0, <2>1, <2>2 DEF SectionInv, Typed, Progress, Zonal, Steps, given
  <2>3. CASE cfg' \in {readCPIConfigINI, readCPIConfigYAML}
             /\ pc' = IF infra.spec THEN "setIPFamilies" ELSE "done"
    <3>1. DOMAIN cfg' = Keys /\ cfg'.vcenter = source.vcenter /\ cfg'.exclude = source.exclude
      BY <2>3 DEF readCPIConfigINI, createConfig, readCPIConfigYAML, EmptyConfig
    <3>2. QED
      BY <1>0, <2>1, <2>3, <3>1 DEF SectionInv, Typed, Progress, Zonal, Steps, given, IsSource
  <2>4. QED
    BY <1>1, <2>2, <2>3 DEF ReadConfig
<1>2. CASE setIPFamilies
  <2>1. UNCHANGED given /\ UNCHANGED <<exclude, next>> /\ pc = "setIPFamilies"
        /\ pc' = "setExcludeNetworkSubnetCIDR"
    BY <1>2 DEF setIPFamilies
  <2>2. DOMAIN cfg' = Keys /\ cfg'.vcenter = cfg.vcenter
    BY <1>0, <1>2 DEF setIPFamilies
  <2>3. QED
    BY <1>0, <2>1, <2>2 DEF SectionInv, Typed, Progress, Zonal, Steps, given
<1>3. CASE setExcludeNetworkSubnetCIDR
  <2>1. UNCHANGED given /\ UNCHANGED <<cfg, next>> /\ pc = "setExcludeNetworkSubnetCIDR"
        /\ pc' = "setNodes"
    BY <1>3 DEF setExcludeNetworkSubnetCIDR
  <2>2. Excluded(exclude)'
    BY <1>3, <2>1, ExcludeComputes, SameExclusions
  <2>3. QED
    BY <1>0, <2>1, <2>2 DEF SectionInv, Typed, Progress, Zonal, Steps, given
<1>4. CASE setNodes
  <2>1. UNCHANGED given /\ UNCHANGED <<exclude, next>> /\ pc = "setNodes"
        /\ pc' = "setVirtualCenters"
    BY <1>4 DEF setNodes
  <2>2. DOMAIN cfg' = Keys /\ cfg'.vcenter = cfg.vcenter /\ cfg'.exclude = exclude
    BY <1>0, <1>4 DEF setNodes
  <2>3. Excluded(cfg.exclude)'
    BY <1>0, <2>1, <2>2, SameExclusions DEF Progress
  <2>4. QED
    BY <1>0, <2>1, <2>2, <2>3 DEF SectionInv, Typed, Progress, Zonal, Steps, given
<1>5. CASE setVirtualCenters
  <2>1. UNCHANGED given /\ UNCHANGED <<exclude, next>> /\ pc = "setVirtualCenters" /\ next = 1
    BY <1>0, <1>5 DEF setVirtualCenters, Typed
  <2>2. CASE pc' = "panic" /\ UNCHANGED cfg
    BY <1>0, <2>1, <2>2 DEF SectionInv, Typed, Progress, Zonal, Steps, given
  <2>3. CASE pc' = "domains"
    <3>1. DOMAIN cfg' = Keys /\ cfg'.exclude = cfg.exclude
      BY <1>0, <1>5, <2>3 DEF setVirtualCenters
    <3>2. SectionsUpTo(cfg'.vcenter, next')
      BY <1>5, <2>1, <2>3, VirtualCentersCompute
    <3>3. SectionsUpTo(cfg.vcenter, next)' /\ Excluded(cfg.exclude)'
      BY <1>0, <2>1, <3>1, <3>2, SameSections, SameExclusions DEF Progress
    <3>4. SectionNames \subseteq Server
      BY <1>0, BaseTyped DEF Typed
    <3>5. /\ DOMAIN cfg'.vcenter \subseteq Server
          /\ \A v \in DOMAIN cfg'.vcenter : cfg'.vcenter[v] \in Seq(Datacenter)
      BY <3>2, <3>4 DEF SectionsUpTo
    <3>6. QED
      BY <1>0, <2>1, <2>3, <3>1, <3>3, <3>5 DEF SectionInv, Typed, Progress, Zonal, Steps, given
  <2>4. QED
    BY <1>5, <2>2, <2>3 DEF setVirtualCenters
<1>6. CASE FailureDomain
  <2>1. UNCHANGED given /\ UNCHANGED exclude /\ pc = "domains" /\ next \in 1..Len(infra.domains)
    BY <1>0, <1>6 DEF FailureDomain, Typed
  <2>2. CASE pc' = "panic" /\ UNCHANGED <<cfg, next>>
    BY <1>0, <2>1, <2>2 DEF SectionInv, Typed, Progress, Zonal, Steps, given
  <2>3. CASE /\ infra.domains[next].server \in DOMAIN cfg.vcenter
             /\ cfg' = [cfg EXCEPT !.vcenter[infra.domains[next].server] =
                                       WithDatacenter(@, infra.domains[next].datacenter)]
             /\ next' = NextDomain /\ UNCHANGED pc
    <3>1. DOMAIN cfg' = Keys /\ cfg'.exclude = cfg.exclude
      BY <1>0, <2>3
    <3>2. SectionsUpTo(cfg'.vcenter, next')
      BY <2>1, <2>3, FailureDomainComputes DEF NextDomain
    <3>3. SectionsUpTo(cfg.vcenter, next)' /\ Excluded(cfg.exclude)'
      BY <1>0, <2>1, <3>1, <3>2, SameSections, SameExclusions DEF Progress
    <3>4. SectionNames \subseteq Server
      BY <1>0, BaseTyped DEF Typed
    <3>5. /\ DOMAIN cfg'.vcenter \subseteq Server
          /\ \A v \in DOMAIN cfg'.vcenter : cfg'.vcenter[v] \in Seq(Datacenter)
      BY <3>2, <3>4 DEF SectionsUpTo
    <3>6. next' \in 1..(Len(infra.domains) + 1)
      BY <1>0, <2>1, <2>3 DEF NextDomain
    <3>7. QED
      BY <1>0, <2>1, <2>3, <3>1, <3>3, <3>5, <3>6
         DEF SectionInv, Typed, Progress, Zonal, Steps, given
  <2>4. QED
    BY <1>6, <2>2, <2>3 DEF FailureDomain
<1>7. CASE Labels
  <2>1. UNCHANGED given /\ UNCHANGED <<exclude, next>> /\ pc = "domains" /\ pc' = "done"
    BY <1>7 DEF Labels
  <2>2. DOMAIN cfg' = Keys /\ cfg'.exclude = cfg.exclude /\ cfg'.vcenter = cfg.vcenter
    BY <1>0, <1>7 DEF Labels
  <2>3. next = Len(infra.domains) + 1
    BY <1>0, <1>7 DEF Labels, Typed
  <2>4. SectionsUpTo(cfg.vcenter, next)' /\ Excluded(cfg.exclude)'
    BY <1>0, <2>1, <2>2, SameSections, SameExclusions DEF Progress
  <2>5. QED
    BY <1>0, <2>1, <2>2, <2>3, <2>4 DEF SectionInv, Typed, Progress, Zonal, Steps, given
<1>8. CASE UNCHANGED vars
  <2>1. UNCHANGED given /\ UNCHANGED <<exclude, cfg, pc, next>>
    BY <1>8 DEF vars, given
  <2>2. Zonal' <=> Zonal
    BY <2>1 DEF Zonal, given
  <2>3. Typed'
    BY <1>0, <2>1 DEF Typed, given
  <2>4. /\ SectionsUpTo(cfg.vcenter, next)' <=> SectionsUpTo(cfg.vcenter, next)
        /\ Excluded(exclude)' <=> Excluded(exclude)
        /\ Excluded(cfg.exclude)' <=> Excluded(cfg.exclude)
    BY <2>1, SameSections, SameExclusions
  <2>5. Progress'
    BY <1>0, <2>1, <2>2, <2>4 DEF Progress, given
  <2>6. QED
    BY <2>3, <2>5 DEF SectionInv
<1>9. QED
  BY <1>1, <1>2, <1>3, <1>4, <1>5, <1>6, <1>7, <1>8 DEF Next

(* The inductive invariant holds.                                          *)
LEMMA SectionsAlwaysHold == Spec => []SectionInv
BY InitHolds, StepHolds, PTL DEF Spec

(* The state of the transformer has its types, whatever the inputs.        *)
THEOREM TransformerTypes == Spec => []TypeOK
<1>1. SectionInv => TypeOK
  BY DEF SectionInv, Typed, TypeOK, EmptyConfig
<1>2. QED
  BY <1>1, SectionsAlwaysHold, PTL

(* The sections setVirtualCenters leaves are exactly those of the source   *)
(* and the spec, and list exactly the datacenters of the spec or source    *)
(* and of the failure domains, each of the latter once.                    *)
THEOREM SectionsAreExact == Spec => []SectionsExact
<1>1. SectionInv => SectionsExact
  <2> SUFFICES ASSUME SectionInv, Zonal PROVE SectionsExact
    BY DEF SectionsExact
  <2>1. SectionsUpTo(cfg.vcenter, next) /\ next = Len(infra.domains) + 1
    BY DEF SectionInv, Progress
  <2>2. Len(infra.domains) \in Nat /\ DOMAIN infra.domains = 1..Len(infra.domains)
    BY InputsTyped, SeqElements DEF SectionInv, Typed, IsInfra
  <2>3. 1..(next - 1) = DOMAIN infra.domains
    BY <2>1, <2>2
  <2>4. \A v : WantedBefore(v, next) =
                 {d \in Datacenter : \E i \in DOMAIN infra.domains :
                      infra.domains[i] = [server |-> v, datacenter |-> d]}
    BY <2>3 DEF WantedBefore
  <2>5. DOMAIN cfg.vcenter = SectionNames
    BY <2>1 DEF SectionsUpTo
  <2>6. QED
    BY <2>1, <2>4, <2>5 DEF SectionsExact, SectionsUpTo, SectionNames
<1>2. QED
  BY <1>1, SectionsAlwaysHold, PTL

(* With the platform's spec and IPv6 the result excludes the API and       *)
(* ingress addresses and that of OVN on both sides, next to those of the   *)
(* Infrastructure; with IPv4 these alone; and without the spec those of    *)
(* cloud.conf: setNodes copies what setExcludeNetworkSubnetCIDR has added  *)
(* before.                                                                 *)
THEOREM VIPsAreExcluded == Spec => []ExcludesVIPs
<1>1. SectionInv => ExcludesVIPs
  <2>1. CASE Zonal
    <3>1. SectionInv => Excluded(cfg.exclude)
      BY <2>1 DEF SectionInv, Progress
    <3>2. QED
      BY <2>1, <3>1 DEF Zonal, ExcludesVIPs, Excluded
  <2>2. CASE pc = "done" /\ ~infra.spec
    BY <2>2 DEF SectionInv, Progress, ExcludesVIPs
  <2>3. QED
    BY <2>1, <2>2 DEF Zonal, ExcludesVIPs
<1>2. QED
  BY <1>1, SectionsAlwaysHold, PTL
=============================================================================

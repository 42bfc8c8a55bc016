--------------------------- MODULE ProcessInputs ---------------------------
(***************************************************************************)
(* What the two processes of the pod work from besides the objects their   *)
(* controllers watch, from the start of main to what they apply:           *)
(*                                                                         *)
(*   operator    the TLS profile of the APIServer, read once at the start  *)
(*               (a watcher ends the process when it changes); the feature *)
(*               gates, kept by an accessor with informers of its own; the *)
(*               images file, a mounted ConfigMap; the Proxy, read from    *)
(*               the cache and not watched.  ComposeConfig and GetResources*)
(*               (module ProviderAssets) make the operands of them.        *)
(*   configSync  the static REST mapper (module RestMapper), and the       *)
(*               feature gates for the cloud config transformers.          *)
(*                                                                         *)
(* An event that makes a controller reconcile and the copy the reconcile   *)
(* then reads travel separately; the module is about their races.          *)
(***************************************************************************)
EXTENDS RestMapper, ProviderAssets, FiniteSets

CONSTANTS
  Processes,    \* which of the two to look at
  Infras,       \* clusters: platform type, Azure Stack Hub, single replica
  APIServers,   \* APIServer objects a cluster may start with
  GateStatuses, \* what the FeatureGate status may list for this release
  Images,       \* contents of the images ConfigMap: readable or not, images
  Proxies,      \* statuses of the Proxy
  ChangeKinds,  \* what changes in the cluster
  FaultKinds,   \* what fails: "fetch", "discovery", "crash"
  MaxChanges,   \* bound on the former
  MaxFaults,    \* bound on the latter
  Nothing       \* a model value: nothing has been applied

ASSUME ProcessAssumption ==
  /\ Processes \subseteq {"operator", "configSync"}
  /\ \A i \in Infras : DOMAIN i = {"type", "stack", "single"}
  /\ \A i \in Images : DOMAIN i = {"readable", "refs"}
  /\ Infras # {} /\ Images # {} /\ Proxies # {}
  /\ MaxChanges \in Nat /\ MaxFaults \in Nat

\* The TLS adherence policy: no opinion (and legacy), or strict.
Policy == {"", "Strict"}

\* The TLS profile; "CustomNil" is type Custom without the custom profile.
Profile == {"Intermediate", "Modern", "CustomNil"}

APIServer == [policy : Policy, profile : Profile]

ASSUME APIServersAssumption == APIServers \subseteq APIServer

\* The FeatureGate status has no entry for the release yet; "bare" is one that
\* does not register VSphereMixedNodeEnv.
NoGates == "noEntry"
GateStatus == GateStatuses \cup {NoGates}

VARIABLES
  process,    \* the process this is about
  infra,      \* the Infrastructure of the cluster
  flags,      \* --tls-min-version or --tls-cipher-suites is given
  phase,      \* how far main has come
  apiserver,  \* the APIServer object: TLS policy and profile
  tls,        \* the policy and profile main has read
  tlsEvent,   \* the TLS watcher has a request
  gates,      \* the FeatureGate status for the release
  observed,   \* the accessor's current feature gates
  images,     \* the images ConfigMap
  imagesFile, \* its content as mounted
  proxy,      \* the Proxy
  proxySeen,  \* the cache's copy
  events,     \* events on their way to the reconciler
  queued,     \* the reconciler has a request
  applied,    \* the inputs of the last completed reconcile: what it applied
  reported,   \* the condition it reported last
  missed,     \* history: an input came after the reconcile that was for it
  published,  \* history: the feature gates the cluster has had
  changes, faults

clusterVars == <<apiserver, gates, images, proxy, served, published>>
inputVars == <<tls, observed, imagesFile, proxySeen>>
workVars == <<tlsEvent, events, queued, applied, reported, missed>>
fixedVars == <<process, infra, flags>>
vars == <<clusterVars, inputVars, workVars, fixedVars, mapperVars, phase, changes, faults>>

FirstPhase == IF process = "operator" THEN "policy" ELSE "groups"

Phase == {"policy", "profile", "gates", "groups", "fetch", "sync", "running", "down"}

Fault(kind) ==
  /\ kind \in FaultKinds /\ faults < MaxFaults
  /\ faults' = faults + 1

-----------------------------------------------------------------------------
(* Start of the operator: pkg/tls, then the wait for the feature gates *)

unlessTLS == <<clusterVars, workVars, fixedVars, mapperVars, changes, observed,
               imagesFile, proxySeen>>

NoTLS == [policy |-> "", profile |-> "empty"]

\* ResolveTLSConfig: flags win, and the cluster's profile is not even read.
TLSFromFlags ==
  /\ phase = "policy" /\ flags
  /\ phase' = "gates"
  /\ UNCHANGED <<unlessTLS, tls, faults>>

\* FetchAPIServerTLSAdherencePolicy; when it fails, no policy.
FetchPolicy ==
  /\ phase = "policy" /\ ~flags
  /\ phase' = "profile"
  /\ \/ tls' = [tls EXCEPT !.policy = apiserver.policy] /\ UNCHANGED faults
     \/ tls' = NoTLS /\ Fault("fetch")
  /\ UNCHANGED unlessTLS

\* FetchAPIServerTLSProfile, a request of its own; when it fails, or a custom
\* profile is nil, the empty profile.
FetchProfile ==
  /\ phase = "profile"
  /\ phase' = "gates"
  /\ \/ /\ tls' = [tls EXCEPT !.profile = IF apiserver.profile = "CustomNil" THEN "empty"
                                          ELSE apiserver.profile]
        /\ UNCHANGED faults
     \/ UNCHANGED tls /\ Fault("fetch")
  /\ UNCHANGED unlessTLS

\* The settings served, and given to the operands, for a policy and a profile.
ResolvedTLS(t) ==
  CASE flags                            -> "flags"
    [] ~flags /\ t.policy = "Strict"    -> t.profile
    [] OTHER                            -> "Intermediate"

\* mgr.Start: the caches list, which makes a request for every controller.
StartManager ==
  /\ phase' = "running"
  /\ queued' = TRUE
  /\ tlsEvent' = (process = "operator" /\ ~flags)
  /\ events' = {}
  /\ proxySeen' = proxy
  /\ UNCHANGED <<clusterVars, tls, observed, imagesFile, applied, reported, missed,
                 fixedVars, mapperVars, changes, faults>>

\* The gates have been observed within the minute, or they have not: the
\* timeout is logged as "unable to start manager", and the manager starts.
GatesReady == phase = "gates" /\ observed # NoGates /\ StartManager
GatesTimeout == phase = "gates" /\ observed = NoGates /\ StartManager

-----------------------------------------------------------------------------
(* Start of config-sync-controllers: the REST mapper, then the watches *)

unlessMapper == <<clusterVars, inputVars, workVars, fixedVars, changes>>

\* The process exits; the kubelet starts it again.
Exit ==
  /\ phase' = "down"
  /\ UNCHANGED <<clusterVars, inputVars, workVars, fixedVars, mapperVars, changes>>

ListGroups ==
  /\ phase = "groups"
  /\ \/ /\ ServerGroups
        /\ phase' = "fetch"
        /\ UNCHANGED <<unlessMapper, faults>>
     \/ Fault("discovery") /\ Exit

FetchResources(gv) ==
  /\ phase = "fetch"
  /\ \/ Answer(gv, "list") /\ UNCHANGED faults
     \/ Answer(gv, "error") /\ Fault("discovery")
     \/ Answer(gv, "both") /\ Fault("discovery")
  /\ UNCHANGED <<unlessMapper, phase>>

NewMapper ==
  /\ phase = "fetch"
  /\ BuildMapper
  /\ phase' = "sync"
  /\ UNCHANGED <<unlessMapper, faults>>

\* The versions of the kinds the two controllers watch.
Watched == {<<"", "v1">>, <<"config.openshift.io", "v1">>}

\* Every source of the controllers finds its kind and syncs ...
ControllersStart ==
  /\ phase = "sync"
  /\ \A gv \in Watched : Maps(gv)
  /\ StartManager

\* ... or waits for a kind the mapper does not know, until CacheSyncTimeout.
ControllersTimeOut ==
  /\ phase = "sync"
  /\ \E gv \in Watched : ~Maps(gv)
  /\ Exit
  /\ UNCHANGED faults

-----------------------------------------------------------------------------
(* The inputs of a running process, and what announces them *)

\* No reconcile that follows is owed to the change: the next one is the resync.
Unannounced(event) == phase = "running" /\ ~queued /\ event \notin events

\* The accessor's own informer and worker; without an entry it keeps retrying.
ObserveGates ==
  /\ phase \in {"gates", "sync", "running"}
  /\ gates # NoGates /\ observed # gates
  /\ observed' = gates
  /\ missed' = (missed \/ Unannounced("gates"))
  /\ UNCHANGED <<clusterVars, tls, imagesFile, proxySeen, tlsEvent, events, queued,
                 applied, reported, fixedVars, mapperVars, phase, changes, faults>>

\* The kubelet updates the mounted file some time after the ConfigMap.
UpdateImagesFile ==
  /\ imagesFile # images
  /\ imagesFile' = images
  /\ missed' = (missed \/ Unannounced("images"))
  /\ UNCHANGED <<clusterVars, tls, observed, proxySeen, tlsEvent, events, queued,
                 applied, reported, fixedVars, mapperVars, phase, changes, faults>>

\* The Proxy reaches the cache; no controller of the operator watches it.
DeliverProxy ==
  /\ phase = "running" /\ proxySeen # proxy
  /\ proxySeen' = proxy
  /\ missed' = (missed \/ Unannounced("proxy"))
  /\ UNCHANGED <<clusterVars, tls, observed, imagesFile, tlsEvent, events, queued,
                 applied, reported, fixedVars, mapperVars, phase, changes, faults>>

unlessQueue == <<clusterVars, inputVars, tlsEvent, applied, reported, missed,
                 fixedVars, mapperVars, phase, changes, faults>>

DeliverEvent(e) ==
  /\ e \in events
  /\ events' = events \ {e}
  /\ queued' = TRUE
  /\ UNCHANGED unlessQueue

Resync ==
  /\ phase = "running" /\ ~queued
  /\ queued' = TRUE
  /\ UNCHANGED <<events, unlessQueue>>

-----------------------------------------------------------------------------
(* The reconcilers, as far as these inputs go *)

\* What a reconcile works from.
InUse ==
  IF process = "configSync" THEN [gates |-> observed]
  ELSE [images |-> imagesFile, gates |-> observed, tls |-> ResolvedTLS(tls), proxy |-> proxySeen]

\* The config ComposeConfig makes of what a reconcile works from, when the
\* images file can be read.
ComposeConfig(in) ==
  [type |-> infra.type, stack |-> infra.stack, single |-> infra.single,
   images |-> in.images.refs, gates |-> in.gates, tls |-> in.tls, proxy |-> in.proxy]

\* Mutant of Outcome: nil features are taken for no features.
OutcomeWithoutGates(in) ==
  IF ~in.images.readable THEN "error" ELSE NewProviderAssets(ComposeConfig(in))

\* Mutant of Outcome: the gates are asked for before the images file is read.
OutcomeGatesFirst(in) ==
  IF in.gates = NoGates THEN "panic"
  ELSE IF ~in.images.readable THEN "error"
  ELSE NewProviderAssets(ComposeConfig(in))

\* What becomes of a reconcile.  GetEnabledDisabledFeatures dereferences the
\* accessor's features, nil until they are observed; the images file is read
\* before that.
Outcome(in) ==
  IF ~in.images.readable THEN "error"
  ELSE IF in.gates = NoGates THEN "panic"
  ELSE NewProviderAssets(ComposeConfig(in))

unlessReconciled == <<clusterVars, inputVars, tlsEvent, events, missed, fixedVars,
                      mapperVars, phase, changes, faults>>

\* Mutant of Reconcile: the error is reported and not returned.
ReconcileSwallows ==
  /\ process = "operator" /\ phase = "running" /\ queued
  /\ \/ Outcome(InUse) = "error" /\ reported' = "degraded" /\ UNCHANGED applied
     \/ Outcome(InUse) = "ok" /\ reported' = "available" /\ applied' = InUse
  /\ queued' = FALSE
  /\ UNCHANGED unlessReconciled

\* Reconcile and sync.  An error is reported; a panic is recovered and reported
\* to nobody.  Both leave the request to be retried.
Reconcile ==
  /\ process = "operator" /\ phase = "running" /\ queued
  /\ \/ /\ Outcome(InUse) = "error"
        /\ reported' = "degraded"
        /\ UNCHANGED <<queued, applied>>
     \/ Outcome(InUse) = "panic" /\ UNCHANGED <<queued, applied, reported>>
     \/ /\ Outcome(InUse) = "ok"
        /\ applied' = InUse
        /\ reported' = "available"
        /\ queued' = FALSE
  /\ UNCHANGED unlessReconciled

\* The cloud config controller: CurrentFeatureGates errs until they are observed.
ReconcileCloudConfig ==
  /\ process = "configSync" /\ phase = "running" /\ queued
  /\ \/ /\ observed = NoGates
        /\ reported' = "degraded"
        /\ UNCHANGED <<queued, applied>>
     \/ /\ observed # NoGates
        /\ applied' = InUse
        /\ reported' = "available"
        /\ queued' = FALSE
  /\ UNCHANGED unlessReconciled

\* Mutant of Restarts: a change of the adherence policy is not looked for.
RestartsForProfile == apiserver.profile # tls.profile

Restarts == apiserver # tls

\* The SecurityProfileWatcher: an unusable profile is an error, retried; another
\* profile or policy than main has read ends the process.
WatchTLS ==
  /\ phase = "running" /\ tlsEvent
  /\ apiserver.profile # "CustomNil"
  /\ \/ Restarts /\ Exit
     \/ /\ ~Restarts
        /\ tlsEvent' = FALSE
        /\ UNCHANGED <<clusterVars, inputVars, events, queued, applied, reported,
                       missed, fixedVars, mapperVars, phase, changes>>
  /\ UNCHANGED faults

-----------------------------------------------------------------------------
(* The cluster and the kubelet *)

Change(kind) ==
  /\ kind \in ChangeKinds /\ changes < MaxChanges
  /\ changes' = changes + 1
  /\ UNCHANGED <<inputVars, queued, applied, reported, missed, fixedVars,
                 mapperVars, phase, faults>>

ChangeAPIServer(a) ==
  /\ a # apiserver
  /\ Change("tls")
  /\ apiserver' = a
  /\ tlsEvent' = (tlsEvent \/ (phase = "running" /\ process = "operator" /\ ~flags))
  /\ UNCHANGED <<gates, images, proxy, served, published, events>>

\* The operator's reconciler watches FeatureGate, config-sync does not.
ChangeGates(g) ==
  /\ g # gates
  /\ Change("gates")
  /\ gates' = g
  /\ published' = published \cup {g}
  /\ events' = IF phase = "running" /\ process = "operator" THEN events \cup {"gates"}
               ELSE events
  /\ UNCHANGED <<apiserver, images, proxy, served, tlsEvent>>

\* The images ConfigMap is in the operator's own namespace; ConfigMaps are
\* watched in the managed one.
ChangeImages(i) ==
  /\ i # images
  /\ process = "operator"
  /\ Change("images")
  /\ images' = i
  /\ UNCHANGED <<apiserver, gates, proxy, served, published, tlsEvent, events>>

ChangeProxy(p) ==
  /\ p # proxy
  /\ process = "operator"
  /\ Change("proxy")
  /\ proxy' = p
  /\ UNCHANGED <<apiserver, gates, images, served, published, tlsEvent, events>>

\* A CustomResourceDefinition is established and its group appears.
InstallGroup(g) ==
  /\ process = "configSync" /\ g \notin served
  /\ served' = served \cup {g}
  /\ UNCHANGED <<apiserver, gates, images, proxy, published, inputVars, workVars,
                 fixedVars, mapperVars, phase, changes, faults>>

Crash == phase # "down" /\ Fault("crash") /\ Exit

Restart ==
  /\ phase = "down"
  /\ phase' = FirstPhase
  /\ tls' = NoTLS /\ observed' = NoGates
  /\ tlsEvent' = FALSE /\ events' = {} /\ queued' = FALSE
  /\ toFetch' = {} /\ resources' = {} /\ failed' = {} /\ mapper' = NoMapper
  /\ UNCHANGED <<clusterVars, imagesFile, proxySeen, applied, reported, missed,
                 fixedVars, changes, faults>>

-----------------------------------------------------------------------------
\* The operator with any inputs, or config-sync, which uses the gates alone and
\* may find an API group that is not installed yet (never the core group).
OperatorInputs ==
  /\ process = "operator"
  /\ infra \in Infras /\ images \in Images
  /\ \/ flags = FALSE /\ apiserver \in APIServers
     \/ flags = TRUE /\ apiserver = [policy |-> "Strict", profile |-> "Modern"]
  /\ served = GroupNames

ConfigSyncInputs ==
  /\ process = "configSync"
  /\ infra = CHOOSE i \in Infras : TRUE
  /\ flags = FALSE
  /\ apiserver = [policy |-> "", profile |-> "Intermediate"]
  /\ images = CHOOSE i \in Images : TRUE
  /\ served \in {S \in SUBSET GroupNames : "" \in S}

Init ==
  /\ process \in Processes
  /\ OperatorInputs \/ ConfigSyncInputs
  /\ gates \in GateStatus /\ published = {gates}
  /\ proxy = CHOOSE p \in Proxies : TRUE
  /\ phase = FirstPhase
  /\ MapperInit
  /\ tls = NoTLS /\ observed = NoGates /\ imagesFile = images /\ proxySeen = proxy
  /\ tlsEvent = FALSE /\ events = {} /\ queued = FALSE
  /\ applied = Nothing /\ reported = "none" /\ missed = FALSE
  /\ changes = 0 /\ faults = 0

Environment ==
  \/ \E a \in APIServer : ChangeAPIServer(a)
  \/ \E g \in GateStatuses : ChangeGates(g)
  \/ \E i \in Images : ChangeImages(i)
  \/ \E p \in Proxies : ChangeProxy(p)
  \/ Crash

Start ==
  \/ TLSFromFlags \/ FetchPolicy \/ FetchProfile \/ GatesReady \/ GatesTimeout
  \/ ListGroups \/ (\E gv \in Outstanding : FetchResources(gv)) \/ NewMapper
  \/ ControllersStart \/ ControllersTimeOut \/ Restart

Deliver == DeliverEvent("gates")

Install == \E g \in GroupNames : InstallGroup(g)

Next ==
  \/ Environment \/ Start \/ Deliver \/ Install
  \/ ObserveGates \/ UpdateImagesFile \/ DeliverProxy \/ Resync
  \/ Reconcile \/ ReconcileCloudConfig \/ WatchTLS

Spec == Init /\ [][Next]_vars

\* Processes run and are restarted, informers and the kubelet deliver, and the
\* groups of the cluster's own API are installed.  The resync is left out.
FairSpec ==
  /\ Spec
  /\ WF_vars(Start) /\ WF_vars(Deliver) /\ WF_vars(Install)
  /\ WF_vars(ObserveGates) /\ WF_vars(UpdateImagesFile) /\ WF_vars(DeliverProxy)
  /\ WF_vars(Reconcile) /\ WF_vars(ReconcileCloudConfig) /\ WF_vars(WatchTLS)

-----------------------------------------------------------------------------
(* Properties *)

\* Every variable has its type; what is applied is nothing, operands, or a
\* transformed cloud config.
TypeOK ==
  /\ process \in Processes /\ infra \in Infras /\ flags \in BOOLEAN
  /\ phase \in Phase
  /\ apiserver \in APIServer
  /\ tls \in [policy : Policy, profile : {"Intermediate", "Modern", "empty"}]
  /\ gates \in GateStatus /\ observed \in GateStatus /\ published \subseteq GateStatus
  /\ images \in Images /\ imagesFile \in Images
  /\ proxy \in Proxies /\ proxySeen \in Proxies
  /\ events \subseteq {"gates"}
  /\ queued \in BOOLEAN /\ tlsEvent \in BOOLEAN /\ missed \in BOOLEAN
  /\ reported \in {"none", "degraded", "available"}
  /\ applied # Nothing => applied.gates \in GateStatus
  /\ served \subseteq GroupNames /\ toFetch \subseteq VersionsOf(served)
  /\ resources \subseteq toFetch /\ failed \subseteq toFetch
  /\ mapper # NoMapper => mapper \subseteq resources
  /\ changes \in 0 .. MaxChanges /\ faults \in 0 .. MaxFaults

\* Whatever was applied was made from feature gates the cluster has published
\* for this release, though main starts the manager without them after a minute
\* (main.go) and ComposeConfig ignores the accessor's error (config.go).
GatesWerePublished ==
  applied # Nothing => applied.gates \in published \ {NoGates}

\* A mapper in use knows every version of the wanted groups that were served
\* when it was built, unless its fetch failed: fetchGroupVersionResources waits
\* for the last of its goroutines (restmapper.go).  One that controllers run with
\* knows all they watch, though no failed fetch is reported.
MapperComplete ==
  /\ process = "configSync" /\ phase = "running" => \A gv \in Watched : Maps(gv)
  /\ mapper # NoMapper => \A gv \in toFetch : Maps(gv) \/ gv \in failed

\* What a reconcile would work from if every copy were up to date.
Wanted ==
  IF process = "configSync" THEN [gates |-> gates]
  ELSE [images |-> images, gates |-> gates, tls |-> ResolvedTLS(apiserver), proxy |-> proxy]

Usable ==
  /\ gates # NoGates
  /\ process = "operator" =>
       Outcome(Wanted) = "ok" /\ (flags \/ apiserver.profile # "CustomNil")

\* The periodic resync happens where a change reached its copy too late.
ResyncIfMissed == <>missed => WF_vars(Resync)

\* Once the inputs stay usable, what is applied comes to be what they call for
\* and stays so: the TLS watcher restarts the operator for another profile, a
\* mapper with holes ends config-sync and the next one is complete, panics and
\* errors are retried.  The resync is needed only for an input whose copy comes
\* later than the event (accessor) or that has none (mounted file, Proxy, the
\* gates in config-sync).
Follows ==
  ResyncIfMissed =>
    (<>[]Usable => <>[](phase = "running" /\ applied = Wanted /\ reported = "available"))

\* No event, error, panic or restart is lost on the way from these inputs to what
\* is applied: when the copies are up to date, no event or request is left and no
\* input came after the reconcile that was for it, what was applied last is what
\* the inputs call for, with the TLS profile the cluster has now.
AppliedAtRest ==
  /\ phase = "running" /\ ~queued /\ ~tlsEvent /\ events = {} /\ ~missed
  /\ observed = gates /\ imagesFile = images /\ proxySeen = proxy
  => applied = Wanted /\ reported = "available"

BadImages ==
  /\ process = "operator"
  /\ IF images.readable
     THEN /\ gates # NoGates /\ HasAssets(infra)
          /\ \E i \in RequiredImages(infra) : images.refs[i] = ""
     ELSE TRUE

\* Images that stay unreadable, or without one the platform needs, are reported
\* as Degraded; unreadable ones whatever the feature gates are, since
\* ComposeConfig reads the file before it asks for them, missing ones even where
\* the gates would make vSphere's template values panic.
BadImagesReported ==
  ResyncIfMissed =>
    (<>[]BadImages => <>[](reported = "degraded"))

\* The disruption budget, the Service and the Deployment applied belong together:
\* one Deployment, whose pods the Service selects; a budget that selects them too
\* when there is a replica to spare, and none when it would block every drain.
\* SubstituteCommonPartsFromConfig and GetCommonResources decide separately.
BudgetFits ==
  LET objects == GetResources(ComposeConfig(applied))
      of(kind) == {objects[i] : i \in {j \in 1 .. Len(objects) : objects[j].kind = kind}}
      selects(s, d) == s.label = d.label /\ s.platform = d.platform
  IN  process = "operator" /\ applied # Nothing /\ HasAssets(infra) =>
        \E d \in of("Deployment") :
          /\ of("Deployment") = {d}
          /\ \A s \in of("Service") \cup of("PodDisruptionBudget") : selects(s, d)
          /\ \A n \in of("DaemonSet"), s \in of("Service") : ~selects(s, n)
          /\ of("Service") # {}
          /\ \A b \in of("PodDisruptionBudget") : d.replicas > b.minAvailable
          /\ d.replicas > 1 => of("PodDisruptionBudget") # {}
=============================================================================

------------------------ MODULE ProcessInputsProofs ------------------------
(***************************************************************************)
(* Theorems on ProcessInputs, for any platforms, images, proxies, feature  *)
(* gates and API groups, and any order of starts, timeouts, changes and    *)
(* failures: nothing is applied from feature gates the cluster has not     *)
(* published, the REST mapper has all it was asked for, the operands at    *)
(* rest are those the inputs call for, and the disruption budgets fit      *)
(* their replicas.                                                         *)
(***************************************************************************)
EXTENDS ProcessInputs, TLAPS

(* The accessor has what the cluster has published, or nothing yet; so has *)
(* what was applied, and never nothing.                                    *)
GatesInv ==
  /\ gates \in published
  /\ observed \in published \cup {NoGates}
  /\ GatesWerePublished

(* How a step treats the gates: it may publish others, observe them, lose  *)
(* them with the process, or apply what is observed.                       *)
Publishes ==
  published' = published \cup {gates'} /\ UNCHANGED <<observed, applied>>

Observes ==
  UNCHANGED <<gates, published, applied>> /\ observed' \in {observed, gates, NoGates}

Applies ==
  /\ UNCHANGED <<gates, published, observed>>
  /\ observed # NoGates /\ applied'.gates = observed

(* Steps of these three forms keep the invariant of the gates.             *)
LEMMA GateStepKeeps ==
  ASSUME GatesInv, Publishes \/ Observes \/ Applies PROVE GatesInv'
BY DEF GatesInv, GatesWerePublished, Publishes, Observes, Applies

\* A reconcile that completes has been given feature gates.
LEMMA OutcomeNeedsGates ==
  ASSUME NEW in, Outcome(in) = "ok" PROVE in.gates # NoGates
BY DEF Outcome

(* The cluster publishes gates, and the accessor observes them.            *)
LEMMA EnvironmentGates == Environment => Publishes \/ Observes
BY DEF Environment, ChangeAPIServer, ChangeGates, ChangeImages, ChangeProxy, Crash, Exit, Change,
       Publishes, Observes, clusterVars, inputVars, workVars

(* A starting process at most observes them.                               *)
LEMMA StartGates == Start => Observes
BY DEF Start, TLSFromFlags, FetchPolicy, FetchProfile, GatesReady, GatesTimeout, StartManager,
       ListGroups, FetchResources, NewMapper, ControllersStart, ControllersTimeOut, Exit, Restart,
       Observes, unlessTLS, unlessMapper, clusterVars, inputVars, workVars

(* A reconcile applies what is observed, or nothing.                       *)
LEMMA ReconcileGates == Reconcile \/ ReconcileCloudConfig => Applies \/ Observes
<1>1. ASSUME Reconcile PROVE Applies \/ Observes
  <2>1. UNCHANGED <<gates, published, observed>>
    BY <1>1 DEF Reconcile, unlessReconciled, clusterVars, inputVars
  <2>2. UNCHANGED applied \/ (Outcome(InUse) = "ok" /\ applied' = InUse)
    BY <1>1 DEF Reconcile
  <2>3. InUse.gates = observed
    BY DEF InUse
  <2>4. QED
    BY <2>1, <2>2, <2>3, OutcomeNeedsGates DEF Applies, Observes
<1>2. ASSUME ReconcileCloudConfig PROVE Applies \/ Observes
  <2>1. UNCHANGED <<gates, published, observed>>
    BY <1>2 DEF ReconcileCloudConfig, unlessReconciled, clusterVars, inputVars
  <2>2. UNCHANGED applied \/ (observed # NoGates /\ applied' = InUse)
    BY <1>2 DEF ReconcileCloudConfig
  <2>3. InUse.gates = observed
    BY DEF InUse
  <2>4. QED
    BY <2>1, <2>2, <2>3 DEF Applies, Observes
<1>3. QED
  BY <1>1, <1>2

(* Every step has one of the three forms.                                  *)
LEMMA StepGates == [Next]_vars => Publishes \/ Observes \/ Applies
<1>1. ASSUME Deliver \/ Install \/ Resync PROVE Observes
  BY <1>1 DEF Deliver, DeliverEvent, Install, InstallGroup, Resync, Observes, unlessQueue,
              clusterVars, inputVars, workVars
<1>2. ASSUME ObserveGates \/ UpdateImagesFile \/ DeliverProxy PROVE Observes
  BY <1>2 DEF ObserveGates, UpdateImagesFile, DeliverProxy, Observes, clusterVars
<1>3. ASSUME WatchTLS PROVE Observes
  BY <1>3 DEF WatchTLS, Exit, Observes, clusterVars, inputVars, workVars
<1>4. ASSUME UNCHANGED vars PROVE Observes
  BY <1>4 DEF vars, Observes, clusterVars, inputVars, workVars
<1>5. QED
  BY <1>1, <1>2, <1>3, <1>4, EnvironmentGates, StartGates, ReconcileGates DEF Next

\* Everything the two processes apply is made from feature gates that the
\* cluster has published for the release, whether main waited for them or timed
\* out, and although ComposeConfig drops the accessor's error.
THEOREM AppliedGatesWerePublished == Spec => []GatesWerePublished
<1>1. Init => GatesInv
  <2>1. Init => published = {gates} /\ observed = NoGates /\ applied = Nothing
    BY DEF Init
  <2>2. QED
    BY <2>1 DEF GatesInv, GatesWerePublished
<1>2. GatesInv /\ [Next]_vars => GatesInv'
  BY GateStepKeeps, StepGates
<1>3. GatesInv => GatesWerePublished
  BY DEF GatesInv
<1>4. QED
  BY <1>1, <1>2, <1>3, PTL DEF Spec
-----------------------------------------------------------------------------
(* Types *)

(* More groups have more versions.                                         *)
LEMMA VersionsGrow ==
  ASSUME NEW S, NEW T, S \subseteq T PROVE VersionsOf(S) \subseteq VersionsOf(T)
BY DEF VersionsOf

(* The gates a reconcile works from are those observed.                    *)
LEMMA InUseTyped == ASSUME observed \in GateStatus PROVE InUse.gates \in GateStatus
BY DEF InUse

(* What main can have read of the TLS settings.                            *)
TLSRead == [policy : Policy, profile : {"Intermediate", "Modern", "empty"}]

(* A process that has read nothing has a TLS setting of its type.          *)
LEMMA NoTLSTyped == NoTLS \in TLSRead
BY DEF NoTLS, TLSRead, Policy

(* The types hold initially.                                               *)
LEMMA InitTyped == Init => TypeOK
<1> SUFFICES ASSUME Init PROVE TypeOK
  OBVIOUS
<1>1. infra \in Infras /\ images \in Images /\ proxy \in Proxies
  BY ProcessAssumption DEF Init, OperatorInputs, ConfigSyncInputs
<1>2. apiserver \in APIServer /\ flags \in BOOLEAN /\ served \subseteq GroupNames
  <2>1. CASE OperatorInputs
    <3>1. [policy |-> "Strict", profile |-> "Modern"] \in APIServer
      BY DEF APIServer, Policy, Profile
    <3>2. QED
      BY <2>1, <3>1, APIServersAssumption DEF OperatorInputs
  <2>2. CASE ConfigSyncInputs
    <3>1. [policy |-> "", profile |-> "Intermediate"] \in APIServer
      BY DEF APIServer, Policy, Profile
    <3>2. QED
      BY <2>2, <3>1 DEF ConfigSyncInputs
  <2>3. QED
    BY <2>1, <2>2 DEF Init
<1>3. phase \in Phase
  BY DEF Init, FirstPhase, Phase
<1>4. tls \in TLSRead /\ gates \in GateStatus /\ observed \in GateStatus /\ published \subseteq GateStatus
  BY NoTLSTyped DEF Init, GateStatus
<1>5. /\ queued \in BOOLEAN /\ tlsEvent \in BOOLEAN /\ missed \in BOOLEAN
      /\ reported \in {"none", "degraded", "available"} /\ applied = Nothing /\ events = {}
      /\ imagesFile = images /\ proxySeen = proxy /\ process \in Processes
  BY DEF Init
<1>6. toFetch = {} /\ resources = {} /\ failed = {} /\ mapper = NoMapper
  BY DEF Init, MapperInit
<1>7. changes \in 0 .. MaxChanges /\ faults \in 0 .. MaxFaults
  BY ProcessAssumption DEF Init
<1>8. QED
  BY <1>1, <1>2, <1>3, <1>4, <1>5, <1>6, <1>7 DEF TypeOK, TLSRead

(* Every step keeps the types.                                             *)
LEMMA StepTyped == TypeOK /\ [Next]_vars => TypeOK'
<1> SUFFICES ASSUME TypeOK, [Next]_vars PROVE TypeOK'
  OBVIOUS
<1> USE ProcessAssumption
    DEF TypeOK, Phase, clusterVars, inputVars, workVars, fixedVars, mapperVars
<1>1. ASSUME NEW a \in APIServer, ChangeAPIServer(a) PROVE TypeOK'
  BY <1>1 DEF ChangeAPIServer, Change
<1>2. ASSUME NEW g \in GateStatuses, ChangeGates(g) PROVE TypeOK'
  BY <1>2 DEF ChangeGates, Change, GateStatus
<1>3. ASSUME NEW i \in Images, ChangeImages(i) PROVE TypeOK'
  BY <1>3 DEF ChangeImages, Change
<1>4. ASSUME NEW p \in Proxies, ChangeProxy(p) PROVE TypeOK'
  BY <1>4 DEF ChangeProxy, Change
<1>5. CASE Crash
  BY <1>5 DEF Crash, Fault, Exit
<1>6. CASE TLSFromFlags
  BY <1>6 DEF TLSFromFlags, unlessTLS
<1>7. CASE FetchPolicy
  <2>1. [tls EXCEPT !.policy = apiserver.policy] \in TLSRead
    BY DEF APIServer, TLSRead
  <2>2. tls' \in TLSRead
    BY <1>7, <2>1, NoTLSTyped DEF FetchPolicy
  <2>3. QED
    BY <1>7, <2>2 DEF FetchPolicy, Fault, TLSRead, unlessTLS
<1>8. CASE FetchProfile
  <2>1. \A x \in {"Intermediate", "Modern", "empty"} : [tls EXCEPT !.profile = x] \in TLSRead
    BY DEF TLSRead
  <2>2. tls' \in TLSRead
    BY <1>8, <2>1 DEF FetchProfile, APIServer, Profile, TLSRead
  <2>3. QED
    BY <1>8, <2>2 DEF FetchProfile, Fault, TLSRead, unlessTLS
<1>9. CASE GatesReady
  BY <1>9 DEF GatesReady, StartManager
<1>10. CASE GatesTimeout
  BY <1>10 DEF GatesTimeout, StartManager
<1>11. CASE ListGroups
  <2>1. CASE ServerGroups /\ phase' = "fetch" /\ UNCHANGED <<unlessMapper, faults>>
    <3>1. VersionsOf(served \cap WantedGroups) \subseteq VersionsOf(served)
      BY VersionsGrow
    <3>2. QED
      BY <2>1, <3>1 DEF ServerGroups, unlessMapper
  <2>2. CASE Fault("discovery") /\ Exit
    BY <2>2 DEF Fault, Exit
  <2>3. QED
    BY <1>11, <2>1, <2>2 DEF ListGroups
<1>12. ASSUME NEW gv \in Outstanding, FetchResources(gv) PROVE TypeOK'
  BY <1>12 DEF FetchResources, Answer, Outstanding, Fault, unlessMapper
<1>13. CASE NewMapper
  BY <1>13 DEF NewMapper, BuildMapper, unlessMapper
<1>14. CASE ControllersStart
  BY <1>14 DEF ControllersStart, StartManager
<1>15. CASE ControllersTimeOut
  BY <1>15 DEF ControllersTimeOut, Exit
<1>16. CASE Restart
  BY <1>16 DEF Restart, FirstPhase, NoTLS, Policy, GateStatus
<1>17. CASE Deliver
  BY <1>17 DEF Deliver, DeliverEvent, unlessQueue
<1>18. ASSUME NEW g \in GroupNames, InstallGroup(g) PROVE TypeOK'
  BY <1>18, VersionsGrow DEF InstallGroup
<1>19. CASE ObserveGates
  BY <1>19 DEF ObserveGates
<1>20. CASE UpdateImagesFile
  BY <1>20 DEF UpdateImagesFile
<1>21. CASE DeliverProxy
  BY <1>21 DEF DeliverProxy
<1>22. CASE Resync
  BY <1>22 DEF Resync, unlessQueue
<1>23. CASE Reconcile
  BY <1>23, InUseTyped DEF Reconcile, unlessReconciled
<1>24. CASE ReconcileCloudConfig
  BY <1>24, InUseTyped DEF ReconcileCloudConfig, unlessReconciled
<1>25. CASE WatchTLS
  BY <1>25 DEF WatchTLS, Exit
<1>26. CASE UNCHANGED vars
  BY <1>26 DEF vars
<1>27. QED
  BY <1>1, <1>2, <1>3, <1>4, <1>5, <1>6, <1>7, <1>8, <1>9, <1>10, <1>11, <1>12, <1>13,
     <1>14, <1>15, <1>16, <1>17, <1>18, <1>19, <1>20, <1>21, <1>22, <1>23, <1>24, <1>25, <1>26
     DEF Next, Environment, Start, Install

(* The variables of both processes have their types.                       *)
THEOREM ProcessTypes == Spec => []TypeOK
BY InitTyped, StepTyped, PTL DEF Spec

-----------------------------------------------------------------------------
(* The REST mapper *)

(* A mapper was built from all answers, config-sync has phases of its own, *)
(* and its controllers run only with what they watch mapped.               *)
MapperInv ==
  /\ mapper # NoMapper => Outstanding = {} /\ mapper = toFetch \cap resources
  /\ phase \in IF process = "operator" THEN {"policy", "profile", "gates", "running", "down"}
                 ELSE {"groups", "fetch", "sync", "running", "down"}
  /\ process = "configSync" /\ phase = "running" => \A gv \in Watched : Maps(gv)

(* Every step keeps the invariant of the REST mapper.                      *)
LEMMA StepMapper == MapperInv /\ [Next]_vars => MapperInv'
<1> SUFFICES ASSUME MapperInv, [Next]_vars PROVE MapperInv'
  OBVIOUS
<1> USE DEF MapperInv, Maps, Outstanding, clusterVars, inputVars, workVars, fixedVars, mapperVars
<1>1. ASSUME NEW a \in APIServer, ChangeAPIServer(a) PROVE MapperInv'
  BY <1>1 DEF ChangeAPIServer, Change
<1>2. ASSUME NEW g \in GateStatuses, ChangeGates(g) PROVE MapperInv'
  BY <1>2 DEF ChangeGates, Change
<1>3. ASSUME NEW i \in Images, ChangeImages(i) PROVE MapperInv'
  BY <1>3 DEF ChangeImages, Change
<1>4. ASSUME NEW p \in Proxies, ChangeProxy(p) PROVE MapperInv'
  BY <1>4 DEF ChangeProxy, Change
<1>5. CASE Crash
  BY <1>5 DEF Crash, Exit
<1>6. CASE TLSFromFlags
  BY <1>6 DEF TLSFromFlags, unlessTLS
<1>7. CASE FetchPolicy
  BY <1>7 DEF FetchPolicy, unlessTLS
<1>8. CASE FetchProfile
  BY <1>8 DEF FetchProfile, unlessTLS
<1>9. CASE GatesReady
  BY <1>9 DEF GatesReady, StartManager
<1>10. CASE GatesTimeout
  BY <1>10 DEF GatesTimeout, StartManager
<1>11. CASE ListGroups
  BY <1>11 DEF ListGroups, ServerGroups, Exit, unlessMapper
<1>12. ASSUME NEW gv \in Outstanding, FetchResources(gv) PROVE MapperInv'
  BY <1>12 DEF FetchResources, Answer, unlessMapper
<1>13. CASE NewMapper
  BY <1>13 DEF NewMapper, BuildMapper, unlessMapper
<1>14. CASE ControllersStart
  BY <1>14 DEF ControllersStart, StartManager
<1>15. CASE ControllersTimeOut
  BY <1>15 DEF ControllersTimeOut, Exit
<1>16. CASE Restart
  BY <1>16 DEF Restart, FirstPhase
<1>17. CASE Deliver
  BY <1>17 DEF Deliver, DeliverEvent, unlessQueue
<1>18. ASSUME NEW g \in GroupNames, InstallGroup(g) PROVE MapperInv'
  BY <1>18 DEF InstallGroup
<1>19. CASE ObserveGates
  BY <1>19 DEF ObserveGates
<1>20. CASE UpdateImagesFile
  BY <1>20 DEF UpdateImagesFile
<1>21. CASE DeliverProxy
  BY <1>21 DEF DeliverProxy
<1>22. CASE Resync
  BY <1>22 DEF Resync, unlessQueue
<1>23. CASE Reconcile
  BY <1>23 DEF Reconcile, unlessReconciled
<1>24. CASE ReconcileCloudConfig
  BY <1>24 DEF ReconcileCloudConfig, unlessReconciled
<1>25. CASE WatchTLS
  BY <1>25 DEF WatchTLS, Exit
<1>26. CASE UNCHANGED vars
  BY <1>26 DEF vars
<1>27. QED
  BY <1>1, <1>2, <1>3, <1>4, <1>5, <1>6, <1>7, <1>8, <1>9, <1>10, <1>11, <1>12, <1>13,
     <1>14, <1>15, <1>16, <1>17, <1>18, <1>19, <1>20, <1>21, <1>22, <1>23, <1>24, <1>25, <1>26
     DEF Next, Environment, Start, Install

(* A mapper in use has no gap but those of failed fetches, whatever groups *)
(* are installed meanwhile and in whatever order the goroutines answer.    *)
THEOREM MapperIsComplete == Spec => []MapperComplete
<1>1. Init => MapperInv
  BY DEF Init, MapperInit, FirstPhase, MapperInv, OperatorInputs, ConfigSyncInputs
<1>2. MapperInv => MapperComplete
  BY DEF MapperInv, MapperComplete, Maps, Outstanding
<1>3. QED
  BY <1>1, <1>2, StepMapper, PTL DEF Spec

-----------------------------------------------------------------------------
(* What was applied *)

(* Without requests and events, the last reconcile worked from the copies  *)
(* there are; without a request of the watcher, main has read the profile  *)
(* and the policy that the cluster has.                                    *)
AppliedInv ==
  /\ phase = "running" /\ ~queued /\ events = {} /\ ~missed =>
       applied = InUse /\ reported = "available"
  /\ phase = "running" /\ process = "operator" /\ ~flags /\ ~tlsEvent => apiserver = tls

(* What a reconcile works from depends on the copies alone.                *)
LEMMA InUseStays ==
  ASSUME UNCHANGED <<process, flags, tls, observed, imagesFile, proxySeen>> PROVE InUse' = InUse
BY DEF InUse, ResolvedTLS

(* Every step keeps the invariant of what was applied.                     *)
LEMMA StepApplied == MapperInv /\ AppliedInv /\ [Next]_vars => AppliedInv'
<1> SUFFICES ASSUME MapperInv, AppliedInv, [Next]_vars PROVE AppliedInv'
  OBVIOUS
<1> USE DEF MapperInv, AppliedInv, clusterVars, inputVars, workVars, fixedVars
<1>1. ASSUME NEW a \in APIServer, ChangeAPIServer(a) PROVE AppliedInv'
  BY <1>1, InUseStays DEF ChangeAPIServer, Change
<1>2. ASSUME NEW g \in GateStatuses, ChangeGates(g) PROVE AppliedInv'
  BY <1>2, InUseStays DEF ChangeGates, Change
<1>3. ASSUME NEW i \in Images, ChangeImages(i) PROVE AppliedInv'
  BY <1>3, InUseStays DEF ChangeImages, Change
<1>4. ASSUME NEW p \in Proxies, ChangeProxy(p) PROVE AppliedInv'
  BY <1>4, InUseStays DEF ChangeProxy, Change
<1>5. CASE Crash
  BY <1>5 DEF Crash, Exit
<1>6. CASE TLSFromFlags
  BY <1>6 DEF TLSFromFlags, unlessTLS
<1>7. CASE FetchPolicy
  BY <1>7 DEF FetchPolicy, unlessTLS
<1>8. CASE FetchProfile
  BY <1>8 DEF FetchProfile, unlessTLS
<1>9. CASE GatesReady
  BY <1>9 DEF GatesReady, StartManager
<1>10. CASE GatesTimeout
  BY <1>10 DEF GatesTimeout, StartManager
<1>11. CASE ListGroups
  BY <1>11 DEF ListGroups, ServerGroups, Exit, unlessMapper
<1>12. ASSUME NEW gv \in Outstanding, FetchResources(gv) PROVE AppliedInv'
  BY <1>12 DEF FetchResources, Answer, Outstanding, unlessMapper
<1>13. CASE NewMapper
  BY <1>13 DEF NewMapper, BuildMapper, unlessMapper
<1>14. CASE ControllersStart
  BY <1>14 DEF ControllersStart, StartManager
<1>15. CASE ControllersTimeOut
  BY <1>15 DEF ControllersTimeOut, Exit
<1>16. CASE Restart
  BY <1>16 DEF Restart, FirstPhase
<1>17. CASE Deliver
  BY <1>17 DEF Deliver, DeliverEvent, unlessQueue
<1>18. ASSUME NEW g \in GroupNames, InstallGroup(g) PROVE AppliedInv'
  BY <1>18, InUseStays DEF InstallGroup
<1>19. CASE ObserveGates
  BY <1>19 DEF ObserveGates, Unannounced
<1>20. CASE UpdateImagesFile
  BY <1>20 DEF UpdateImagesFile, Unannounced
<1>21. CASE DeliverProxy
  BY <1>21 DEF DeliverProxy, Unannounced
<1>22. CASE Resync
  BY <1>22 DEF Resync, unlessQueue
<1>23. CASE Reconcile
  BY <1>23, InUseStays DEF Reconcile, unlessReconciled
<1>24. CASE ReconcileCloudConfig
  BY <1>24, InUseStays DEF ReconcileCloudConfig, unlessReconciled
<1>25. CASE WatchTLS
  <2>1. CASE Exit
    BY <2>1 DEF Exit
  <2>2. CASE apiserver = tls /\ UNCHANGED <<clusterVars, inputVars, events, queued, applied, reported,
                                           missed, fixedVars, phase>>
    <3>1. InUse' = InUse
      BY <2>2, InUseStays
    <3>2. QED
      BY <2>2, <3>1
  <2>3. QED
    BY <1>25, <2>1, <2>2 DEF WatchTLS, Restarts
<1>26. CASE UNCHANGED vars
  BY <1>26, InUseStays DEF vars
<1>27. QED
  BY <1>1, <1>2, <1>3, <1>4, <1>5, <1>6, <1>7, <1>8, <1>9, <1>10, <1>11, <1>12, <1>13,
     <1>14, <1>15, <1>16, <1>17, <1>18, <1>19, <1>20, <1>21, <1>22, <1>23, <1>24, <1>25, <1>26
     DEF Next, Environment, Start, Install

(* No event, error, panic, timeout or restart is lost: once no request is  *)
(* left and the copies are up to date, what was applied is what the inputs *)
(* of the cluster call for.                                                *)
THEOREM AppliedAtRestHolds == Spec => []AppliedAtRest
<1>1. Init => MapperInv /\ AppliedInv
  BY DEF Init, MapperInit, FirstPhase, MapperInv, AppliedInv, OperatorInputs, ConfigSyncInputs
<1>2. TypeOK /\ AppliedInv => AppliedAtRest
  <2> SUFFICES ASSUME TypeOK, AppliedInv,
                      phase = "running", ~queued, ~tlsEvent, events = {}, ~missed,
                      observed = gates, imagesFile = images, proxySeen = proxy
               PROVE  applied = Wanted /\ reported = "available"
    BY DEF AppliedAtRest
  <2>1. applied = InUse /\ reported = "available"
    BY DEF AppliedInv
  <2>2. process = "configSync" \/ ResolvedTLS(tls) = ResolvedTLS(apiserver)
    <3>1. process = "operator" \/ process = "configSync"
      BY ProcessAssumption DEF TypeOK
    <3>2. CASE flags
      BY <3>2 DEF ResolvedTLS
    <3>3. CASE ~flags
      BY <3>1, <3>3 DEF AppliedInv
    <3>4. QED
      BY <3>2, <3>3
  <2>3. InUse = Wanted
    BY <2>2 DEF InUse, Wanted
  <2>4. QED
    BY <2>1, <2>3
<1>3. QED
  BY <1>1, <1>2, StepMapper, StepApplied, ProcessTypes, PTL DEF Spec

-----------------------------------------------------------------------------
(* The operands belong together *)

(* The kinds of the objects whose templates take nothing from the config.  *)
PlainKind == {"Role", "RoleBinding", "ClusterRole", "ClusterRoleBinding",
              "ValidatingAdmissionPolicy", "ValidatingAdmissionPolicyBinding"}

(* The templates of a platform: one Deployment and it comes first, node    *)
(* managers that have another label, and objects without pods.             *)
FitTemplates(t) ==
  /\ Len(t) \in Nat /\ Len(t) > 0
  /\ t[1].kind = "Deployment" /\ t[1].label = CCMLabel /\ t[1].replicas = 2
  /\ \A i \in 2 .. Len(t) :
       \/ t[i].kind = "DaemonSet" /\ t[i].label = NodeManagerLabel
       \/ t[i].kind \in PlainKind

(* Templates of a Deployment and objects without pods fit.                 *)
LEMMA PlainTemplates ==
  ASSUME NEW image, NEW inits, NEW gated, NEW kinds \in Seq(PlainKind)
  PROVE  FitTemplates(<<Deployment(image, inits, gated)>> \o Plain(kinds))
BY DEF FitTemplates, Deployment, Plain

(* So do those with a DaemonSet for the nodes.                             *)
LEMMA NodeTemplates ==
  ASSUME NEW image, NEW inits, NEW gated, NEW image2, NEW inits2, NEW kinds \in Seq(PlainKind)
  PROVE  FitTemplates(<<Deployment(image, inits, gated), DaemonSet(image2, inits2)>> \o Plain(kinds))
BY DEF FitTemplates, Deployment, DaemonSet, Plain

(* So does a Deployment alone.                                             *)
LEMMA OneTemplate ==
  ASSUME NEW image, NEW inits, NEW gated
  PROVE  FitTemplates(<<Deployment(image, inits, gated)>>)
BY DEF FitTemplates, Deployment

(* So do the templates of every platform.                                  *)
LEMMA PlatformTemplates ==
  ASSUME NEW config, HasAssets(config) PROVE FitTemplates(getAssetsConstructor(config))
<1>1. FitTemplates(aws)
  <2>1. <<"ValidatingAdmissionPolicy", "ValidatingAdmissionPolicyBinding">> \in Seq(PlainKind)
    BY DEF PlainKind
  <2>2. QED
    BY <2>1, PlainTemplates, Zenon DEF aws
<1>2. FitTemplates(gcp)
  <2>1. <<"ClusterRole", "ClusterRoleBinding", "ValidatingAdmissionPolicyBinding", "ValidatingAdmissionPolicy">> \in Seq(PlainKind)
    BY DEF PlainKind
  <2>2. QED
    BY <2>1, PlainTemplates, Zenon DEF gcp
<1>3. FitTemplates(nutanix)
  <2>1. <<"Role", "RoleBinding", "ClusterRole", "ClusterRoleBinding">> \in Seq(PlainKind)
    BY DEF PlainKind
  <2>2. QED
    BY <2>1, PlainTemplates, Zenon DEF nutanix
<1>4. FitTemplates(vsphere)
  <2>1. <<"Role", "RoleBinding", "RoleBinding", "ClusterRole",
         "ClusterRoleBinding", "ClusterRoleBinding">> \in Seq(PlainKind)
    BY DEF PlainKind
  <2>2. QED
    BY <2>1, PlainTemplates, Zenon DEF vsphere
<1>5. FitTemplates(azure)
  <2>1. <<"Role", "RoleBinding", "ClusterRole", "ClusterRoleBinding",
         "ValidatingAdmissionPolicy", "ValidatingAdmissionPolicyBinding", "ValidatingAdmissionPolicyBinding", "ValidatingAdmissionPolicy">> \in Seq(PlainKind)
    BY DEF PlainKind
  <2>2. QED
    BY <2>1, NodeTemplates, Zenon DEF azure
<1>6. FitTemplates(azurestack)
  <2>1. <<"Role", "RoleBinding">> \in Seq(PlainKind)
    BY DEF PlainKind
  <2>2. QED
    BY <2>1, NodeTemplates, Zenon DEF azurestack
<1>7. FitTemplates(ibm) /\ FitTemplates(openstack) /\ FitTemplates(powervs)
  BY OneTemplate, Zenon DEF ibm, openstack, powervs
<1>8. QED
  BY <1>1, <1>2, <1>3, <1>4, <1>5, <1>6, <1>7 DEF HasAssets, getAssetsConstructor

(* The operands: what FitTemplates says, with replicas as the topology     *)
(* calls for, a Service, and a budget where there is a replica to spare.   *)
FitObjects(o, config) ==
  /\ Len(o) \in Nat /\ Len(o) > 1
  /\ /\ o[1].kind = "Deployment" /\ o[1].label = CCMLabel /\ o[1].platform = config.type
     /\ o[1].replicas = IF config.single THEN 1 ELSE 2
  /\ \A i \in 2 .. Len(o) :
       \/ o[i].kind = "DaemonSet" /\ o[i].label = NodeManagerLabel
       \/ o[i].kind \in PlainKind
       \/ o[i] = getService(config)
       \/ ~config.single /\ o[i] = getPDB(config)
  /\ \E i \in 1 .. Len(o) : o[i] = getService(config)
  /\ ~config.single => \E i \in 1 .. Len(o) : o[i] = getPDB(config)

(* What rendering and substitution make of one template.                   *)
LEMMA ObjectOf ==
  ASSUME NEW x, NEW config
  PROVE  LET o == Substituted(config, render(x, config)) IN
         /\ ~IsWorkload(x) => o = x
         /\ IsWorkload(x) =>
              /\ o.kind = x.kind /\ o.label = x.label /\ o.platform = config.type
              /\ o.replicas = IF x.kind = "Deployment" /\ config.single THEN 1 ELSE x.replicas
<1> DEFINE r == render(x, config)
           o == Substituted(config, r)
<1>1. CASE ~IsWorkload(x)
  BY <1>1 DEF render, Substituted
<1>2. CASE IsWorkload(x)
  <2>1. /\ r.kind = x.kind /\ r.label = x.label /\ r.platform = config.type /\ r.replicas = x.replicas
        /\ {"kind", "label", "platform", "env", "replicas"} \subseteq DOMAIN r
    BY <1>2 DEF render
  <2> HIDE DEF r
  <2> DEFINE p == [r EXCEPT !.env = @ \o getProxyArgs(config.proxy)]
  <2>2. /\ p.kind = x.kind /\ p.label = x.label /\ p.platform = config.type /\ p.replicas = x.replicas
        /\ {"kind", "label", "platform", "replicas"} \subseteq DOMAIN p
    BY <2>1
  <2> HIDE DEF p
  <2> DEFINE q == [p EXCEPT !.replicas = 1]
  <2>3. q.kind = x.kind /\ q.label = x.label /\ q.platform = config.type /\ q.replicas = 1
    BY <2>2
  <2> HIDE DEF q
  <2>4. o = IF x.kind = "Deployment" /\ config.single THEN q ELSE p
    <3>1. IsWorkload(r)
      BY <1>2, <2>1 DEF IsWorkload
    <3>2. setProxySettings(config, r) = p
      BY DEF setProxySettings, p
    <3>3. QED
      BY <2>1, <3>1, <3>2 DEF Substituted, q
  <2> HIDE DEF o
  <2>5. /\ o.kind = x.kind /\ o.label = x.label /\ o.platform = config.type
        /\ o.replicas = IF x.kind = "Deployment" /\ config.single THEN 1 ELSE x.replicas
    BY <2>2, <2>3, <2>4
  <2>6. QED
    BY <1>2, <2>5 DEF o, r
<1>3. QED
  BY <1>1, <1>2

(* So do the objects rendered from them, with the common resources.        *)
LEMMA ObjectsFit ==
  ASSUME NEW config, HasAssets(config) PROVE FitObjects(GetResources(config), config)
<1> DEFINE t == getAssetsConstructor(config)
           o(i) == Substituted(config, render(t[i], config))
           s == [i \in 1 .. Len(t) |-> o(i)]
           c == GetCommonResources(config)
<1>1. FitTemplates(t)
  BY PlatformTemplates
<1> HIDE DEF t
<1>2. /\ o(1).kind = "Deployment" /\ o(1).label = CCMLabel /\ o(1).platform = config.type
      /\ o(1).replicas = IF config.single THEN 1 ELSE 2
  BY <1>1, ObjectOf DEF FitTemplates, IsWorkload
<1>3. \A i \in 2 .. Len(t) :
        \/ o(i).kind = "DaemonSet" /\ o(i).label = NodeManagerLabel
        \/ o(i).kind \in PlainKind
  BY <1>1, ObjectOf DEF FitTemplates, IsWorkload, PlainKind
<1> HIDE DEF o
<1>4. Len(s) = Len(t) /\ s \in Seq({o(i) : i \in 1 .. Len(t)}) /\ \A i \in 1 .. Len(t) : s[i] = o(i)
  BY <1>1 DEF FitTemplates
<1>5. GetResources(config) = s \o c
  <2>1. RenderTemplates(t, config) = [i \in 1 .. Len(t) |-> render(t[i], config)]
    BY DEF RenderTemplates
  <2>2. SubstituteCommonPartsFromConfig(config, RenderTemplates(t, config)) = s
    BY <1>1, <2>1 DEF SubstituteCommonPartsFromConfig, FitTemplates, o
  <2>3. QED
    BY <2>2 DEF GetResources, t
<1> HIDE DEF s
<1>6. /\ c \in Seq({getPDB(config), getService(config)})
      /\ Len(c) = IF config.single THEN 1 ELSE 2
      /\ c[Len(c)] = getService(config)
      /\ ~config.single => c[1] = getPDB(config)
  <2>1. CASE config.single
    BY <2>1 DEF GetCommonResources
  <2>2. CASE ~config.single
    BY <2>2 DEF GetCommonResources
  <2>3. QED
    BY <2>1, <2>2
<1> HIDE DEF c
<1> DEFINE q == s \o c
<1>7. /\ Len(q) = Len(t) + Len(c) /\ Len(t) \in Nat /\ Len(t) > 0
      /\ \A i \in 1 .. Len(t) : q[i] = o(i)
      /\ \A i \in (Len(t) + 1) .. (Len(t) + Len(c)) : q[i] = c[i - Len(t)]
  <2> DEFINE U == {o(i) : i \in 1 .. Len(t)} \cup {getPDB(config), getService(config)}
  <2>1. s \in Seq(U) /\ c \in Seq(U)
    BY <1>4, <1>6
  <2> HIDE DEF U
  <2>2. Len(t) \in Nat /\ Len(t) > 0 /\ Len(c) \in Nat /\ Len(s) = Len(t)
    BY <1>1, <1>4, <1>6 DEF FitTemplates
  <2>3. Len(q) = Len(t) + Len(c)
    BY <2>1, <2>2
  <2>4. \A i \in 1 .. Len(t) : q[i] = o(i)
    BY <1>4, <2>1, <2>2
  <2>5. \A i \in (Len(t) + 1) .. (Len(t) + Len(c)) : q[i] = c[i - Len(t)]
    BY <2>1, <2>2
  <2>6. QED
    BY <2>2, <2>3, <2>4, <2>5
<1> HIDE DEF q
<1>8. FitObjects(q, config)
  <2>1. \A i \in 2 .. Len(q) :
          \/ q[i].kind = "DaemonSet" /\ q[i].label = NodeManagerLabel
          \/ q[i].kind \in PlainKind
          \/ q[i] = getService(config)
          \/ ~config.single /\ q[i] = getPDB(config)
    <3> SUFFICES ASSUME NEW i \in 2 .. Len(q), i > Len(t)
                 PROVE  q[i] = getService(config) \/ (~config.single /\ q[i] = getPDB(config))
      BY <1>3, <1>6, <1>7
    <3>1. CASE config.single
      BY <1>6, <1>7, <3>1
    <3>2. CASE ~config.single
      BY <1>6, <1>7, <3>2
    <3>3. QED
      BY <3>1, <3>2
  <2>2. Len(q) \in Nat /\ Len(q) > 1 /\ q[1] = o(1)
    BY <1>6, <1>7
  <2>3. \E i \in 1 .. Len(q) : q[i] = getService(config)
    <3>1. Len(t) + Len(c) \in 1 .. Len(q) /\ q[Len(t) + Len(c)] = c[Len(c)]
      BY <1>6, <1>7
    <3>2. QED
      BY <1>6, <3>1
  <2>4. ~config.single => \E i \in 1 .. Len(q) : q[i] = getPDB(config)
    <3>1. Len(t) + 1 \in 1 .. Len(q) /\ q[Len(t) + 1] = c[1]
      BY <1>6, <1>7
    <3>2. QED
      BY <1>6, <3>1
  <2>5. QED
    BY <1>2, <2>1, <2>2, <2>3, <2>4 DEF FitObjects
<1>9. QED
  BY <1>5, <1>8 DEF q

(* Whatever was applied, on any platform, with any images, proxy and gates *)
(* there is one Deployment, the Service selects its pods and no others,    *)
(* and so does a budget, which it has if and only if it can spare a        *)
(* replica.                                                                *)
THEOREM BudgetAlwaysFits == Spec => []BudgetFits
<1>1. BudgetFits
  <2> SUFFICES ASSUME HasAssets(infra), applied # Nothing, process = "operator" PROVE BudgetFits
    BY DEF BudgetFits
  <2> DEFINE config == ComposeConfig(applied)
             objects == GetResources(config)
             of(kind) == {objects[i] : i \in {j \in 1 .. Len(objects) : objects[j].kind = kind}}
             d == objects[1]
  <2>1. HasAssets(config)
    BY DEF HasAssets, ComposeConfig
  <2> HIDE DEF config
  <2>2. FitObjects(objects, config)
    BY <2>1, ObjectsFit
  <2> HIDE DEF objects
  <2>3. of("Deployment") = {d}
    BY <2>2 DEF FitObjects, PlainKind, getService, getPDB
  <2>4. of("Service") = {getService(config)}
    BY <2>2 DEF FitObjects, PlainKind, getService, getPDB
  <2>5. of("PodDisruptionBudget") = IF config.single THEN {} ELSE {getPDB(config)}
    BY <2>2 DEF FitObjects, PlainKind, getService, getPDB
  <2>6. \A n \in of("DaemonSet") : n.label = NodeManagerLabel
    BY <2>2 DEF FitObjects, PlainKind, getService, getPDB
  <2>7. d.label = CCMLabel /\ d.platform = config.type /\ d.replicas = IF config.single THEN 1 ELSE 2
    BY <2>2 DEF FitObjects
  <2> HIDE DEF of, d
  <2> DEFINE selects(s, w) == s.label = w.label /\ s.platform = w.platform
  <2>8. selects(getService(config), d) /\ selects(getPDB(config), d) /\ getPDB(config).minAvailable = 1
    BY <2>7 DEF getService, getPDB
  <2>9. \A n \in of("DaemonSet") : ~selects(getService(config), n)
    BY <2>6 DEF getService, CCMLabel, NodeManagerLabel
  <2> HIDE DEF selects
  <2>10. /\ d \in of("Deployment") /\ of("Deployment") = {d}
         /\ \A s \in of("Service") \cup of("PodDisruptionBudget") : selects(s, d)
         /\ \A n \in of("DaemonSet"), s \in of("Service") : ~selects(s, n)
         /\ of("Service") # {}
         /\ \A b \in of("PodDisruptionBudget") : d.replicas > b.minAvailable
         /\ d.replicas > 1 => of("PodDisruptionBudget") # {}
    BY <2>3, <2>4, <2>5, <2>7, <2>8, <2>9
  <2>11. QED
    BY <2>10 DEF BudgetFits, of, objects, config, selects
<1>2. QED
  BY <1>1, PTL

=============================================================================

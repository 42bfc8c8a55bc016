----------------------------- MODULE StatusSync -----------------------------
(***************************************************************************)
(* Three reconcilers in two processes of one pod share the status of one   *)
(* ClusterOperator object:                                                 *)
(*                                                                         *)
(*   process "operator":   CloudOperatorReconciler                         *)
(*   process "configSync": CloudConfigReconciler, TrustedCABundleReconciler*)
(*                                                                         *)
(* Each reads the object from its process's informer cache, computes a new *)
(* status (module ClusterOperatorStatus) and writes it with Status().      *)
(* Update; the API server refuses the write when the resourceVersion is    *)
(* not the current one.  The conditions of the two sync controllers gate   *)
(* the operator's deployment of the cloud controller manager.              *)
(***************************************************************************)
EXTENDS ClusterOperatorStatus, Naturals, Sequences, FiniteSets

CONSTANTS
  RV,              \* resource versions, opaque tokens
  NoRV,            \* the resource version of an object that does not exist
  NumResources,    \* how many operands the platform's assets render
  MaxLag,          \* bound: undelivered watch events per process
  MaxFaults,       \* bound: faults and outside interference in a behaviour
  FaultKinds,      \* which of them, see Fault
  ObjectsAtStart,  \* the ClusterOperator when the pod starts
  OperandsAtStart, \* the release whose operands run then
  InfraAtStart,    \* the kinds of Infrastructure when the pod starts
  FinalPlatforms,  \* the platform kinds the installer may fill in
  Requests         \* the requests that come: a controller without any is idle

Process == {"operator", "configSync"}
Controller == {"CloudOperator", "CloudConfig", "TrustedCABundle"}
ProcessOf(c) == IF c = "CloudOperator" THEN "operator" ELSE "configSync"

(***************************************************************************)
(* The requests that make a difference to Reconcile.  TrustedCABundle      *)
(* tells a ConfigMap of openshift-config that is not the proxy's trusted   *)
(* CA ("unrelated") from everything else; the others ignore the request.   *)
(***************************************************************************)
Key == {"clusteroperator", "cloudConfig", "bundle", "unrelated"}

Keys(c) ==
  CASE c = "CloudOperator"   -> Requests \cap {"clusteroperator"}
    [] c = "CloudConfig"     -> Requests \cap {"cloudConfig"}
    [] c = "TrustedCABundle" -> Requests \cap {"bundle", "unrelated"}

NoKey == "none"

(***************************************************************************)
(* What an Infrastructure "cluster" object is to the controllers:          *)
(*   absent       no such object                                           *)
(*   nilPlatform  the object has no platformStatus yet                     *)
(*   External     platform type External                                   *)
(*   none         a type that needs no cloud provider (None, BareMetal)    *)
(*   noAssets     an external provider without assets here (KubeVirt)      *)
(*   ccm          a type with assets and a cloud config (AWS, GCP, ...)    *)
(***************************************************************************)
Platform == {"absent", "nilPlatform", "External", "none", "noAssets", "ccm"}

ASSUME BoundsAssumption ==
  /\ NumResources \in Nat \ {0}
  /\ MaxLag \in Nat
  /\ MaxFaults \in Nat
  /\ NoRV \notin RV
  /\ OperandsAtStart \in Version \ {ReleaseVersion}
  /\ InfraAtStart \subseteq Platform
  /\ FinalPlatforms \subseteq Platform
  /\ Requests \subseteq Key

Operation == {"Degraded", "Progressing", "Available", "ClearOwner",
              "CloudConfigAvailable", "CloudConfigDegraded",
              "TrustedCAAvailable", "TrustedCADegraded"}

\* What follows a status call that succeeds.
Continuation == {"done", "fail", "setAvailable", "clearOwner"}

Object == [rv : RV \cup {NoRV}, status : Status]
NoObject == [rv |-> NoRV, status |-> EmptyStatus]
Exists(o) == o.rv # NoRV

ASSUME StartAssumption ==
  /\ ObjectsAtStart \subseteq Object
  /\ \A o \in ObjectsAtStart : ~Exists(o) => o = NoObject

Call == [op : Operation, then : Continuation]
NoCall == [op |-> "Available", then |-> "done"]

VARIABLES
  co,        \* the ClusterOperator in the API server
  cache,     \* per process: the informer's copy of it
  watch,     \* per process: watch events not yet delivered
  up,        \* per process: it is running
  queue,     \* per controller: the work queue
  pc,        \* per controller: the next step of Reconcile
  req,       \* per controller: the request being reconciled
  call,      \* per controller: the status call being made
  obj,       \* per controller: the copy of co between its read and its write
  infra,     \* the Infrastructure object
  infraSeen, \* per process: the informer's copy of it
  platform,  \* the Infrastructure CloudOperatorReconciler works on
  next,      \* the operand applyResources is at
  operands,  \* per operand: what the cluster runs
  health,    \* per sync controller: whether its inputs can be read and synced
  faults,    \* faults so far
  handedOff  \* history: the gate was open in some version of co

apiVars  == <<co, watch, handedOff>>
opVars   == <<platform, next, operands>>
envVars  == <<cache, up, infra, infraSeen, health>>
vars == <<co, cache, watch, up, queue, pc, req, call, obj, infra, infraSeen,
          platform, next, operands, health, faults, handedOff>>

SyncController == Controller \ {"CloudOperator"}
Health == {"ok", "readError", "syncError"}
PC == {"idle", "provisioningAllowed", "ownedByCCM", "apply", "get", "update"}
Resource == 1 .. NumResources

-----------------------------------------------------------------------------
(* The API server and the watch on it *)

\* Every copy of the object outside the API server.
Copies ==
  {cache[p] : p \in Process} \cup {obj[c] : c \in Controller}
    \cup UNION {{watch[p][i] : i \in 1 .. Len(watch[p])} : p \in Process}

UsedRV == {o.rv : o \in Copies \cup {co}}

HasFreshRV == \E t \in RV : t \notin UsedRV
FreshRV == CHOOSE t \in RV : t \notin UsedRV

\* A write that changes the object: a new resourceVersion, an event per watcher.
Publish(o) ==
  /\ \A p \in Process : up[p] => Len(watch[p]) < MaxLag
  /\ co' = o
  /\ watch' = [p \in Process |->
                 IF up[p] THEN Append(watch[p], o) ELSE watch[p]]
  /\ handedOff' = (handedOff \/ GateOpen(o.status))

\* The update is accepted: a write that changes nothing makes no new version.
CommitStatus(s) ==
  IF s = co.status
  THEN UNCHANGED apiVars
  ELSE HasFreshRV /\ Publish([rv |-> FreshRV, status |-> s])

(***************************************************************************)
(* Something goes wrong: a call to the API server ("call"), a process      *)
(* ("crash"), the inputs of a sync controller ("input"), another client    *)
(* writes ("write") or deletes ("delete") the object, or the platform is   *)
(* filled in only now ("platform").                                        *)
(***************************************************************************)
Fault(kind) ==
  /\ kind \in FaultKinds
  /\ faults < MaxFaults
  /\ faults' = faults + 1

-----------------------------------------------------------------------------
(* getOrCreateClusterOperator *)

Cached(c) == cache[ProcessOf(c)]

Created == [rv |-> FreshRV, status |-> EmptyStatus]

\* The object a successful call returns ...
Obtained(c) == IF Exists(Cached(c)) THEN Cached(c) ELSE Created

\* ... and its effect: Create when the cache has no object.
getOrCreateClusterOperator(c) ==
  IF Exists(Cached(c))
  THEN UNCHANGED apiVars
  ELSE /\ ~Exists(co)
       /\ HasFreshRV
       /\ Publish(Created)

\* Create is refused (AlreadyExists: the cache is behind) or does not get through.
CreateFails(c) ==
  /\ ~Exists(Cached(c))
  /\ \/ Exists(co) /\ UNCHANGED faults
     \/ ~Exists(co) /\ Fault("call")
  /\ UNCHANGED apiVars

-----------------------------------------------------------------------------
(* Control flow shared by the reconcilers *)

Goto(c, label) == pc' = [pc EXCEPT ![c] = label]

\* The work queue hands request k to an idle worker.
Take(c, k) ==
  /\ pc[c] = "idle"
  /\ k \in queue[c]
  /\ queue' = [queue EXCEPT ![c] = @ \ {k}]
  /\ req' = [req EXCEPT ![c] = k]

\* Reconcile returned: nil, or an error (a recovered panic is one).
Leave(c) ==
  /\ Goto(c, "idle")
  /\ req' = [req EXCEPT ![c] = NoKey]
  /\ call' = [call EXCEPT ![c] = NoCall]

ReturnNil(c) == Leave(c) /\ UNCHANGED queue

ReturnError(c) ==
  /\ Leave(c)
  /\ queue' = [queue EXCEPT ![c] = @ \cup {req[c]}]

\* Begin a status call: the next step is its getOrCreateClusterOperator.
StartCall(c, op, then) ==
  /\ Goto(c, "get")
  /\ call' = [call EXCEPT ![c] = [op |-> op, then |-> then]]

Continue(c, op, then) == StartCall(c, op, then) /\ UNCHANGED <<req, queue>>

\* What CloudOperatorReconciler does on every error: report, return the error.
Degrade(c) == Continue(c, "Degraded", "fail")

CallSucceeded(c) ==
  \/ call[c].then = "done" /\ ReturnNil(c)
  \/ call[c].then = "fail" /\ ReturnError(c)
  \/ call[c].then = "setAvailable" /\ Continue(c, "Available", "clearOwner")
  \/ call[c].then = "clearOwner" /\ Continue(c, "ClearOwner", "done")

\* Mutant of CallFailed: the error is logged and Reconcile returns nil.
CallFailedSilently(c) == ReturnNil(c)

\* sync returns setStatusProgressing's error, and Reconcile degrades on it.
CallFailed(c) ==
  IF call[c].op = "Progressing" THEN Degrade(c) ELSE ReturnError(c)

DropObject(c) == obj' = [obj EXCEPT ![c] = NoObject]

-----------------------------------------------------------------------------
(* A status call: getOrCreateClusterOperator, then Status().Update *)

NewStatus(op, s) ==
  CASE op = "Degraded"             -> setStatusDegraded(s)
    [] op = "Progressing"          -> setStatusProgressing(s)
    [] op = "Available"            -> setStatusAvailable(s)
    [] op = "ClearOwner"           -> removeCloudControllerOwner(s)
    [] op = "CloudConfigAvailable" -> cloudConfigSetAvailable(s)
    [] op = "CloudConfigDegraded"  -> cloudConfigSetDegraded(s)
    [] op = "TrustedCAAvailable"   -> trustedCASetAvailable(s)
    [] op = "TrustedCADegraded"    -> trustedCASetDegraded(s)

\* clearCloudControllerOwnerCondition returns early without the condition.
NothingToClear(c) ==
  /\ call[c].op = "ClearOwner"
  /\ ~OwnershipRecorded(Obtained(c).status)

StatusGet(c) ==
  /\ pc[c] = "get"
  /\ getOrCreateClusterOperator(c)
  /\ IF NothingToClear(c)
     THEN CallSucceeded(c) /\ UNCHANGED obj
     ELSE /\ Goto(c, "update")
          /\ obj' = [obj EXCEPT ![c] = Obtained(c)]
          /\ UNCHANGED <<req, call, queue>>
  /\ UNCHANGED <<opVars, envVars, faults>>

StatusGetFails(c) ==
  /\ pc[c] = "get"
  /\ CreateFails(c)
  /\ CallFailed(c)
  /\ UNCHANGED <<obj, opVars, envVars>>

\* The API server's answer to Status().Update of the object that was read.
UpdateAccepted(c) == Exists(co) /\ obj[c].rv = co.rv

\* Mutant of StatusUpdate: the object is sent without its resourceVersion.
StatusUpdateUnversioned(c) ==
  /\ pc[c] = "update"
  /\ IF Exists(co)
     THEN CommitStatus(NewStatus(call[c].op, obj[c].status)) /\ CallSucceeded(c)
     ELSE UNCHANGED apiVars /\ CallFailed(c)
  /\ DropObject(c)
  /\ UNCHANGED <<opVars, envVars, faults>>

StatusUpdate(c) ==
  /\ pc[c] = "update"
  /\ IF UpdateAccepted(c)
     THEN CommitStatus(NewStatus(call[c].op, obj[c].status)) /\ CallSucceeded(c)
     ELSE UNCHANGED apiVars /\ CallFailed(c)
  /\ DropObject(c)
  /\ UNCHANGED <<opVars, envVars, faults>>

\* The request or its answer is lost: the write happened or not, err # nil.
StatusUpdateLost(c) ==
  /\ pc[c] = "update"
  /\ Fault("call")
  /\ \/ UNCHANGED apiVars
     \/ /\ UpdateAccepted(c)
        /\ CommitStatus(NewStatus(call[c].op, obj[c].status))
  /\ CallFailed(c)
  /\ DropObject(c)
  /\ UNCHANGED <<opVars, envVars>>

-----------------------------------------------------------------------------
(* CloudOperatorReconciler.Reconcile *)

Op == "CloudOperator"

OperatorReconcile ==
  /\ Take(Op, "clusteroperator")
  /\ IF infraSeen["operator"] = "absent"
     THEN StartCall(Op, "Available", "done") /\ UNCHANGED platform
     ELSE /\ Goto(Op, "provisioningAllowed")
          /\ platform' = infraSeen["operator"]
          /\ UNCHANGED call
  /\ UNCHANGED <<apiVars, obj, next, operands, envVars, faults>>

\* The Get of the Infrastructure fails other than with NotFound.
OperatorReadFails ==
  /\ Take(Op, "clusteroperator")
  /\ Fault("call")
  /\ StartCall(Op, "Degraded", "fail")
  /\ UNCHANGED <<apiVars, obj, opVars, envVars>>

\* checkControllerConditions, then isPlatformExternal, which dereferences the
\* platform status: a nil one panics, and the panic is recovered as an error.
ProvisioningAllowed ==
  /\ pc[Op] = "provisioningAllowed"
  /\ getOrCreateClusterOperator(Op)
  /\ LET s == Obtained(Op).status IN
     \/ checkControllerConditions(s) = "error" /\ Degrade(Op)
     \/ checkControllerConditions(s) = "wait" /\ ReturnNil(Op)
     \/ /\ checkControllerConditions(s) = "allowed"
        /\ \/ platform = "nilPlatform" /\ ReturnError(Op)
           \/ platform = "External" /\ Continue(Op, "Available", "done")
           \/ /\ platform \notin {"nilPlatform", "External"}
              /\ Goto(Op, "ownedByCCM")
              /\ UNCHANGED <<req, call, queue>>
  /\ UNCHANGED <<obj, opVars, envVars, faults>>

ProvisioningCheckFails ==
  /\ pc[Op] \in {"provisioningAllowed", "ownedByCCM"}
  /\ CreateFails(Op)
  /\ Degrade(Op)
  /\ UNCHANGED <<obj, opVars, envVars>>

\* IsCloudProviderExternal for the platforms that get this far.
CloudProviderExternal == platform \in {"noAssets", "ccm"}

\* len(resources): GetResources finds no assets for the other platforms.
NumAssets == IF platform = "ccm" THEN NumResources ELSE 0

\* The loop of applyResources goes on at n, or ends; what sync and Reconcile
\* then do depends on the value the last ApplyResource gave to updated.
ApplyFrom(n, updated) ==
  IF n <= NumAssets
  THEN /\ Goto(Op, "apply")
       /\ next' = n
       /\ UNCHANGED <<req, call, queue>>
  ELSE /\ next' = 1
       /\ IF updated THEN Continue(Op, "Progressing", "setAvailable")
                      ELSE Continue(Op, "Available", "clearOwner")

OwnershipCheck ==
  /\ pc[Op] = "ownedByCCM"
  /\ getOrCreateClusterOperator(Op)
  /\ IF OwnedByCCM(Obtained(Op).status) \/ CloudProviderExternal
     THEN ApplyFrom(1, FALSE)
     ELSE Continue(Op, "Available", "done") /\ UNCHANGED next
  /\ UNCHANGED <<obj, platform, operands, envVars, faults>>

\* The Proxy cannot be read, the config composed or the assets rendered.
ComposeFails ==
  /\ pc[Op] = "ownedByCCM"
  /\ Exists(Cached(Op))
  /\ OwnedByCCM(Cached(Op).status) \/ CloudProviderExternal
  /\ Fault("call")
  /\ Degrade(Op)
  /\ UNCHANGED <<apiVars, obj, opVars, envVars>>

Applied(n) == [operands EXCEPT ![n] = ReleaseVersion]

ApplyResource ==
  /\ pc[Op] = "apply"
  /\ operands' = Applied(next)
  /\ ApplyFrom(next + 1, operands[next] # ReleaseVersion)
  /\ UNCHANGED <<apiVars, obj, platform, envVars, faults>>

\* Mutant of ApplyResourceFails: the loop goes on after an error.
ApplyResourceSkips ==
  /\ pc[Op] = "apply"
  /\ Fault("call")
  /\ UNCHANGED operands
  /\ ApplyFrom(next + 1, FALSE)
  /\ UNCHANGED <<apiVars, obj, platform, envVars>>

\* ApplyResource (or Watch after it) fails; the write may have happened.
ApplyResourceFails ==
  /\ pc[Op] = "apply"
  /\ Fault("call")
  /\ operands' \in {operands, Applied(next)}
  /\ next' = 1
  /\ Degrade(Op)
  /\ UNCHANGED <<apiVars, obj, platform, envVars>>

-----------------------------------------------------------------------------
(* The sync controllers: what their inputs make of a reconcile *)

\* Mutant of CloudConfigSynced: a nil platform status is not an error.
CloudConfigSyncedNil ==
  LET p == infraSeen["configSync"] IN
  /\ p # "absent"
  /\ health["CloudConfig"] # "readError"
  /\ p = "ccm" => health["CloudConfig"] = "ok"

\* CloudConfigReconciler: the Infrastructure, the Network and a platform status
\* are required; only the platforms with a cloud config sync it.
CloudConfigSynced ==
  LET p == infraSeen["configSync"] IN
  /\ p \notin {"absent", "nilPlatform"}
  /\ health["CloudConfig"] # "readError"
  /\ p = "ccm" => health["CloudConfig"] = "ok"

\* TrustedCABundleReconciler: a request for an unrelated ConfigMap stops once
\* the Proxy has been read (or was not found).
TrustedCASynced(k) ==
  /\ health["TrustedCABundle"] # "readError"
  /\ k = "unrelated" \/ health["TrustedCABundle"] = "ok"

CloudConfigReconcile ==
  /\ Take("CloudConfig", "cloudConfig")
  /\ IF CloudConfigSynced
     THEN StartCall("CloudConfig", "CloudConfigAvailable", "done")
     ELSE StartCall("CloudConfig", "CloudConfigDegraded", "fail")
  /\ UNCHANGED <<apiVars, obj, opVars, envVars, faults>>

TrustedCAReconcile(k) ==
  /\ Take("TrustedCABundle", k)
  /\ IF TrustedCASynced(k)
     THEN StartCall("TrustedCABundle", "TrustedCAAvailable", "done")
     ELSE StartCall("TrustedCABundle", "TrustedCADegraded", "fail")
  /\ UNCHANGED <<apiVars, obj, opVars, envVars, faults>>

-----------------------------------------------------------------------------
(* Informers, processes and the rest of the cluster *)

ctlVars == <<pc, req, call, obj, opVars>>

\* Mutant of DeliverCO: the operator does not watch the ClusterOperator.
DeliverCOUnwatched(p) ==
  /\ watch[p] # << >>
  /\ cache' = [cache EXCEPT ![p] = Head(watch[p])]
  /\ watch' = [watch EXCEPT ![p] = Tail(@)]
  /\ UNCHANGED <<co, handedOff, up, queue, ctlVars, infra, infraSeen, health, faults>>

\* A watch event reaches the cache; only CloudOperator watches ClusterOperators.
DeliverCO(p) ==
  /\ watch[p] # << >>
  /\ cache' = [cache EXCEPT ![p] = Head(watch[p])]
  /\ watch' = [watch EXCEPT ![p] = Tail(@)]
  /\ queue' = IF p = "operator" THEN [queue EXCEPT ![Op] = Keys(Op)] ELSE queue
  /\ UNCHANGED <<co, handedOff, up, ctlVars, infra, infraSeen, health, faults>>

InfraChange ==
  /\ infra \in {"absent", "nilPlatform"}
  /\ Fault("platform")
  /\ infra' \in FinalPlatforms \ {infra}
  /\ UNCHANGED <<apiVars, cache, up, queue, ctlVars, infraSeen, health>>

DeliverInfra(p) ==
  /\ up[p]
  /\ infraSeen[p] # infra
  /\ infraSeen' = [infraSeen EXCEPT ![p] = infra]
  /\ LET c == IF p = "operator" THEN Op ELSE "CloudConfig" IN
     queue' = [queue EXCEPT ![c] = Keys(c)]
  /\ UNCHANGED <<apiVars, cache, up, ctlVars, infra, health, faults>>

\* Any event a controller watches, and the resync every SyncPeriod.  One that
\* comes while the worker is busy waits for it: it is modelled as coming then.
Trigger(c, k) ==
  /\ up[ProcessOf(c)]
  /\ pc[c] = "idle"
  /\ k \notin queue[c]
  /\ queue' = [queue EXCEPT ![c] = @ \cup {k}]
  /\ UNCHANGED <<apiVars, ctlVars, envVars, faults>>

\* The inputs of a sync controller break or are repaired (those of an idle one
\* do not matter).
HealthChange(c) ==
  /\ Fault("input")
  /\ Keys(c) # {}
  /\ \E h \in Health \ {health[c]} : health' = [health EXCEPT ![c] = h]
  /\ UNCHANGED <<apiVars, cache, up, queue, ctlVars, infra, infraSeen>>

\* Another client writes the object without changing what is modelled of it,
\* deletes it, or creates it (the CVO, from its manifest, if "create" is given).
OthersWriteCO ==
  /\ \/ Fault("write") /\ Exists(co) /\ HasFreshRV /\ Publish([co EXCEPT !.rv = FreshRV])
     \/ Fault("delete") /\ Exists(co) /\ Publish(NoObject)
     \/ /\ "create" \in FaultKinds /\ UNCHANGED faults
        /\ ~Exists(co) /\ HasFreshRV /\ Publish(Created)
  /\ UNCHANGED <<queue, ctlVars, envVars>>

\* The process exits, at any point of its reconciles.
Crash(p) ==
  /\ up[p]
  /\ Fault("crash")
  /\ up' = [up EXCEPT ![p] = FALSE]
  /\ cache' = [cache EXCEPT ![p] = NoObject]
  /\ watch' = [watch EXCEPT ![p] = << >>]
  /\ queue' = [c \in Controller |-> IF ProcessOf(c) = p THEN {} ELSE queue[c]]
  /\ pc'    = [c \in Controller |-> IF ProcessOf(c) = p THEN "idle" ELSE pc[c]]
  /\ req'   = [c \in Controller |-> IF ProcessOf(c) = p THEN NoKey ELSE req[c]]
  /\ call'  = [c \in Controller |-> IF ProcessOf(c) = p THEN NoCall ELSE call[c]]
  /\ obj'   = [c \in Controller |-> IF ProcessOf(c) = p THEN NoObject ELSE obj[c]]
  /\ next' = IF p = "operator" THEN 1 ELSE next
  /\ UNCHANGED <<co, handedOff, infra, infraSeen, platform, operands, health>>

\* The kubelet restarts it: the caches list, and every listed object is an event.
Restart(p) ==
  /\ ~up[p]
  /\ up' = [up EXCEPT ![p] = TRUE]
  /\ cache' = [cache EXCEPT ![p] = co]
  /\ infraSeen' = [infraSeen EXCEPT ![p] = infra]
  /\ queue' = [c \in Controller |-> IF ProcessOf(c) = p THEN Keys(c) ELSE queue[c]]
  /\ UNCHANGED <<apiVars, ctlVars, infra, health, faults>>

-----------------------------------------------------------------------------
Init ==
  /\ co \in ObjectsAtStart
  /\ cache = [p \in Process |-> co]
  /\ watch = [p \in Process |-> << >>]
  /\ up = [p \in Process |-> TRUE]
  /\ queue = [c \in Controller |-> Keys(c)]
  /\ pc = [c \in Controller |-> "idle"]
  /\ req = [c \in Controller |-> NoKey]
  /\ call = [c \in Controller |-> NoCall]
  /\ obj = [c \in Controller |-> NoObject]
  /\ infra \in InfraAtStart
  /\ infraSeen = [p \in Process |-> infra]
  /\ platform = "absent"
  /\ next = 1
  /\ operands = [r \in Resource |-> OperandsAtStart]
  /\ health = [c \in SyncController |-> "ok"]
  /\ faults = 0
  /\ handedOff = GateOpen(co.status)

OperatorStep ==
  \/ OperatorReconcile \/ OperatorReadFails
  \/ ProvisioningAllowed \/ ProvisioningCheckFails
  \/ OwnershipCheck \/ ComposeFails
  \/ ApplyResource \/ ApplyResourceFails

StatusStep(c) ==
  StatusGet(c) \/ StatusGetFails(c) \/ StatusUpdate(c) \/ StatusUpdateLost(c)

Environment ==
  \/ InfraChange
  \/ OthersWriteCO
  \/ \E c \in SyncController : HealthChange(c)
  \/ \E p \in Process : DeliverCO(p) \/ DeliverInfra(p) \/ Crash(p) \/ Restart(p)
  \/ \E c \in Controller : \E k \in Keys(c) : Trigger(c, k)

Next ==
  \/ OperatorStep
  \/ CloudConfigReconcile
  \/ \E k \in Keys("TrustedCABundle") : TrustedCAReconcile(k)
  \/ \E c \in Controller : StatusStep(c)
  \/ Environment

Spec == Init /\ [][Next]_vars

-----------------------------------------------------------------------------
(***************************************************************************)
(* Fairness: a worker goes on with the reconcile it has begun and the work *)
(* queue starves no request; informers deliver; the kubelet restarts.      *)
(* Resync is apart: events the cluster owes us, at the latest the resync   *)
(* of every informer each SyncPeriod (10 minutes).                         *)
(***************************************************************************)
Fairness ==
  /\ WF_vars(OperatorStep)
  /\ WF_vars(CloudConfigReconcile)
  /\ \A k \in Keys("TrustedCABundle") : SF_vars(TrustedCAReconcile(k))
  /\ \A c \in Controller : WF_vars(StatusStep(c))
  /\ \A p \in Process : /\ WF_vars(DeliverCO(p))
                        /\ WF_vars(DeliverInfra(p))
                        /\ WF_vars(Restart(p))

Resync ==
  \A c \in Controller : \A k \in Keys(c) : WF_vars(Trigger(c, k))

FairSpec == Spec /\ Fairness

-----------------------------------------------------------------------------
\* Type invariant; a worker has a request exactly while it reconciles.
TypeOK ==
  /\ co \in Object
  /\ cache \in [Process -> Object]
  /\ watch \in [Process -> Seq(Object)]
  /\ up \in [Process -> BOOLEAN]
  /\ queue \in [Controller -> SUBSET Key]
  /\ pc \in [Controller -> PC]
  /\ req \in [Controller -> Key \cup {NoKey}]
  /\ \A c \in Controller : pc[c] = "idle" <=> req[c] = NoKey
  /\ call \in [Controller -> Call]
  /\ obj \in [Controller -> Object]
  /\ infra \in Platform
  /\ infraSeen \in [Process -> Platform]
  /\ platform \in Platform
  /\ next \in Resource
  /\ operands \in [Resource -> Version]
  /\ health \in [SyncController -> Health]
  /\ faults \in 0 .. MaxFaults
  /\ handedOff \in BOOLEAN

\* No lost update: whatever the interleaving of the three reconcilers, their
\* stale caches, lost answers and restarts, the stored status evolves as if
\* every set* call of status.go were one atomic step.
Atomic == INSTANCE AtomicStatus
            WITH exists <- Exists(co), status <- co.status,
                 StatusAtStart <- {o.status : o \in ObjectsAtStart}

StatusIsAtomic == Atomic!Spec

\* No operand of the new release is written before both sync controllers have
\* reported themselves available, and neither degraded, in one version of the
\* object: the gate of provisioningAllowed, read from a cache that may lag.
HandoffBeforeDeploy ==
  (\E r \in Resource : operands[r] = ReleaseVersion) => handedOff

\* When Reconcile goes from sync to setStatusAvailable, and then to clearing
\* the ownership condition, every operand of the release has been applied.
AvailableMeansApplied ==
  (platform = "ccm" /\ (call[Op].then = "clearOwner" \/ call[Op].op = "ClearOwner"))
    => \A r \in Resource : operands[r] = ReleaseVersion

\* The ownership condition, once removed, is never there again: no stale copy
\* of the status brings it back.
OwnerStaysCleared ==
  [][(Exists(co) /\ ~OwnershipRecorded(co.status)) => ~OwnershipRecorded(co'.status)]_vars

Holds(t, v) == Exists(co) /\ co.status.conditions[t] = v

Converged ==
  /\ Holds("Available", "True") /\ Holds("Progressing", "False")
  /\ Holds("Degraded", "False") /\ Holds("Upgradeable", "True")
  /\ Holds("CloudControllerOwner", "Missing")
  /\ GateOpen(co.status)
  /\ co.status.version = ReleaseVersion
  /\ \A r \in Resource : operands[r] = ReleaseVersion

\* What setStatusAvailable reports.
Reported ==
  /\ Holds("Available", "True") /\ Holds("Progressing", "False")
  /\ Holds("Degraded", "False") /\ Holds("Upgradeable", "True")
  /\ co.status.version = ReleaseVersion

\* Where the operator may rest: a sync controller has still to report, and none
\* is degraded, or the release is rolled out and the object says so.
SettledOn(kind) ==
  /\ Exists(co)
  /\ kind = "absent" => Reported
  /\ kind # "absent" => ~DependantDegraded(co.status)
  /\ kind # "absent" /\ GateOpen(co.status) =>
       /\ kind # "nilPlatform" /\ Reported
       /\ kind \in {"ccm", "noAssets"} => Holds("CloudControllerOwner", "Missing")
       /\ kind = "ccm" => \A r \in Resource : operands[r] = ReleaseVersion

\* The operator never comes to rest short of its goal, whatever conflicts, lost
\* answers, deletions and restarts came before: when no reconcile is under way
\* or asked for and its informers have seen everything, it waits for a sync
\* controller's report or is done.  It never rests on a platform status nobody
\* has filled in behind an open gate.
ReportedAtRest ==
  (/\ up["operator"] /\ pc[Op] = "idle" /\ queue[Op] = {} /\ Keys(Op) # {}
   /\ watch["operator"] = << >> /\ infraSeen["operator"] = infra)
    => SettledOn(infra)

\* Once the platform is known and the inputs of the sync controllers stay
\* readable, the operands are rolled out and the object reports so for good,
\* whatever conflicts, lost answers and restarts came before.  (Unless the
\* object is deleted: the sync controllers do not watch it, and set their
\* conditions anew only at the resync.)
Converges ==
  (/\ [](faults > 0 => Exists(co))
   /\ <>[](infra = "ccm" /\ \A c \in SyncController : health[c] = "ok"))
    => <>[]Converged

\* On a platform without operands the operator ends up available at the new
\* release; on one whose status nobody fills in it ends up degraded, and not
\* in an endless panic over the nil platform status behind an open gate.
PlatformSettles ==
  /\ <>[](infra \in {"External", "none", "noAssets"})
       => <>[](/\ Holds("Available", "True") /\ Holds("Degraded", "False")
               /\ co.status.version = ReleaseVersion)
  /\ <>[](infra = "nilPlatform")
       => <>[](Holds("Degraded", "True") /\ Holds("Upgradeable", "False"))

\* A cloud config that can no longer be synced ends as a Degraded operator
\* that refuses upgrades, and stays so while it lasts; the resync, at the
\* latest, makes the controller look at it.
FailureSurfaces ==
  (Resync /\ <>[](infra = "ccm" /\ health["CloudConfig"] = "syncError"))
    => <>[](Holds("Degraded", "True") /\ Holds("Upgradeable", "False"))
=============================================================================

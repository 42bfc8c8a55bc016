--------------------------- MODULE StatusSyncProofs ---------------------------
(* Theorems about StatusSync, for every value of its constants. *)
EXTENDS StatusSync, TLAPS

(* Most leaves are first-order; those that need arithmetic or records cite SMT. *)
USE Zenon

\* Every update of the status returns a status.
LEMMA StatusUpdatesTyped ==
  ASSUME NEW s \in Status
  PROVE  /\ setStatusDegraded(s) \in Status
         /\ setStatusProgressing(s) \in Status
         /\ setStatusAvailable(s) \in Status
         /\ removeCloudControllerOwner(s) \in Status
         /\ cloudConfigSetAvailable(s) \in Status
         /\ cloudConfigSetDegraded(s) \in Status
         /\ trustedCASetAvailable(s) \in Status
         /\ trustedCASetDegraded(s) \in Status
<1> USE VersionAssumption DEF Status, ConditionStatus, Reason
<1>1. setStatusDegraded(s) \in Status
  BY DEF setStatusDegraded
<1>2. setStatusProgressing(s) \in Status
  BY DEF setStatusProgressing
<1>3. setStatusAvailable(s) \in Status
  BY DEF setStatusAvailable
<1>4. removeCloudControllerOwner(s) \in Status
  BY DEF removeCloudControllerOwner
<1>5. cloudConfigSetAvailable(s) \in Status
  BY DEF cloudConfigSetAvailable
<1>6. cloudConfigSetDegraded(s) \in Status
  BY DEF cloudConfigSetDegraded
<1>7. trustedCASetAvailable(s) \in Status
  BY DEF trustedCASetAvailable
<1>8. trustedCASetDegraded(s) \in Status
  BY DEF trustedCASetDegraded
<1>9. QED BY <1>1, <1>2, <1>3, <1>4, <1>5, <1>6, <1>7, <1>8

\* What a status call writes is a status, whichever of the setters it is.
LEMMA NewStatusTyped ==
  ASSUME NEW s \in Status, NEW op \in Operation
  PROVE  NewStatus(op, s) \in Status
BY StatusUpdatesTyped DEF NewStatus, Operation

\* The status of a new object is a status.
LEMMA EmptyStatusTyped == EmptyStatus \in Status
BY VersionAssumption DEF EmptyStatus, Status, ConditionStatus, Reason

\* A missing ClusterOperator is represented by an object.
LEMMA NoObjectTyped == NoObject \in Object
BY EmptyStatusTyped DEF NoObject, Object

\* The token a write takes is one that no copy of the object carries.
LEMMA FreshRVUnused ==
  ASSUME HasFreshRV
  PROVE  FreshRV \in RV /\ FreshRV \notin UsedRV
BY DEF HasFreshRV, FreshRV

-------------------------------------------------------------------------------
(* Type correctness *)

\* The part of TypeOK about the API server, and the part about the workers.
ApiTyped ==
  /\ co \in Object
  /\ watch \in [Process -> Seq(Object)]
  /\ handedOff \in BOOLEAN

WorkersTyped ==
  /\ queue \in [Controller -> SUBSET Key]
  /\ pc \in [Controller -> PC]
  /\ req \in [Controller -> Key \cup {NoKey}]
  /\ \A c \in Controller : pc[c] = "idle" <=> req[c] = NoKey
  /\ call \in [Controller -> Call]

\* Storing an object keeps the API server and the caches typed.
LEMMA PublishTyped ==
  ASSUME TypeOK, NEW o \in Object, Publish(o)
  PROVE  ApiTyped'
<1>1. co' \in Object
  BY DEF Publish
<1>2. watch' \in [Process -> Seq(Object)]
  BY SMT DEF Publish, TypeOK
<1>3. handedOff' \in BOOLEAN
  BY DEF Publish, TypeOK
<1>4. QED BY <1>1, <1>2, <1>3 DEF ApiTyped

\* The object getOrCreateClusterOperator creates is an object that exists.
LEMMA CreatedTyped ==
  ASSUME HasFreshRV
  PROVE  Created \in Object /\ Exists(Created)
BY FreshRVUnused, EmptyStatusTyped, BoundsAssumption DEF Created, Object, Exists

\* What another client of the API server writes has a resourceVersion of its own.
LEMMA OthersFresh ==
  ASSUME co \in Object, HasFreshRV, NEW o \in {Created, [co EXCEPT !.rv = FreshRV]}
  PROVE  o \in Object /\ o.rv \in RV /\ o.rv \notin UsedRV
<1>1. CASE o = Created
  <2>1. o.rv = FreshRV
    BY <1>1, SMT DEF Created
  <2>2. QED BY <1>1, <2>1, FreshRVUnused, CreatedTyped
<1>2. CASE o = [co EXCEPT !.rv = FreshRV]
  <2>1. FreshRV \in RV
    BY FreshRVUnused
  <2>2. o \in Object /\ o.rv = FreshRV
    BY <1>2, <2>1, SMT DEF Object
  <2>3. QED BY <2>2, FreshRVUnused
<1>3. QED BY <1>1, <1>2

\* An accepted Status().Update keeps the API server typed.
LEMMA CommitTyped ==
  ASSUME TypeOK, NEW s \in Status, CommitStatus(s)
  PROVE  ApiTyped'
<1>1. CASE s = co.status
  BY <1>1 DEF CommitStatus, apiVars, TypeOK, ApiTyped
<1>2. CASE s # co.status
  <2>1. [rv |-> FreshRV, status |-> s] \in Object
    BY <1>2, FreshRVUnused DEF CommitStatus, Object
  <2>2. QED BY <1>2, <2>1, PublishTyped DEF CommitStatus
<1>3. QED BY <1>1, <1>2

\* getOrCreateClusterOperator keeps the API server typed and returns an object.
LEMMA GetOrCreateTyped ==
  ASSUME TypeOK, NEW c \in Controller, getOrCreateClusterOperator(c)
  PROVE  ApiTyped' /\ Obtained(c) \in Object
<1>0. ProcessOf(c) \in Process
  BY DEF ProcessOf, Process
<1>1. CASE Exists(Cached(c))
  BY <1>0, <1>1 DEF getOrCreateClusterOperator, Obtained, Cached, TypeOK, ApiTyped, apiVars
<1>2. CASE ~Exists(Cached(c))
  <2>1. Created \in Object /\ Publish(Created)
    BY <1>2, CreatedTyped DEF getOrCreateClusterOperator
  <2>2. QED BY <1>2, <2>1, PublishTyped DEF Obtained
<1>3. QED BY <1>1, <1>2

\* A Reconcile that returns, with or without an error, frees its worker.
LEMMA ReturnTyped ==
  ASSUME TypeOK, NEW c \in Controller, pc[c] # "idle", ReturnNil(c) \/ ReturnError(c)
  PROVE  WorkersTyped'
<1> USE DEF TypeOK, Leave, Goto, NoKey
<1>1. Leave(c)
  BY DEF ReturnNil, ReturnError
<1>2. queue' \in [Controller -> SUBSET Key]
  <2>1. req[c] \in Key
    OBVIOUS
  <2>2. queue[c] \cup {req[c]} \in SUBSET Key
    BY <2>1
  <2>3. CASE UNCHANGED queue
    BY <2>3
  <2>4. CASE queue' = [queue EXCEPT ![c] = @ \cup {req[c]}]
    BY <2>2, <2>4
  <2>5. QED BY <2>3, <2>4 DEF ReturnNil, ReturnError
<1>3. pc' \in [Controller -> PC]
  BY <1>1 DEF PC
<1>4. req' \in [Controller -> Key \cup {NoKey}]
  BY <1>1
<1>5. call' \in [Controller -> Call]
  BY <1>1 DEF NoCall, Call, Operation, Continuation
<1>6. \A d \in Controller : pc'[d] = "idle" <=> req'[d] = NoKey
  BY <1>1
<1>7. QED BY <1>2, <1>3, <1>4, <1>5, <1>6 DEF WorkersTyped

\* Starting a status call keeps the worker typed.
LEMMA ContinueTyped ==
  ASSUME TypeOK, NEW c \in Controller, NEW op \in Operation, NEW k \in Continuation,
         pc[c] # "idle", Continue(c, op, k)
  PROVE  WorkersTyped'
BY DEF Continue, StartCall, Goto, TypeOK, WorkersTyped, PC, Call

\* Taking a request from the work queue keeps the worker typed.
LEMMA TakeTyped ==
  ASSUME TypeOK, NEW c \in Controller, NEW k \in Key, NEW label \in PC \ {"idle"},
         Take(c, k), Goto(c, label), call' \in [Controller -> Call]
  PROVE  WorkersTyped'
BY DEF Take, Goto, TypeOK, WorkersTyped, Key, NoKey

\* A status call that ends, well or badly, leaves the worker typed.
LEMMA CallReturnsTyped ==
  ASSUME TypeOK, NEW c \in Controller, pc[c] # "idle", CallSucceeded(c) \/ CallFailed(c)
  PROVE  WorkersTyped'
BY ReturnTyped, ContinueTyped
   DEF CallSucceeded, CallFailed, Degrade, Operation, Continuation

\* A fault stays within the bound on faults.
LEMMA FaultTyped ==
  ASSUME TypeOK, NEW k, Fault(k)
  PROVE  faults' \in 0 .. MaxFaults
BY BoundsAssumption, SMT DEF Fault, TypeOK

\* The types of what a step of a reconciler may change, put together.
LEMMA ReconcilerStepTyped ==
  ASSUME TypeOK, ApiTyped', WorkersTyped', obj' \in [Controller -> Object],
         platform' \in Platform, next' \in Resource,
         operands' \in [Resource -> Version], faults' \in 0 .. MaxFaults,
         UNCHANGED envVars
  PROVE  TypeOK'
BY DEF TypeOK, ApiTyped, WorkersTyped, envVars

\* Every step of a status call preserves the types.
LEMMA StatusStepTyped ==
  ASSUME TypeOK, NEW c \in Controller, StatusStep(c)
  PROVE  TypeOK'
<1> USE DEF TypeOK, opVars, apiVars
<1>0. NoObject \in Object
  BY NoObjectTyped
<1>1. CASE StatusGet(c)
  <2>1. ApiTyped' /\ Obtained(c) \in Object
    BY <1>1, GetOrCreateTyped DEF StatusGet
  <2>2. WorkersTyped'
    <3>1. CASE NothingToClear(c)
      BY <1>1, <3>1, CallReturnsTyped DEF StatusGet
    <3>2. CASE ~NothingToClear(c)
      BY <1>1, <3>2 DEF StatusGet, Goto, WorkersTyped, PC
    <3>3. QED BY <3>1, <3>2
  <2>3. obj' \in [Controller -> Object]
    BY <1>1, <2>1 DEF StatusGet
  <2>4. QED BY <1>1, <2>1, <2>2, <2>3, ReconcilerStepTyped DEF StatusGet
<1>2. CASE StatusGetFails(c)
  <2>1. ApiTyped' /\ faults' \in 0 .. MaxFaults
    BY <1>2, FaultTyped DEF StatusGetFails, CreateFails, ApiTyped
  <2>2. WorkersTyped'
    BY <1>2, CallReturnsTyped DEF StatusGetFails
  <2>3. QED BY <1>2, <2>1, <2>2, ReconcilerStepTyped DEF StatusGetFails
<1>3. ASSUME pc[c] = "update"
      PROVE  NewStatus(call[c].op, obj[c].status) \in Status
  <2>1. call[c].op \in Operation /\ obj[c].status \in Status
    BY DEF Call, Object
  <2>2. QED BY <2>1, NewStatusTyped
<1>4. CASE StatusUpdate(c)
  <2>1. ApiTyped'
    BY <1>3, <1>4, CommitTyped DEF StatusUpdate, ApiTyped
  <2>2. WorkersTyped'
    BY <1>4, CallReturnsTyped DEF StatusUpdate
  <2>3. obj' \in [Controller -> Object]
    BY <1>0, <1>4 DEF StatusUpdate, DropObject
  <2>4. QED BY <1>4, <2>1, <2>2, <2>3, ReconcilerStepTyped DEF StatusUpdate
<1>5. CASE StatusUpdateLost(c)
  <2>1. ApiTyped'
    BY <1>3, <1>5, CommitTyped DEF StatusUpdateLost, ApiTyped
  <2>2. WorkersTyped'
    BY <1>5, CallReturnsTyped DEF StatusUpdateLost
  <2>3. obj' \in [Controller -> Object]
    BY <1>0, <1>5 DEF StatusUpdateLost, DropObject
  <2>4. faults' \in 0 .. MaxFaults
    BY <1>5, FaultTyped DEF StatusUpdateLost
  <2>5. QED BY <1>5, <2>1, <2>2, <2>3, <2>4, ReconcilerStepTyped DEF StatusUpdateLost
<1>6. QED BY <1>1, <1>2, <1>4, <1>5 DEF StatusStep

\* Taking a request and starting a status call in one step is typed.
LEMMA TakeAndCallTyped ==
  ASSUME TypeOK, NEW c \in Controller, NEW k \in Key, NEW op \in Operation,
         NEW then \in Continuation, Take(c, k), StartCall(c, op, then)
  PROVE  WorkersTyped'
<1>1. call' \in [Controller -> Call]
  BY DEF StartCall, TypeOK, Call
<1>2. Goto(c, "get") /\ "get" \in PC \ {"idle"}
  BY DEF StartCall, PC
<1>3. QED BY <1>1, <1>2, TakeTyped

\* Writing an operand of the release leaves the operands typed.
LEMMA AppliedTyped ==
  ASSUME TypeOK, NEW n \in Resource
  PROVE  Applied(n) \in [Resource -> Version]
BY VersionAssumption DEF Applied, TypeOK

\* The loop of applyResources, from any operand on, keeps the worker typed.
LEMMA ApplyFromTyped ==
  ASSUME TypeOK, NEW n \in Nat \ {0}, NEW u \in BOOLEAN, ApplyFrom(n, u), pc[Op] # "idle"
  PROVE  WorkersTyped' /\ next' \in Resource
<1> USE DEF Op, Controller
<1>1. NumAssets \in Nat /\ NumAssets <= NumResources /\ 1 \in Resource
  BY BoundsAssumption, SMT DEF NumAssets, Resource
<1>2. CASE n <= NumAssets
  <2>1. n \in Resource
    BY <1>1, <1>2, BoundsAssumption, SMT DEF Resource
  <2>2. QED BY <1>2, <2>1 DEF ApplyFrom, Goto, TypeOK, WorkersTyped, PC
<1>3. CASE ~(n <= NumAssets)
  <2>1. \/ Continue(Op, "Progressing", "setAvailable")
        \/ Continue(Op, "Available", "clearOwner")
    BY <1>3 DEF ApplyFrom
  <2>2. WorkersTyped'
    BY <2>1, ContinueTyped DEF Operation, Continuation
  <2>3. next' = 1
    BY <1>3 DEF ApplyFrom
  <2>4. QED BY <1>1, <2>2, <2>3
<1>4. QED BY <1>2, <1>3

\* Going to setStatusDegraded keeps the worker typed.
LEMMA DegradeTyped ==
  ASSUME TypeOK, NEW c \in Controller, pc[c] # "idle", Degrade(c)
  PROVE  WorkersTyped'
BY ContinueTyped DEF Degrade, Operation, Continuation

\* Every step of the operator's Reconcile preserves the types.
LEMMA OperatorStepTyped ==
  ASSUME TypeOK, OperatorStep
  PROVE  TypeOK'
<1> USE DEF TypeOK, opVars, apiVars
<1>0. /\ Op \in Controller
      /\ "clusteroperator" \in Key
      /\ 1 \in Resource
      /\ {"Available", "Degraded"} \subseteq Operation
      /\ {"done", "fail"} \subseteq Continuation
  BY BoundsAssumption, SMT DEF Op, Controller, Key, Resource, Operation, Continuation
<1>1. CASE OperatorReconcile
  <2>1. infraSeen["operator"] \in Platform
    BY DEF Process
  <2>2. WorkersTyped'
    <3>1. CASE infraSeen["operator"] = "absent"
      BY <1>0, <1>1, <3>1, TakeAndCallTyped DEF OperatorReconcile
    <3>2. CASE infraSeen["operator"] # "absent"
      <4>1. "provisioningAllowed" \in PC \ {"idle"}
        BY DEF PC
      <4>2. QED BY <1>0, <1>1, <3>2, <4>1, TakeTyped DEF OperatorReconcile
    <3>3. QED BY <3>1, <3>2
  <2>3. QED
    BY <1>1, <2>1, <2>2, ReconcilerStepTyped DEF OperatorReconcile, ApiTyped
<1>2. CASE OperatorReadFails
  <2>1. WorkersTyped'
    BY <1>0, <1>2, TakeAndCallTyped DEF OperatorReadFails
  <2>2. QED
    BY <1>2, <2>1, FaultTyped, ReconcilerStepTyped DEF OperatorReadFails, ApiTyped
<1>3. CASE ProvisioningAllowed
  <2>1. pc[Op] # "idle" /\ ApiTyped'
    BY <1>0, <1>3, GetOrCreateTyped DEF ProvisioningAllowed
  <2>2. \/ Degrade(Op) \/ ReturnNil(Op) \/ ReturnError(Op)
        \/ Continue(Op, "Available", "done")
        \/ Goto(Op, "ownedByCCM") /\ UNCHANGED <<req, call, queue>>
    BY <1>3 DEF ProvisioningAllowed
  <2>3. WorkersTyped'
    <3>1. CASE Goto(Op, "ownedByCCM") /\ UNCHANGED <<req, call, queue>>
      BY <1>0, <2>1, <3>1 DEF Goto, WorkersTyped, PC
    <3>2. QED BY <1>0, <2>1, <2>2, <3>1, DegradeTyped, ReturnTyped, ContinueTyped
  <2>4. QED BY <1>3, <2>1, <2>3, ReconcilerStepTyped DEF ProvisioningAllowed
<1>4. CASE ProvisioningCheckFails
  <2>1. ApiTyped' /\ faults' \in 0 .. MaxFaults
    BY <1>4, FaultTyped DEF ProvisioningCheckFails, CreateFails, ApiTyped
  <2>2. WorkersTyped'
    BY <1>0, <1>4, DegradeTyped DEF ProvisioningCheckFails
  <2>3. QED BY <1>4, <2>1, <2>2, ReconcilerStepTyped DEF ProvisioningCheckFails
<1>5. CASE OwnershipCheck
  <2>1. pc[Op] # "idle" /\ ApiTyped'
    BY <1>0, <1>5, GetOrCreateTyped DEF OwnershipCheck
  <2>2. WorkersTyped' /\ next' \in Resource
    <3>1. CASE ApplyFrom(1, FALSE)
      <4>1. 1 \in Nat \ {0} /\ FALSE \in BOOLEAN
        BY SMT
      <4>2. QED BY <2>1, <3>1, <4>1, ApplyFromTyped, Zenon
    <3>2. CASE Continue(Op, "Available", "done") /\ UNCHANGED next
      BY <1>0, <2>1, <3>2, ContinueTyped
    <3>3. QED BY <1>5, <3>1, <3>2 DEF OwnershipCheck
  <2>3. QED BY <1>5, <2>1, <2>2, ReconcilerStepTyped DEF OwnershipCheck
<1>6. CASE ComposeFails
  <2>1. WorkersTyped'
    BY <1>0, <1>6, DegradeTyped DEF ComposeFails
  <2>2. QED BY <1>6, <2>1, FaultTyped, ReconcilerStepTyped DEF ComposeFails, ApiTyped
<1>7. CASE ApplyResource
  <2>1. next + 1 \in Nat \ {0}
    BY BoundsAssumption, SMT DEF Resource
  <2>2. WorkersTyped' /\ next' \in Resource
    BY <1>7, <2>1, ApplyFromTyped DEF ApplyResource
  <2>3. QED
    BY <1>7, <2>2, AppliedTyped, ReconcilerStepTyped DEF ApplyResource, ApiTyped
<1>8. CASE ApplyResourceFails
  <2>1. WorkersTyped'
    BY <1>0, <1>8, DegradeTyped DEF ApplyResourceFails
  <2>2. operands' \in [Resource -> Version]
    BY <1>8, AppliedTyped DEF ApplyResourceFails
  <2>3. QED
    BY <1>0, <1>8, <2>1, <2>2, FaultTyped, ReconcilerStepTyped
    DEF ApplyResourceFails, ApiTyped
<1>9. QED
  BY <1>1, <1>2, <1>3, <1>4, <1>5, <1>6, <1>7, <1>8 DEF OperatorStep

\* Every step of the two sync controllers' Reconcile preserves the types.
LEMMA SyncStepTyped ==
  ASSUME TypeOK,
         CloudConfigReconcile \/ \E k \in Keys("TrustedCABundle") : TrustedCAReconcile(k)
  PROVE  TypeOK'
<1> USE DEF TypeOK, opVars, apiVars
<1>1. CASE CloudConfigReconcile
  <2>1. WorkersTyped'
    BY <1>1, TakeAndCallTyped
    DEF CloudConfigReconcile, Controller, Key, Operation, Continuation
  <2>2. QED BY <1>1, <2>1, ReconcilerStepTyped DEF CloudConfigReconcile, ApiTyped
<1>2. ASSUME NEW k \in Keys("TrustedCABundle"), TrustedCAReconcile(k)
      PROVE  TypeOK'
  <2>1. k \in Key
    BY DEF Keys, Key
  <2>2. WorkersTyped'
    BY <1>2, <2>1, TakeAndCallTyped
    DEF TrustedCAReconcile, Controller, Operation, Continuation
  <2>3. QED BY <1>2, <2>2, ReconcilerStepTyped DEF TrustedCAReconcile, ApiTyped
<1>3. QED BY <1>1, <1>2

\* The requests an event makes for a controller are requests.
LEMMA KeysTyped ==
  ASSUME NEW c \in Controller
  PROVE  Keys(c) \in SUBSET Key
BY DEF Keys, Key, Controller

\* Informers, restarts and other clients preserve the types.
LEMMA EnvironmentTyped ==
  ASSUME TypeOK, Environment
  PROVE  TypeOK'
<1> USE DEF TypeOK, opVars, apiVars, ctlVars
<1>1. CASE InfraChange
  BY <1>1, FaultTyped, BoundsAssumption DEF InfraChange, Platform
<1>2. CASE OthersWriteCO
  <2>1. [co EXCEPT !.rv = FreshRV] \in Object \/ ~HasFreshRV
    BY FreshRVUnused DEF Object
  <2>2. ApiTyped' /\ faults' \in 0 .. MaxFaults
    BY <1>2, <2>1, NoObjectTyped, CreatedTyped, PublishTyped, FaultTyped DEF OthersWriteCO
  <2>3. QED BY <1>2, <2>2, ReconcilerStepTyped DEF OthersWriteCO, WorkersTyped
<1>3. ASSUME NEW c \in SyncController, HealthChange(c)
      PROVE  TypeOK'
  <2>1. faults' \in 0 .. MaxFaults
    BY <1>3, FaultTyped DEF HealthChange
  <2>2. health' \in [SyncController -> Health]
    BY <1>3 DEF HealthChange
  <2>3. QED BY <1>3, <2>1, <2>2 DEF HealthChange
<1>4. ASSUME NEW p \in Process, DeliverCO(p)
      PROVE  TypeOK'
  <2>1. watch[p] \in Seq(Object) /\ watch[p] # << >>
    BY <1>4 DEF DeliverCO
  <2>2. Head(watch[p]) \in Object /\ Tail(watch[p]) \in Seq(Object)
    BY <2>1, SMT
  <2>3. queue' \in [Controller -> SUBSET Key]
    BY <1>4, KeysTyped DEF DeliverCO, Op, Controller
  <2>4. QED BY <1>4, <2>2, <2>3 DEF DeliverCO
<1>5. ASSUME NEW p \in Process, DeliverInfra(p)
      PROVE  TypeOK'
  <2>1. queue' \in [Controller -> SUBSET Key]
    BY <1>5, KeysTyped DEF DeliverInfra, Op, Controller
  <2>2. QED BY <1>5, <2>1 DEF DeliverInfra
<1>6. ASSUME NEW p \in Process, Crash(p)
      PROVE  TypeOK'
  <2>1. faults' \in 0 .. MaxFaults /\ 1 \in Resource
    BY <1>6, FaultTyped, BoundsAssumption, SMT DEF Crash, Resource
  <2>2. watch' \in [Process -> Seq(Object)] /\ cache' \in [Process -> Object]
    BY <1>6, NoObjectTyped, SMT DEF Crash
  <2>3. obj' \in [Controller -> Object]
    BY <1>6, NoObjectTyped DEF Crash
  <2>4. WorkersTyped'
    BY <1>6 DEF Crash, WorkersTyped, PC, NoCall, Call, Operation, Continuation
  <2>5. QED BY <1>6, <2>1, <2>2, <2>3, <2>4 DEF Crash, WorkersTyped
<1>7. ASSUME NEW p \in Process, Restart(p)
      PROVE  TypeOK'
  <2>1. queue' \in [Controller -> SUBSET Key]
    BY <1>7, KeysTyped DEF Restart
  <2>2. QED BY <1>7, <2>1 DEF Restart
<1>8. ASSUME NEW c \in Controller, NEW k \in Keys(c), Trigger(c, k)
      PROVE  TypeOK'
  <2>1. queue[c] \cup {k} \in SUBSET Key
    BY KeysTyped
  <2>2. queue' \in [Controller -> SUBSET Key]
    BY <1>8, <2>1 DEF Trigger
  <2>3. QED BY <1>8, <2>2 DEF Trigger, envVars
<1>9. QED
  BY <1>1, <1>2, <1>3, <1>4, <1>5, <1>6, <1>7, <1>8 DEF Environment

\* The initial states are typed.
LEMMA InitTyped == Init => TypeOK
<1> SUFFICES ASSUME Init PROVE TypeOK
  OBVIOUS
<1>1. co \in Object
  BY StartAssumption DEF Init
<1>2. NoCall \in Call
  BY DEF NoCall, Call, Operation, Continuation
<1>3. 1 \in Resource /\ 0 \in 0 .. MaxFaults
  BY BoundsAssumption, SMT DEF Resource
<1>4. queue \in [Controller -> SUBSET Key]
  BY KeysTyped DEF Init
<1>5. handedOff \in BOOLEAN
  BY DEF Init, GateOpen
<1>6. << >> \in Seq(Object) /\ obj \in [Controller -> Object]
  BY NoObjectTyped, SMT DEF Init
<1>7. infra \in Platform
  BY BoundsAssumption DEF Init
<1>8. QED
  BY <1>1, <1>2, <1>3, <1>4, <1>5, <1>6, <1>7, BoundsAssumption
  DEF Init, TypeOK, PC, Platform, Health, Key, NoKey

\* So is a state after a step in which nothing changes.
LEMMA StutterTyped == TypeOK /\ UNCHANGED vars => TypeOK'
BY DEF TypeOK, vars

\* Every state StatusSync reaches is well typed, and a worker holds a request
\* exactly while its Reconcile runs: no path of the three reconcilers returns
\* twice or forgets to return.
THEOREM TypeCorrect == Spec => []TypeOK
<1>1. TypeOK /\ [Next]_vars => TypeOK'
  BY OperatorStepTyped, SyncStepTyped, StatusStepTyped, EnvironmentTyped, StutterTyped
  DEF Next
<1>2. QED BY InitTyped, <1>1, PTL DEF Spec

-------------------------------------------------------------------------------
(***************************************************************************)
(* The conflict check is enough.  The inductive invariant: a copy with the *)
(* current resourceVersion is the current object, an object that is not    *)
(* there is the empty one, and a copy that shows an open gate was once the *)
(* stored object.                                                          *)
(***************************************************************************)
SnapshotsSound == \A o \in Copies : o.rv = co.rv => o = co

AbsentIsEmpty == \A o \in Copies \cup {co} : ~Exists(o) => o = NoObject

OpenWasStored == \A o \in Copies \cup {co} : GateOpen(o.status) => handedOff

CopiesInv == TypeOK /\ SnapshotsSound /\ AbsentIsEmpty /\ OpenWasStored

\* What a step does to the object and to its copies.
ObjectStep ==
  \/ co' = co
  \/ co' = NoObject
  \/ co'.rv \in RV /\ co'.rv \notin UsedRV

HandoffStep ==
  /\ handedOff => handedOff'
  /\ GateOpen(co'.status) => handedOff' \/ co' = co

CopiesStep == Copies' \subseteq Copies \cup {co, co', NoObject}

\* A new ClusterOperator does not open the gate of provisioningAllowed.
LEMMA EmptyGateClosed == ~GateOpen(NoObject.status)
BY DEF NoObject, EmptyStatus, GateOpen, DependantsAvailable, ConditionType,
       CloudConfigConditions

\* Steps that only add sound copies preserve the invariant on copies.
LEMMA CopiesInvStep ==
  ASSUME CopiesInv, TypeOK', ObjectStep, HandoffStep, CopiesStep
  PROVE  CopiesInv'
<1> USE DEF CopiesInv
<1>1. SnapshotsSound'
  <2> SUFFICES ASSUME NEW o \in Copies', o.rv = co'.rv
               PROVE  o = co'
    BY DEF SnapshotsSound
  <2>1. o \in Copies \cup {co} \/ o = co' \/ o = NoObject
    BY DEF CopiesStep
  <2>2. CASE co' = co
    BY <2>1, <2>2, SMT DEF SnapshotsSound, AbsentIsEmpty, Exists, NoObject
  <2>3. CASE co' = NoObject
    BY <2>1, <2>3 DEF AbsentIsEmpty, Exists, NoObject
  <2>4. CASE co'.rv \in RV /\ co'.rv \notin UsedRV
    BY <2>1, <2>4, BoundsAssumption, SMT DEF UsedRV, NoObject
  <2>5. QED BY <2>2, <2>3, <2>4 DEF ObjectStep
<1>2. AbsentIsEmpty'
  <2> SUFFICES ASSUME NEW o \in Copies' \cup {co'}, ~Exists(o)
               PROVE  o = NoObject
    BY DEF AbsentIsEmpty, Exists
  <2>1. o \in Copies \cup {co} \/ o = co' \/ o = NoObject
    BY DEF CopiesStep
  <2>2. CASE co'.rv \in RV
    BY <2>1, <2>2, BoundsAssumption DEF AbsentIsEmpty, Exists
  <2>3. CASE co' = co \/ co' = NoObject
    BY <2>1, <2>3 DEF AbsentIsEmpty
  <2>4. QED BY <2>2, <2>3 DEF ObjectStep
<1>3. OpenWasStored'
  <2> SUFFICES ASSUME NEW o \in Copies' \cup {co'}, GateOpen(o.status)
               PROVE  handedOff'
    BY DEF OpenWasStored, GateOpen, DependantsAvailable, DependantDegraded
  <2>1. o \in Copies \cup {co} \/ o = co' \/ o = NoObject
    BY DEF CopiesStep
  <2>2. CASE o \in Copies \cup {co}
    BY <2>2 DEF OpenWasStored, HandoffStep
  <2>3. CASE o = co'
    BY <2>3 DEF OpenWasStored, HandoffStep
  <2>4. CASE o = NoObject
    BY <2>4, EmptyGateClosed
  <2>5. QED BY <2>1, <2>2, <2>3, <2>4
<1>4. QED BY <1>1, <1>2, <1>3

\* All a reconciler does with the copies: it takes one, or drops its own.
TakesCopies == \A c \in Controller : obj'[c] \in Copies \cup {co, co', NoObject}

SoundStep == ObjectStep /\ HandoffStep /\ CopiesStep

\* A write with an unused resourceVersion, or a delete, is sound.
LEMMA PublishStep ==
  ASSUME TypeOK, NEW o \in Object, Publish(o), UNCHANGED cache, TakesCopies,
         o = NoObject \/ (o.rv \in RV /\ o.rv \notin UsedRV)
  PROVE  SoundStep
<1>1. co' = o
  BY DEF Publish
<1>2. ObjectStep
  BY <1>1 DEF ObjectStep
<1>3. HandoffStep
  BY <1>1 DEF Publish, HandoffStep
<1>4. ASSUME NEW p \in Process, NEW i \in 1 .. Len(watch'[p])
      PROVE  watch'[p][i] \in Copies \cup {o}
  <2>1. watch[p] \in Seq(Object)
    BY DEF TypeOK
  <2>2. CASE up[p]
    <3>1. watch'[p] = Append(watch[p], o)
      BY <2>2 DEF Publish
    <3>2. i \in 1 .. Len(watch[p]) \/ i = Len(watch[p]) + 1
      BY <1>4, <2>1, <3>1, SMT
    <3>3. QED BY <2>1, <3>1, <3>2, SMT DEF Copies
  <2>3. CASE ~up[p]
    BY <1>4, <2>3, SMT DEF Publish, Copies
  <2>4. QED BY <2>2, <2>3
<1>5. CopiesStep
  BY <1>1, <1>4, SMT DEF CopiesStep, Copies, TakesCopies
<1>6. QED BY <1>2, <1>3, <1>5 DEF SoundStep

\* So is a step that leaves the API server and the caches alone.
LEMMA QuietStep ==
  ASSUME UNCHANGED apiVars, UNCHANGED cache, TakesCopies
  PROVE  SoundStep
BY SMT DEF apiVars, SoundStep, ObjectStep, HandoffStep, CopiesStep, Copies, TakesCopies

\* An accepted Status().Update is a sound write.
LEMMA CommitStep ==
  ASSUME TypeOK, NEW s \in Status, CommitStatus(s), UNCHANGED cache, TakesCopies
  PROVE  SoundStep
<1>1. CASE s = co.status
  BY <1>1, QuietStep DEF CommitStatus
<1>2. CASE s # co.status
  <2> DEFINE o == [rv |-> FreshRV, status |-> s]
  <2>1. o \in Object /\ o.rv \in RV /\ o.rv \notin UsedRV
    BY <1>2, FreshRVUnused DEF CommitStatus, Object
  <2>2. Publish(o)
    BY <1>2 DEF CommitStatus
  <2> HIDE DEF o
  <2>3. QED BY <2>1, <2>2, PublishStep
<1>3. QED BY <1>1, <1>2

\* getOrCreateClusterOperator is a sound write, or none.
LEMMA GetOrCreateStep ==
  ASSUME TypeOK, NEW c \in Controller, getOrCreateClusterOperator(c),
         UNCHANGED cache, TakesCopies
  PROVE  SoundStep
<1>1. CASE Exists(Cached(c))
  BY <1>1, QuietStep DEF getOrCreateClusterOperator
<1>2. CASE ~Exists(Cached(c))
  <2>1. Created \in Object /\ Created.rv \in RV /\ Created.rv \notin UsedRV
    BY <1>2, CreatedTyped, FreshRVUnused DEF getOrCreateClusterOperator, Created
  <2>2. QED BY <1>2, <2>1, PublishStep DEF getOrCreateClusterOperator
<1>3. QED BY <1>1, <1>2

\* The object the call returns is a copy there was, or the object just created.
LEMMA ObtainedIsCopy ==
  ASSUME NEW c \in Controller, getOrCreateClusterOperator(c)
  PROVE  Obtained(c) \in Copies \cup {co'}
<1>1. ProcessOf(c) \in Process
  BY DEF ProcessOf, Process
<1>2. QED BY <1>1 DEF getOrCreateClusterOperator, Obtained, Cached, Copies, Publish

\* A step that leaves the reconcilers' copies alone makes no new ones.
LEMMA KeepsObj ==
  ASSUME UNCHANGED obj
  PROVE  TakesCopies
BY DEF TakesCopies, Copies

\* Dropping the copy of a finished status call makes no new ones either.
LEMMA DropsObj ==
  ASSUME TypeOK, NEW c \in Controller, DropObject(c)
  PROVE  TakesCopies
BY DEF TakesCopies, Copies, DropObject, TypeOK

\* Every step of a status call is sound.
LEMMA StatusStepSound ==
  ASSUME TypeOK, NEW c \in Controller, StatusStep(c)
  PROVE  SoundStep
<1>1. CASE StatusGet(c)
  <2>1. TakesCopies
    <3>1. CASE UNCHANGED obj
      BY <3>1, KeepsObj
    <3>2. CASE obj' = [obj EXCEPT ![c] = Obtained(c)]
      BY <1>1, <3>2, ObtainedIsCopy DEF StatusGet, TakesCopies, TypeOK, Copies
    <3>3. QED BY <1>1, <3>1, <3>2 DEF StatusGet
  <2>2. QED BY <1>1, <2>1, GetOrCreateStep DEF StatusGet, envVars
<1>2. CASE StatusGetFails(c)
  BY <1>2, KeepsObj, QuietStep DEF StatusGetFails, CreateFails, envVars
<1>3. NewStatus(call[c].op, obj[c].status) \in Status
  <2>1. call[c].op \in Operation /\ obj[c].status \in Status
    BY DEF TypeOK, Call, Object
  <2>2. QED BY <2>1, NewStatusTyped
<1>4. CASE StatusUpdate(c)
  BY <1>3, <1>4, DropsObj, QuietStep, CommitStep DEF StatusUpdate, envVars
<1>5. CASE StatusUpdateLost(c)
  BY <1>3, <1>5, DropsObj, QuietStep, CommitStep DEF StatusUpdateLost, envVars
<1>6. QED BY <1>1, <1>2, <1>4, <1>5 DEF StatusStep

\* Every step of the operator's Reconcile is sound.
LEMMA OperatorStepSound ==
  ASSUME TypeOK, OperatorStep
  PROVE  SoundStep
<1>1. UNCHANGED obj /\ UNCHANGED cache
  BY DEF OperatorStep, OperatorReconcile, OperatorReadFails, ProvisioningAllowed,
         ProvisioningCheckFails, OwnershipCheck, ComposeFails, ApplyResource,
         ApplyResourceFails, envVars
<1>2. UNCHANGED apiVars \/ getOrCreateClusterOperator(Op)
  BY DEF OperatorStep, OperatorReconcile, OperatorReadFails, ProvisioningAllowed,
         ProvisioningCheckFails, OwnershipCheck, ComposeFails, ApplyResource,
         ApplyResourceFails, CreateFails
<1>3. QED
  BY <1>1, <1>2, KeepsObj, QuietStep, GetOrCreateStep DEF Op, Controller

\* What informers, restarts and other clients do.
LEMMA EnvironmentSound ==
  ASSUME TypeOK, Environment
  PROVE  SoundStep
<1> USE DEF envVars, ctlVars
<1>1. CASE InfraChange \/ \E c \in SyncController : HealthChange(c)
  BY <1>1, KeepsObj, QuietStep DEF InfraChange, HealthChange
<1>2. CASE \E c \in Controller : \E k \in Keys(c) : Trigger(c, k)
  BY <1>2, KeepsObj, QuietStep DEF Trigger
<1>3. CASE OthersWriteCO
  <2>1. TakesCopies /\ UNCHANGED cache
    BY <1>3, KeepsObj DEF OthersWriteCO
  <2>2. CASE Publish(NoObject)
    BY <2>1, <2>2, NoObjectTyped, PublishStep
  <2>3. ASSUME HasFreshRV, NEW o \in {Created, [co EXCEPT !.rv = FreshRV]}, Publish(o)
        PROVE  SoundStep
    <3>1. o \in Object /\ o.rv \in RV /\ o.rv \notin UsedRV
      BY <2>3, OthersFresh DEF TypeOK
    <3>2. QED BY <2>1, <2>3, <3>1, PublishStep
  <2>4. QED BY <1>3, <2>2, <2>3 DEF OthersWriteCO
<1>4. ASSUME NEW p \in Process, DeliverCO(p)
      PROVE  SoundStep
  <2>1. watch[p] \in Seq(Object) /\ watch[p] # << >>
    BY <1>4 DEF DeliverCO, TypeOK
  <2>2. Head(watch[p]) \in Copies
    BY <2>1, SMT DEF Copies
  <2>3. ASSUME NEW q \in Process, NEW i \in 1 .. Len(watch'[q])
        PROVE  watch'[q][i] \in Copies
    <3>1. CASE q = p
      <4>1. watch'[p] = Tail(watch[p])
        BY <1>4 DEF DeliverCO, TypeOK
      <4>2. i + 1 \in 1 .. Len(watch[p]) /\ watch'[p][i] = watch[p][i + 1]
        BY <2>1, <2>3, <3>1, <4>1, SMT
      <4>3. QED BY <3>1, <4>2, SMT DEF Copies
    <3>2. CASE q # p
      BY <1>4, <2>3, <3>2, SMT DEF DeliverCO, TypeOK, Copies
    <3>3. QED BY <3>1, <3>2
  <2>4. CopiesStep
    <3>1. \A q \in Process : cache'[q] \in Copies
      BY <1>4, <2>2 DEF DeliverCO, Copies, TypeOK
    <3>2. \A c \in Controller : obj'[c] \in Copies
      BY <1>4 DEF DeliverCO, Copies
    <3>3. Copies' \subseteq Copies
      <4> DEFINE Old == Copies
      <4>1. /\ \A q \in Process : cache'[q] \in Old
            /\ \A c \in Controller : obj'[c] \in Old
            /\ \A q \in Process : \A i \in 1 .. Len(watch'[q]) : watch'[q][i] \in Old
        BY <2>3, <3>1, <3>2
      <4> HIDE DEF Old
      <4>2. Copies' \subseteq Old
        BY <4>1, SMT DEF Copies
      <4>3. QED BY <4>2 DEF Old
    <3>4. QED BY <3>3 DEF CopiesStep
  <2>5. QED BY <1>4, <2>4 DEF DeliverCO, SoundStep, ObjectStep, HandoffStep
<1>5. ASSUME NEW p \in Process, DeliverInfra(p)
      PROVE  SoundStep
  BY <1>5, KeepsObj, QuietStep DEF DeliverInfra
<1>6. ASSUME NEW p \in Process, Crash(p)
      PROVE  SoundStep
  <2>1. ASSUME NEW q \in Process, NEW i \in 1 .. Len(watch'[q])
        PROVE  watch'[q][i] \in Copies
    <3>1. q # p
      BY <1>6, <2>1, SMT DEF Crash, TypeOK
    <3>2. QED BY <1>6, <2>1, <3>1, SMT DEF Crash, TypeOK, Copies
  <2>2. CopiesStep
    BY <1>6, <2>1, SMT DEF Crash, CopiesStep, Copies, TypeOK
  <2>3. QED BY <1>6, <2>2 DEF Crash, SoundStep, ObjectStep, HandoffStep
<1>7. ASSUME NEW p \in Process, Restart(p)
      PROVE  SoundStep
  <2>1. CopiesStep
    BY <1>7, SMT DEF Restart, apiVars, CopiesStep, Copies, TypeOK
  <2>2. QED BY <1>7, <2>1 DEF Restart, apiVars, SoundStep, ObjectStep, HandoffStep
<1>8. QED
  BY <1>1, <1>2, <1>3, <1>4, <1>5, <1>6, <1>7 DEF Environment

\* Every step is sound.
LEMMA NextSound ==
  ASSUME TypeOK, [Next]_vars
  PROVE  SoundStep
<1>1. CASE CloudConfigReconcile \/ \E k \in Keys("TrustedCABundle") : TrustedCAReconcile(k)
  BY <1>1, KeepsObj, QuietStep DEF CloudConfigReconcile, TrustedCAReconcile, envVars
<1>2. CASE UNCHANGED vars
  BY <1>2, KeepsObj, QuietStep DEF vars, apiVars
<1>3. QED
  BY <1>1, <1>2, OperatorStepSound, StatusStepSound, EnvironmentSound DEF Next

\* Every step preserves the types.
LEMMA NextTyped ==
  ASSUME TypeOK, [Next]_vars
  PROVE  TypeOK'
BY OperatorStepTyped, SyncStepTyped, StatusStepTyped, EnvironmentTyped, StutterTyped
DEF Next

\* There are no copies that could be unsound initially.
LEMMA InitCopies == Init => CopiesInv
<1> SUFFICES ASSUME Init PROVE CopiesInv
  OBVIOUS
<1>1. Copies \subseteq {co, NoObject}
  BY SMT DEF Init, Copies
<1>2. ~Exists(co) => co = NoObject
  BY StartAssumption DEF Init
<1>3. AbsentIsEmpty
  BY <1>1, <1>2 DEF AbsentIsEmpty
<1>4. SnapshotsSound
  BY <1>1, <1>2, SMT DEF SnapshotsSound, Exists, NoObject
<1>5. OpenWasStored
  BY <1>1, EmptyGateClosed DEF OpenWasStored, Init
<1>6. QED BY <1>3, <1>4, <1>5, InitTyped DEF CopiesInv

\* The invariant on copies is inductive.
LEMMA CopiesInvInductive == CopiesInv /\ [Next]_vars => CopiesInv'
BY NextTyped, NextSound, CopiesInvStep DEF CopiesInv, SoundStep

\* Every copy of the ClusterOperator that still carries the resourceVersion of
\* the stored object is the stored object, whichever process or reconciler has
\* it: the conflict check of Status().Update suffices against lost updates.
THEOREM SnapshotsAreSound == Spec => []SnapshotsSound
<1>1. CopiesInv => SnapshotsSound
  BY DEF CopiesInv
<1>2. QED BY <1>1, InitCopies, CopiesInvInductive, PTL DEF Spec

-------------------------------------------------------------------------------
(* StatusSync implements AtomicStatus *)

\* A step of the abstract object, or none.
AtomicStep == [Atomic!Next]_<<Exists(co), co.status>>

\* Both modules mean the same empty status.
LEMMA SameEmptyStatus == Atomic!EmptyStatus = EmptyStatus
BY DEF Atomic!EmptyStatus, EmptyStatus, Atomic!ConditionType, ConditionType,
       Atomic!OperatorConditions, OperatorConditions, Atomic!CloudConfigConditions,
       CloudConfigConditions, Atomic!TrustedCAConditions, TrustedCAConditions

\* Creating the object, by a controller or another client, is the abstract Create.
LEMMA CreateIsAtomic ==
  ASSUME ~Exists(co), co' = Created, HasFreshRV, CopiesInv
  PROVE  AtomicStep
<1>1. Exists(co)' = TRUE
  BY CreatedTyped DEF Exists
<1>2. co'.status = EmptyStatus
  BY DEF Created
<1>3. Atomic!EmptyStatus = EmptyStatus
  BY SameEmptyStatus
<1>4. Atomic!Create
  BY <1>1, <1>2, <1>3 DEF Atomic!Create
<1>5. QED BY <1>4 DEF AtomicStep, Atomic!Next

\* getOrCreateClusterOperator is the abstract Create, or leaves the status.
LEMMA GetOrCreateIsAtomic ==
  ASSUME CopiesInv, NEW c \in Controller, getOrCreateClusterOperator(c)
  PROVE  AtomicStep
<1>1. CASE UNCHANGED apiVars
  BY <1>1 DEF apiVars, AtomicStep, Exists
<1>2. CASE ~Exists(co) /\ HasFreshRV /\ Publish(Created)
  BY <1>2, CreateIsAtomic DEF Publish
<1>3. QED BY <1>1, <1>2 DEF getOrCreateClusterOperator

\* A status call whose write is accepted had read the object as it is now.
LEMMA UpdateIsAtomic ==
  ASSUME CopiesInv, NEW c \in Controller, UpdateAccepted(c),
         CommitStatus(NewStatus(call[c].op, obj[c].status))
  PROVE  AtomicStep
<1>1. obj[c] = co
  BY DEF CopiesInv, SnapshotsSound, UpdateAccepted, Copies
<1>2. CASE UNCHANGED apiVars
  BY <1>2 DEF apiVars, AtomicStep, Exists
<1>3. CASE HasFreshRV /\ co' = [rv |-> FreshRV, status |-> NewStatus(call[c].op, co.status)]
  <2>1. Exists(co) /\ Exists(co)'
    BY <1>3, FreshRVUnused, BoundsAssumption DEF UpdateAccepted, Exists
  <2>2. (Exists(co)') = Exists(co)
    BY <2>1 DEF Exists
  <2>3. call[c].op \in Operation
    BY DEF CopiesInv, TypeOK, Call
  <2>4. co'.status = NewStatus(call[c].op, co.status)
    BY <1>3
  <2>5. Atomic!Next
    BY <2>1, <2>2, <2>3, <2>4
    DEF NewStatus, Operation, Atomic!Next, Atomic!Report,
        setStatusDegraded, setStatusProgressing, setStatusAvailable,
        removeCloudControllerOwner, cloudConfigSetAvailable, cloudConfigSetDegraded,
        trustedCASetAvailable, trustedCASetDegraded,
        Atomic!setStatusDegraded, Atomic!setStatusProgressing, Atomic!setStatusAvailable,
        Atomic!removeCloudControllerOwner, Atomic!cloudConfigSetAvailable,
        Atomic!cloudConfigSetDegraded, Atomic!trustedCASetAvailable,
        Atomic!trustedCASetDegraded
  <2>6. QED BY <2>5 DEF AtomicStep
<1>4. QED BY <1>1, <1>2, <1>3 DEF CommitStatus, Publish

\* Every step is a step of AtomicStatus, or leaves the stored status alone.
LEMMA NextIsAtomic == CopiesInv /\ [Next]_vars => AtomicStep
<1> SUFFICES ASSUME CopiesInv, [Next]_vars PROVE AtomicStep
  OBVIOUS
<1>1. ASSUME co' = co PROVE AtomicStep
  BY <1>1 DEF AtomicStep, Exists
<1>2. CASE OperatorStep
  <2>1. UNCHANGED apiVars \/ getOrCreateClusterOperator(Op)
    BY <1>2 DEF OperatorStep, OperatorReconcile, OperatorReadFails, ProvisioningAllowed,
         ProvisioningCheckFails, OwnershipCheck, ComposeFails, ApplyResource,
         ApplyResourceFails, CreateFails
  <2>2. QED BY <1>1, <2>1, GetOrCreateIsAtomic DEF apiVars, Op, Controller
<1>3. CASE CloudConfigReconcile \/ \E k \in Keys("TrustedCABundle") : TrustedCAReconcile(k)
  BY <1>1, <1>3 DEF CloudConfigReconcile, TrustedCAReconcile, apiVars
<1>4. ASSUME NEW c \in Controller, StatusStep(c) PROVE AtomicStep
  <2>1. \/ getOrCreateClusterOperator(c)
        \/ UNCHANGED apiVars
        \/ UpdateAccepted(c) /\ CommitStatus(NewStatus(call[c].op, obj[c].status))
    BY <1>4 DEF StatusStep, StatusGet, StatusGetFails, StatusUpdate, StatusUpdateLost,
                CreateFails
  <2>2. QED BY <1>1, <2>1, GetOrCreateIsAtomic, UpdateIsAtomic DEF apiVars
<1>5. CASE Environment
  <2>1. CASE OthersWriteCO
    <3>1. CASE Exists(co) /\ HasFreshRV /\ Publish([co EXCEPT !.rv = FreshRV])
      <4>1. co'.status = co.status /\ Exists(co)'
        BY <3>1, FreshRVUnused, BoundsAssumption DEF CopiesInv, TypeOK, Object, Publish, Exists
      <4>2. QED BY <3>1, <4>1 DEF AtomicStep, Exists
    <3>2. CASE Exists(co) /\ Publish(NoObject)
      <4>1. co' = NoObject
        BY <3>2 DEF Publish
      <4>2. (Exists(co)') = FALSE /\ co'.status = EmptyStatus
        BY <4>1 DEF NoObject, Exists
      <4>3. Atomic!EmptyStatus = EmptyStatus
        BY SameEmptyStatus
      <4>4. QED BY <3>2, <4>2, <4>3 DEF AtomicStep, Atomic!Next, Atomic!Delete
    <3>3. CASE ~Exists(co) /\ HasFreshRV /\ Publish(Created)
      BY <3>3, CreateIsAtomic DEF Publish
    <3>4. QED BY <2>1, <3>1, <3>2, <3>3 DEF OthersWriteCO
  <2>2. CASE ~OthersWriteCO
    BY <1>1, <1>5, <2>2 DEF Environment, InfraChange, HealthChange, DeliverCO,
       DeliverInfra, Crash, Restart, Trigger, apiVars
  <2>3. QED BY <2>1, <2>2
<1>6. CASE UNCHANGED vars
  BY <1>1, <1>6 DEF vars
<1>7. QED BY <1>2, <1>3, <1>4, <1>5, <1>6 DEF Next

\* No update of the ClusterOperator status is lost: for any number of versions,
\* operands and faults the stored status evolves as if each status call of the
\* three reconcilers were one atomic step on the status it finds.
THEOREM StatusUpdatesAreAtomic == Spec => StatusIsAtomic
<1>1. Init => Atomic!Init
  <2> SUFFICES ASSUME Init PROVE Atomic!Init
    OBVIOUS
  <2>1. Atomic!EmptyStatus = EmptyStatus
    BY SameEmptyStatus
  <2>2. CASE Exists(co)
    BY <2>2 DEF Init, Atomic!Init
  <2>3. CASE ~Exists(co)
    BY <2>1, <2>3, StartAssumption, SMT DEF Init, Atomic!Init, NoObject
  <2>4. QED BY <2>2, <2>3
<1>2. QED
  BY <1>1, InitCopies, CopiesInvInductive, NextIsAtomic, PTL
  DEF Spec, StatusIsAtomic, Atomic!Spec, AtomicStep

-------------------------------------------------------------------------------
(***************************************************************************)
(* The gate.  CloudOperatorReconciler is past provisioningAllowed only     *)
(* when some copy of the object showed the gate open, and every such copy  *)
(* was the stored object at some time (OpenWasStored).                     *)
(***************************************************************************)
GateInv ==
  /\ CopiesInv
  /\ HandoffBeforeDeploy
  /\ pc[Op] \in {"ownedByCCM", "apply"} => handedOff

\* Nothing is deployed initially.
LEMMA InitGate == Init => GateInv
<1> SUFFICES ASSUME Init PROVE GateInv
  OBVIOUS
<1>1. pc[Op] = "idle"
  BY DEF Init, Op, Controller
<1>2. HandoffBeforeDeploy
  BY BoundsAssumption DEF Init, HandoffBeforeDeploy
<1>3. QED BY <1>1, <1>2, InitCopies DEF GateInv

\* Steps that neither move the operator's worker past the gate nor deploy.
LEMMA GateKept ==
  ASSUME GateInv, CopiesInv', HandoffStep, UNCHANGED operands,
         pc'[Op] = pc[Op] \/ pc'[Op] \notin {"ownedByCCM", "apply"}
  PROVE  GateInv'
BY DEF GateInv, HandoffBeforeDeploy, HandoffStep

\* The same for the steps behind the gate.
LEMMA GatePassed ==
  ASSUME GateInv, CopiesInv', HandoffStep, handedOff
  PROVE  GateInv'
BY DEF GateInv, HandoffBeforeDeploy, HandoffStep

\* The invariant behind the gate is inductive.
LEMMA GateInvInductive == GateInv /\ [Next]_vars => GateInv'
<1> SUFFICES ASSUME GateInv, [Next]_vars PROVE GateInv'
  OBVIOUS
<1>0. CopiesInv /\ CopiesInv' /\ HandoffStep /\ TypeOK /\ Op \in Controller
  BY CopiesInvInductive, NextSound DEF GateInv, CopiesInv, SoundStep, Op, Controller
<1>1. CASE OperatorStep
  <2>1. CASE OperatorReconcile \/ OperatorReadFails
    <3>1. pc'[Op] \notin {"ownedByCCM", "apply"}
      BY <1>0, <2>1 DEF OperatorReconcile, OperatorReadFails, StartCall, Goto, TypeOK
    <3>2. QED BY <1>0, <2>1, <3>1, GateKept DEF OperatorReconcile, OperatorReadFails, opVars
  <2>2. CASE ProvisioningAllowed
    <3>1. CASE GateOpen(Obtained(Op).status)
      <4>1. Obtained(Op) \in Copies \cup {co'}
        BY <1>0, <2>2, ObtainedIsCopy DEF ProvisioningAllowed
      <4>2. handedOff'
        BY <1>0, <3>1, <4>1 DEF CopiesInv, OpenWasStored, HandoffStep
      <4>3. UNCHANGED operands
        BY <2>2 DEF ProvisioningAllowed, opVars
      <4>4. QED BY <1>0, <4>2, <4>3 DEF GateInv, HandoffBeforeDeploy
    <3>2. CASE ~GateOpen(Obtained(Op).status)
      <4>1. pc'[Op] \notin {"ownedByCCM", "apply"}
        BY <1>0, <2>2, <3>2 DEF ProvisioningAllowed, checkControllerConditions, GateOpen, Degrade, Continue, StartCall,
           ReturnNil, Leave, Goto, TypeOK
      <4>2. QED BY <1>0, <2>2, <4>1, GateKept DEF ProvisioningAllowed, opVars
    <3>3. QED BY <3>1, <3>2
  <2>3. CASE ProvisioningCheckFails
    <3>1. pc'[Op] \notin {"ownedByCCM", "apply"}
      BY <1>0, <2>3 DEF ProvisioningCheckFails, Degrade, Continue, StartCall, Goto, TypeOK
    <3>2. QED BY <1>0, <2>3, <3>1, GateKept DEF ProvisioningCheckFails, opVars
  <2>4. CASE OwnershipCheck \/ ComposeFails \/ ApplyResource \/ ApplyResourceFails
    <3>1. handedOff
      BY <2>4 DEF OwnershipCheck, ComposeFails, ApplyResource, ApplyResourceFails, GateInv
    <3>2. QED BY <1>0, <3>1, GatePassed
  <2>5. QED BY <1>1, <2>1, <2>2, <2>3, <2>4 DEF OperatorStep
<1>2. CASE CloudConfigReconcile \/ \E k \in Keys("TrustedCABundle") : TrustedCAReconcile(k)
  <2>1. pc'[Op] = pc[Op]
    BY <1>0, <1>2 DEF CloudConfigReconcile, TrustedCAReconcile, StartCall, Goto, TypeOK, Op
  <2>2. QED BY <1>0, <1>2, <2>1, GateKept DEF CloudConfigReconcile, TrustedCAReconcile, opVars
<1>3. ASSUME NEW c \in Controller, StatusStep(c) PROVE GateInv'
  <2>1. UNCHANGED operands
    BY <1>3 DEF StatusStep, StatusGet, StatusGetFails, StatusUpdate, StatusUpdateLost, opVars
  <2>2. CallSucceeded(c) \/ CallFailed(c) \/ Goto(c, "update")
    BY <1>3 DEF StatusStep, StatusGet, StatusGetFails, StatusUpdate, StatusUpdateLost
  <2>3. \E label \in {"idle", "get", "update"} : Goto(c, label)
    BY <2>2 DEF CallSucceeded, CallFailed, Degrade, Continue, StartCall, ReturnNil,
       ReturnError, Leave
  <2>4. pc'[Op] = pc[Op] \/ pc'[Op] \notin {"ownedByCCM", "apply"}
    BY <1>0, <2>3 DEF Goto, TypeOK
  <2>5. QED BY <1>0, <2>1, <2>4, GateKept
<1>4. CASE Environment
  <2>1. UNCHANGED operands /\ (pc'[Op] = pc[Op] \/ pc'[Op] = "idle")
    BY <1>0, <1>4 DEF Environment, InfraChange, OthersWriteCO, HealthChange, DeliverCO,
       DeliverInfra, Crash, Restart, Trigger, ctlVars, opVars
  <2>2. QED BY <1>0, <2>1, GateKept
<1>5. CASE UNCHANGED vars
  BY <1>0, <1>5, GateKept DEF vars
<1>6. QED BY <1>1, <1>2, <1>3, <1>4, <1>5 DEF Next

\* No operand of the release is written before both sync controllers have been
\* available and not degraded in one and the same version of the object.
THEOREM GateIsRespected == Spec => []HandoffBeforeDeploy
<1>1. GateInv => HandoffBeforeDeploy
  BY DEF GateInv
<1>2. QED BY <1>1, InitGate, GateInvInductive, PTL DEF Spec

-------------------------------------------------------------------------------
(***************************************************************************)
(* The rollout.  While applyResources is at operand n all operands before  *)
(* it run the release; the status calls that follow the loop are made only *)
(* after it has ended.                                                     *)
(***************************************************************************)
AllApplied == \A r \in Resource : operands[r] = ReleaseVersion

\* The status calls Reconcile makes after sync has returned nil.
AfterSync(k) == k.then \in {"setAvailable", "clearOwner"} \/ k.op = "ClearOwner"

RolloutInv ==
  /\ TypeOK
  /\ pc[Op] \notin {"get", "update"} => call[Op] = NoCall
  /\ pc[Op] = "apply" => /\ platform = "ccm"
                         /\ \A r \in Resource : r < next => operands[r] = ReleaseVersion
  /\ platform = "ccm" /\ AfterSync(call[Op]) => AllApplied

\* No status call is under way initially.
LEMMA InitRollout == Init => RolloutInv
<1> SUFFICES ASSUME Init PROVE RolloutInv
  OBVIOUS
<1>1. pc[Op] = "idle" /\ call[Op] = NoCall
  BY DEF Init, Op, Controller
<1>2. ~AfterSync(NoCall)
  BY DEF NoCall, AfterSync
<1>3. QED BY <1>1, <1>2, InitTyped DEF RolloutInv

\* A worker that is done, or degrades, promises nothing about the operands.
LEMMA RolloutReset ==
  ASSUME RolloutInv, TypeOK',
         \/ pc'[Op] \in {"idle", "provisioningAllowed", "ownedByCCM"} /\ call'[Op] = NoCall
         \/ pc'[Op] \in {"get", "update"} /\ ~AfterSync(call'[Op])
  PROVE  RolloutInv'
BY SMT DEF RolloutInv, AfterSync, NoCall

\* Steps that leave the operator's progress alone preserve the rollout invariant.
LEMMA RolloutFrame ==
  ASSUME RolloutInv, TypeOK', UNCHANGED opVars, call'[Op] = call[Op],
         pc'[Op] = pc[Op] \/ (pc[Op] = "get" /\ pc'[Op] = "update")
  PROVE  RolloutInv'
BY DEF RolloutInv, AfterSync, AllApplied, opVars

\* The loop goes on, or ends with every operand applied.
LEMMA ApplyFromRollout ==
  ASSUME RolloutInv, TypeOK', NEW n \in 1 .. NumResources + 1, NEW u \in BOOLEAN,
         ApplyFrom(n, u), UNCHANGED platform,
         pc[Op] \in {"ownedByCCM", "apply"},
         platform = "ccm" => \A r \in Resource : r < n => operands'[r] = ReleaseVersion
  PROVE  RolloutInv'
<1>0. call[Op] = NoCall /\ TypeOK /\ Op \in Controller /\ NumResources \in Nat \ {0}
  BY BoundsAssumption DEF RolloutInv, Op, Controller
<1>1. CASE n <= NumAssets
  <2>1. platform = "ccm"
    BY <1>0, <1>1, SMT DEF NumAssets
  <2>2. pc'[Op] = "apply" /\ next' = n /\ call'[Op] = NoCall
    BY <1>0, <1>1 DEF ApplyFrom, Goto, TypeOK
  <2>3. QED BY <2>1, <2>2, SMT DEF RolloutInv, AfterSync, NoCall
<1>2. CASE ~(n <= NumAssets)
  <2>1. pc'[Op] = "get"
    BY <1>0, <1>2 DEF ApplyFrom, Continue, StartCall, Goto, TypeOK
  <2>2. platform = "ccm" => AllApplied'
    <3>1. platform = "ccm" => n = NumResources + 1
      BY <1>0, <1>2, SMT DEF NumAssets
    <3>2. QED BY <1>0, <3>1, SMT DEF AllApplied, Resource
  <2>3. QED BY <2>1, <2>2 DEF RolloutInv
<1>3. QED BY <1>1, <1>2

\* Status calls preserve the rollout invariant.
LEMMA StatusStepRollout ==
  ASSUME RolloutInv, TypeOK', NEW c \in Controller, StatusStep(c)
  PROVE  RolloutInv'
<1>0. TypeOK /\ UNCHANGED opVars /\ Op \in Controller
  BY DEF RolloutInv, StatusStep, StatusGet, StatusGetFails, StatusUpdate, StatusUpdateLost,
         Op, Controller
<1>1. \/ CallSucceeded(c) \/ CallFailed(c)
      \/ pc[c] = "get" /\ Goto(c, "update") /\ UNCHANGED call
  BY DEF StatusStep, StatusGet, StatusGetFails, StatusUpdate, StatusUpdateLost
<1>2. CASE c # Op
  <2>1. pc'[Op] = pc[Op] /\ call'[Op] = call[Op]
    BY <1>0, <1>1, <1>2 DEF CallSucceeded, CallFailed, Degrade, Continue, StartCall,
       ReturnNil, ReturnError, Leave, Goto, TypeOK
  <2>2. QED BY <1>0, <2>1, RolloutFrame
<1>3. CASE c = Op
  <2>1. CASE pc[c] = "get" /\ Goto(c, "update") /\ UNCHANGED call
    BY <1>0, <1>3, <2>1, RolloutFrame DEF Goto, TypeOK
  <2>2. CASE ReturnNil(c) \/ ReturnError(c)
    BY <1>0, <1>3, <2>2, RolloutReset DEF ReturnNil, ReturnError, Leave, Goto, TypeOK
  <2>3. CASE Degrade(c)
    BY <1>0, <1>3, <2>3, RolloutReset
    DEF Degrade, Continue, StartCall, Goto, TypeOK, AfterSync
  <2>4. CASE /\ call[c].then \in {"setAvailable", "clearOwner"}
             /\ \E op \in Operation, k \in Continuation : Continue(c, op, k)
    <3>1. platform = "ccm" => AllApplied
      BY <1>3, <2>4 DEF RolloutInv, AfterSync
    <3>2. pc'[Op] = "get"
      BY <1>0, <1>3, <2>4 DEF Continue, StartCall, Goto, TypeOK
    <3>3. QED BY <1>0, <3>1, <3>2 DEF RolloutInv, AllApplied, opVars
  <2>5. QED
    BY <1>1, <2>1, <2>2, <2>3, <2>4 DEF CallSucceeded, CallFailed, Operation, Continuation
<1>4. QED BY <1>2, <1>3

\* The steps of the operator's Reconcile preserve the rollout invariant.
LEMMA OperatorStepRollout ==
  ASSUME RolloutInv, TypeOK', OperatorStep
  PROVE  RolloutInv'
<1>0. TypeOK /\ Op \in Controller /\ NumResources \in Nat \ {0}
  BY BoundsAssumption DEF RolloutInv, Op, Controller
<1> USE DEF Degrade, Continue, StartCall, Goto
<1>1. CASE OperatorReconcile \/ OperatorReadFails
  <2>1. call[Op] = NoCall
    BY <1>1 DEF RolloutInv, OperatorReconcile, OperatorReadFails, Take
  <2>2. \/ StartCall(Op, "Available", "done")
        \/ StartCall(Op, "Degraded", "fail")
        \/ Goto(Op, "provisioningAllowed") /\ UNCHANGED call
    BY <1>1 DEF OperatorReconcile, OperatorReadFails
  <2>3. CASE StartCall(Op, "Available", "done")
    BY <1>0, <2>3, RolloutReset DEF TypeOK, AfterSync
  <2>4. CASE StartCall(Op, "Degraded", "fail")
    BY <1>0, <2>4, RolloutReset DEF TypeOK, AfterSync
  <2>5. CASE Goto(Op, "provisioningAllowed") /\ UNCHANGED call
    BY <1>0, <2>1, <2>5, RolloutReset DEF TypeOK
  <2>6. QED BY <2>2, <2>3, <2>4, <2>5
<1>2. CASE ProvisioningAllowed
  <2>1. call[Op] = NoCall
    BY <1>2 DEF RolloutInv, ProvisioningAllowed
  <2>2. \/ Degrade(Op)
        \/ Leave(Op)
        \/ platform = "External" /\ Continue(Op, "Available", "done")
        \/ Goto(Op, "ownedByCCM") /\ UNCHANGED call
    BY <1>2 DEF ProvisioningAllowed, ReturnNil, ReturnError
  <2>3. CASE Degrade(Op)
    BY <1>0, <2>3, RolloutReset DEF TypeOK, AfterSync
  <2>4. CASE Leave(Op)
    BY <1>0, <2>4, RolloutReset DEF Leave, TypeOK
  <2>5. CASE platform = "External" /\ Continue(Op, "Available", "done")
    <3>1. platform' = "External" /\ pc'[Op] = "get"
      BY <1>0, <1>2, <2>5 DEF ProvisioningAllowed, opVars, TypeOK
    <3>2. QED BY <3>1 DEF RolloutInv
  <2>6. CASE Goto(Op, "ownedByCCM") /\ UNCHANGED call
    BY <1>0, <2>1, <2>6, RolloutReset DEF TypeOK
  <2>7. QED BY <2>2, <2>3, <2>4, <2>5, <2>6
<1>3. CASE ProvisioningCheckFails \/ ComposeFails \/ ApplyResourceFails
  <2>1. Degrade(Op)
    BY <1>3 DEF ProvisioningCheckFails, ComposeFails, ApplyResourceFails
  <2>2. QED BY <1>0, <2>1, RolloutReset DEF TypeOK, AfterSync
<1>4. CASE OwnershipCheck
  <2>1. CASE ApplyFrom(1, FALSE)
    <3>1. 1 \in 1 .. NumResources + 1 /\ FALSE \in BOOLEAN
      BY <1>0, SMT
    <3>2. \A r \in Resource : ~(r < 1)
      BY <1>0, SMT DEF Resource
    <3>3. UNCHANGED platform /\ pc[Op] \in {"ownedByCCM", "apply"}
      BY <1>4 DEF OwnershipCheck
    <3>4. QED BY <2>1, <3>1, <3>2, <3>3, ApplyFromRollout, Zenon
  <2>2. CASE Continue(Op, "Available", "done")
    BY <1>0, <2>2, RolloutReset DEF TypeOK, AfterSync
  <2>3. QED BY <1>4, <2>1, <2>2 DEF OwnershipCheck
<1>5. CASE ApplyResource
  <2> DEFINE n == next + 1
  <2>1. n \in 1 .. NumResources + 1 /\ next \in Resource
    BY <1>0, SMT DEF TypeOK, Resource
  <2>2. (operands[next] # ReleaseVersion) \in BOOLEAN
    OBVIOUS
  <2>3. \A r \in Resource : r < n => operands'[r] = ReleaseVersion
    <3>1. ASSUME NEW r \in Resource, r < n PROVE r < next \/ r = next
      BY <1>0, <2>1, <3>1, SMT DEF Resource
    <3>2. QED BY <1>0, <1>5, <2>1, <3>1 DEF ApplyResource, Applied, RolloutInv, TypeOK
  <2>4. /\ ApplyFrom(n, operands[next] # ReleaseVersion)
        /\ UNCHANGED platform
        /\ pc[Op] \in {"ownedByCCM", "apply"}
    BY <1>5 DEF ApplyResource
  <2> HIDE DEF n
  <2>5. QED BY <2>1, <2>2, <2>3, <2>4, ApplyFromRollout
<1>6. QED BY <1>1, <1>2, <1>3, <1>4, <1>5 DEF OperatorStep

\* The rollout invariant is inductive.
LEMMA RolloutInvInductive == RolloutInv /\ [Next]_vars => RolloutInv'
<1> SUFFICES ASSUME RolloutInv, [Next]_vars PROVE RolloutInv'
  OBVIOUS
<1>0. TypeOK /\ TypeOK' /\ Op \in Controller
  BY NextTyped DEF RolloutInv, Op, Controller
<1>1. CASE CloudConfigReconcile \/ \E k \in Keys("TrustedCABundle") : TrustedCAReconcile(k)
  <2>1. pc'[Op] = pc[Op] /\ call'[Op] = call[Op] /\ UNCHANGED opVars
    BY <1>0, <1>1, ZenonT(60) DEF CloudConfigReconcile, TrustedCAReconcile, StartCall, Goto, TypeOK, Op
  <2>2. QED BY <1>0, <2>1, RolloutFrame
<1>2. CASE Environment
  <2>1. CASE UNCHANGED <<pc, call, opVars>>
    BY <1>0, <2>1, RolloutFrame
  <2>2. ASSUME NEW p \in Process, Crash(p) PROVE RolloutInv'
    <3>1. CASE p = "operator"
      BY <1>0, <2>2, <3>1, RolloutReset DEF Crash, ProcessOf, Op
    <3>2. CASE p # "operator"
      BY <1>0, <2>2, <3>2, RolloutFrame DEF Crash, ProcessOf, Op, opVars
    <3>3. QED BY <3>1, <3>2
  <2>3. QED BY <1>2, <2>1, <2>2 DEF Environment, InfraChange, OthersWriteCO, HealthChange,
       DeliverCO, DeliverInfra, Restart, Trigger, ctlVars
<1>3. CASE UNCHANGED vars
  BY <1>0, <1>3, RolloutFrame DEF vars, opVars
<1>4. QED
  BY <1>0, <1>1, <1>2, <1>3, OperatorStepRollout, StatusStepRollout DEF Next

\* For any number of operands: setStatusAvailable after sync, and the removal of
\* the ownership condition, happen only when all operands run the release.
THEOREM AvailableAfterRollout == Spec => []AvailableMeansApplied
<1>1. RolloutInv => AvailableMeansApplied
  BY DEF RolloutInv, AvailableMeansApplied, AfterSync, AllApplied
<1>2. QED BY <1>1, InitRollout, RolloutInvInductive, PTL DEF Spec

\* No update of the status adds the ownership condition.
LEMMA UpdatesAddNoOwner ==
  ASSUME NEW s \in Status, ~OwnershipRecorded(s)
  PROVE  /\ ~OwnershipRecorded(Atomic!setStatusDegraded(s))
         /\ ~OwnershipRecorded(Atomic!setStatusProgressing(s))
         /\ ~OwnershipRecorded(Atomic!setStatusAvailable(s))
         /\ ~OwnershipRecorded(Atomic!removeCloudControllerOwner(s))
         /\ ~OwnershipRecorded(Atomic!cloudConfigSetAvailable(s))
         /\ ~OwnershipRecorded(Atomic!cloudConfigSetDegraded(s))
         /\ ~OwnershipRecorded(Atomic!trustedCASetAvailable(s))
         /\ ~OwnershipRecorded(Atomic!trustedCASetDegraded(s))
<1> USE DEF OwnershipRecorded, Status
<1>0. "CloudControllerOwner" \in ConditionType
  BY DEF ConditionType
<1>1. ~OwnershipRecorded(Atomic!setStatusDegraded(s))
  BY <1>0 DEF Atomic!setStatusDegraded
<1>2. ~OwnershipRecorded(Atomic!setStatusProgressing(s))
  BY <1>0 DEF Atomic!setStatusProgressing
<1>3. ~OwnershipRecorded(Atomic!setStatusAvailable(s))
  BY <1>0 DEF Atomic!setStatusAvailable
<1>4. ~OwnershipRecorded(Atomic!removeCloudControllerOwner(s))
  BY <1>0 DEF Atomic!removeCloudControllerOwner
<1>5. ~OwnershipRecorded(Atomic!cloudConfigSetAvailable(s))
  BY <1>0 DEF Atomic!cloudConfigSetAvailable
<1>6. ~OwnershipRecorded(Atomic!cloudConfigSetDegraded(s))
  BY <1>0 DEF Atomic!cloudConfigSetDegraded
<1>7. ~OwnershipRecorded(Atomic!trustedCASetAvailable(s))
  BY <1>0 DEF Atomic!trustedCASetAvailable
<1>8. ~OwnershipRecorded(Atomic!trustedCASetDegraded(s))
  BY <1>0 DEF Atomic!trustedCASetDegraded
<1>9. QED BY <1>1, <1>2, <1>3, <1>4, <1>5, <1>6, <1>7, <1>8

\* No step brings the CloudControllerOwner condition back: in no update of the
\* status does a controller add it, and none writes from an outdated copy.
THEOREM OwnerIsClearedOnce == Spec => OwnerStaysCleared
<1> DEFINE A == (Exists(co) /\ ~OwnershipRecorded(co.status))
                  => ~OwnershipRecorded(co'.status)
<1>1. CopiesInv /\ [Next]_vars => A
  <2> SUFFICES ASSUME CopiesInv, AtomicStep PROVE A
    BY NextIsAtomic
  <2>1. CASE UNCHANGED <<Exists(co), co.status>>
    BY <2>1
  <2>2. CASE Atomic!Create \/ Atomic!Delete
    <3>1. co'.status = EmptyStatus
      BY <2>2, SameEmptyStatus DEF Atomic!Create, Atomic!Delete
    <3>2. QED BY <3>1, SMT DEF EmptyStatus, OwnershipRecorded, ConditionType
  <2>3. CASE Atomic!Next /\ ~Atomic!Create /\ ~Atomic!Delete
    <3>1. co.status \in Status
      BY DEF CopiesInv, TypeOK, Object
    <3>2. QED BY <2>3, <3>1, UpdatesAddNoOwner DEF Atomic!Next, Atomic!Report
  <2>4. QED BY <2>1, <2>2, <2>3 DEF AtomicStep
<1>2. QED
  BY <1>1, InitCopies, CopiesInvInductive, PTL DEF Spec, OwnerStaysCleared
-------------------------------------------------------------------------------
(***************************************************************************)
(* Coming to rest.  A reconcile that no request follows has seen one       *)
(* version of the object from its first read to its last call: another     *)
(* version, its own writes included, would be an event and a request.      *)
(***************************************************************************)
Last(w) == w[Len(w)]

\* A running operator's informer ends with the stored object; a stopped one has
\* no watch.
Delivers ==
  IF up["operator"]
  THEN IF watch["operator"] = << >> THEN cache["operator"] = co
                                    ELSE Last(watch["operator"]) = co
  ELSE watch["operator"] = << >>

\* No request waits and no event is on its way.
Calm ==
  up["operator"] /\ Keys(Op) # {} /\ queue[Op] = {} /\ watch["operator"] = << >>

\* Behind an open gate, on the platform the informer has.
Allowed ==
  platform = infraSeen["operator"] /\ platform # "absent" /\ Exists(co) /\ GateOpen(co.status)

Ready == Allowed /\ platform \notin {"nilPlatform", "External"}

\* What a status call is made for, if it is not to report a failure.
CallDue ==
  \/ call[Op].then = "fail"
  \/ /\ call[Op].op = "Available" /\ call[Op].then = "done"
     /\ infraSeen["operator"] = "absent" \/ (Allowed /\ platform \in {"External", "none"})
  \/ Ready /\ call[Op].op = "Progressing" /\ call[Op].then = "setAvailable"
  \/ Ready /\ call[Op].op = "Available" /\ call[Op].then = "clearOwner"
  \/ Ready /\ Reported /\ call[Op].op = "ClearOwner" /\ call[Op].then = "done"

Undisturbed ==
  /\ pc[Op] = "idle" => SettledOn(infraSeen["operator"])
  /\ pc[Op] = "provisioningAllowed" => platform = infraSeen["operator"] /\ platform # "absent"
  /\ pc[Op] \in {"ownedByCCM", "apply"} => Ready
  /\ pc[Op] \in {"get", "update"} => CallDue
  /\ pc[Op] = "update" => obj[Op] = co

RestInv == Delivers /\ (Calm => Undisturbed)

\* A write reaches the watch of a running operator.
Announced ==
  IF up["operator"]
  THEN watch'["operator"] # << >> /\ Last(watch'["operator"]) = co'
  ELSE watch'["operator"] = watch["operator"]

\* Publishing an object announces it.
LEMMA PublishAnnounces ==
  ASSUME TypeOK, NEW o \in Object, Publish(o)
  PROVE  Announced
<1>0. CASE ~up["operator"]
  BY <1>0 DEF Announced, Publish, TypeOK, Process
<1> SUFFICES ASSUME up["operator"]
             PROVE  watch'["operator"] # << >> /\ Last(watch'["operator"]) = co'
  BY <1>0 DEF Announced
<1> DEFINE w == watch["operator"]
<1>1. w \in Seq(Object) /\ watch'["operator"] = Append(w, o) /\ co' = o
  BY DEF Publish, TypeOK, Process
<1> HIDE DEF w
<1>2. Append(w, o) # << >> /\ Append(w, o)[Len(Append(w, o))] = o
  BY <1>1, SMT
<1>3. QED BY <1>1, <1>2 DEF Last

\* An accepted update changes nothing, or is announced.
LEMMA CommitAnnounces ==
  ASSUME TypeOK, NEW s \in Status, CommitStatus(s)
  PROVE  (s = co.status /\ UNCHANGED apiVars) \/ Announced
<1>1. CASE s # co.status
  <2> DEFINE o == [rv |-> FreshRV, status |-> s]
  <2>1. o \in Object /\ Publish(o)
    BY <1>1, FreshRVUnused DEF CommitStatus, Object
  <2> HIDE DEF o
  <2>2. QED BY <2>1, PublishAnnounces
<1>2. QED BY <1>1 DEF CommitStatus

\* getOrCreateClusterOperator finds the object in the cache, or announces one.
LEMMA CreateAnnounces ==
  ASSUME TypeOK, NEW c \in Controller, getOrCreateClusterOperator(c)
  PROVE  (Exists(Cached(c)) /\ UNCHANGED apiVars) \/ Announced
BY CreatedTyped, PublishAnnounces DEF getOrCreateClusterOperator

\* Steps that deliver nothing keep the informer on its way to the object.
LEMMA DeliversStays ==
  ASSUME Delivers, UNCHANGED <<cache, up>>, UNCHANGED apiVars \/ Announced
  PROVE  Delivers'
BY DEF Delivers, Announced, apiVars, Last

\* A delivery takes the first of the events on their way, and keeps the last.
LEMMA LastOfTail ==
  ASSUME NEW w \in Seq(Object), w # << >>
  PROVE  IF Tail(w) = << >> THEN Head(w) = w[Len(w)] ELSE Last(Tail(w)) = w[Len(w)]
<1>1. /\ Tail(w) \in Seq(Object) /\ Len(w) \in Nat \ {0} /\ Len(Tail(w)) = Len(w) - 1
      /\ Head(w) = w[1]
      /\ \A i \in 1 .. Len(w) - 1 : Tail(w)[i] = w[i + 1]
  BY SMT
<1>2. ASSUME NEW v \in Seq(Object) PROVE v = << >> <=> Len(v) = 0
  BY SMT
<1>3. CASE Tail(w) = << >>
  <2>1. Len(w) = 1
    BY <1>1, <1>2, <1>3, SMT
  <2>2. QED BY <1>1, <1>3, <2>1
<1>4. CASE Tail(w) # << >>
  <2>1. Len(Tail(w)) # 0
    BY <1>1, <1>2, <1>4
  <2>2. Len(w) - 1 \in 1 .. Len(w) - 1 /\ Len(w) - 1 + 1 = Len(w)
    BY <1>1, <2>1, SMT
  <2>3. Tail(w)[Len(w) - 1] = w[Len(w)]
    BY <1>1, <2>2
  <2>4. QED BY <1>1, <1>4, <2>3 DEF Last
<1>5. QED BY <1>3, <1>4

\* If all is calm after a step without deliveries, it was before, and the cache
\* has the stored object.
LEMMA CalmBefore ==
  ASSUME RestInv, UNCHANGED <<cache, up>>, UNCHANGED apiVars \/ Announced,
         queue'[Op] = queue[Op], Calm'
  PROVE  /\ Calm /\ Undisturbed /\ UNCHANGED apiVars
         /\ cache["operator"] = co /\ Cached(Op) = co
<1>1. UNCHANGED apiVars
  BY DEF Calm, Announced
<1>2. Calm
  BY <1>1 DEF Calm, apiVars, Keys
<1>3. QED BY <1>1, <1>2 DEF RestInv, Delivers, Calm, Cached, ProcessOf, Op

\* Steps that do not concern the operator keep the invariant.
LEMMA RestFrame ==
  ASSUME RestInv, Delivers',
         Calm' => /\ Calm
                  /\ UNCHANGED <<co, platform, operands>>
                  /\ infraSeen'["operator"] = infraSeen["operator"]
                  /\ pc'[Op] = pc[Op] /\ call'[Op] = call[Op] /\ obj'[Op] = obj[Op]
  PROVE  RestInv'
<1> SUFFICES ASSUME Calm' PROVE Undisturbed'
  BY DEF RestInv
<1>1. /\ Undisturbed /\ UNCHANGED <<co, platform, operands>>
      /\ infraSeen'["operator"] = infraSeen["operator"]
      /\ pc'[Op] = pc[Op] /\ call'[Op] = call[Op] /\ obj'[Op] = obj[Op]
  BY DEF RestInv
<1>2. (Ready <=> Ready') /\ (Allowed <=> Allowed') /\ (Reported <=> Reported')
  BY <1>1 DEF Ready, Allowed, Reported, Holds, Exists, GateOpen, DependantsAvailable,
     DependantDegraded
<1>3. SettledOn(infraSeen["operator"]) <=> SettledOn(infraSeen["operator"])'
  BY <1>1, <1>2 DEF SettledOn, Holds, Exists, GateOpen, DependantsAvailable, DependantDegraded
<1>4. CallDue <=> CallDue'
  BY <1>1, <1>2 DEF CallDue
<1>5. QED BY <1>1, <1>2, <1>3, <1>4 DEF Undisturbed

\* A status call that is due may be begun.
LEMMA DueCallRests ==
  ASSUME pc'[Op] = "get", CallDue' PROVE Undisturbed'
BY DEF Undisturbed

\* A reconcile that returns an error leaves a request.
LEMMA ErrorRequests ==
  ASSUME TypeOK, ReturnError(Op) PROVE ~Calm'
BY DEF ReturnError, TypeOK, Calm, Op, Controller

\* A failed status call is reported, or leaves a request.
LEMMA FailureRests ==
  ASSUME TypeOK, Delivers', CallFailed(Op) \/ Degrade(Op) PROVE RestInv'
<1>1. CASE ReturnError(Op)
  BY <1>1, ErrorRequests DEF RestInv
<1>2. CASE Degrade(Op)
  <2>1. pc'[Op] = "get" /\ call'[Op].then = "fail"
    BY <1>2 DEF Degrade, Continue, StartCall, Goto, TypeOK, Op, Controller
  <2>2. CallDue'
    BY <2>1 DEF CallDue
  <2>3. QED BY <2>1, <2>2, DueCallRests DEF RestInv
<1>3. QED BY <1>1, <1>2 DEF CallFailed

\* What a status says that setStatusAvailable, or the removal of the ownership
\* condition, would not change.
LEMMA Unchanging ==
  ASSUME NEW s \in Status
  PROVE  /\ setStatusAvailable(s) = s =>
              /\ s.conditions["Available"] = "True" /\ s.conditions["Progressing"] = "False"
              /\ s.conditions["Degraded"] = "False" /\ s.conditions["Upgradeable"] = "True"
              /\ s.version = ReleaseVersion
         /\ removeCloudControllerOwner(s) = s => s.conditions["CloudControllerOwner"] = "Missing"
<1>1. {"Available", "Progressing", "Degraded", "Upgradeable", "CloudControllerOwner"}
        \subseteq ConditionType
  BY DEF ConditionType, OperatorConditions
<1>2. s.conditions \in [ConditionType -> ConditionStatus] /\ s \in Status
  BY DEF Status
<1>3. ASSUME setStatusAvailable(s) = s
      PROVE  /\ s.conditions["Available"] = "True" /\ s.conditions["Progressing"] = "False"
             /\ s.conditions["Degraded"] = "False" /\ s.conditions["Upgradeable"] = "True"
             /\ s.version = ReleaseVersion
  <2> DEFINE k == [s.conditions EXCEPT !["Available"]   = "True",
                                       !["Progressing"] = "False",
                                       !["Degraded"]    = "False",
                                       !["Upgradeable"] = "True"]
  <2>1. s.conditions = k /\ s.version = ReleaseVersion
    BY <1>2, <1>3 DEF setStatusAvailable, Status
  <2>2. /\ k["Available"] = "True" /\ k["Progressing"] = "False"
        /\ k["Degraded"] = "False" /\ k["Upgradeable"] = "True"
    BY <1>1, <1>2
  <2>3. QED BY <2>1, <2>2
<1>4. ASSUME removeCloudControllerOwner(s) = s
      PROVE  s.conditions["CloudControllerOwner"] = "Missing"
  <2>1. s.conditions = [s.conditions EXCEPT !["CloudControllerOwner"] = "Missing"]
    BY <1>2, <1>4 DEF removeCloudControllerOwner, Status
  <2>2. QED BY <1>1, <1>2, <2>1
<1>5. QED BY <1>3, <1>4

\* What a status call that succeeds leads to, if it has changed nothing.
LEMMA SuccessRests ==
  ASSUME TypeOK, RolloutInv, Delivers', CallSucceeded(Op),
         UNCHANGED <<platform, operands, infraSeen>>,
         Calm' => /\ CallDue /\ Exists(co) /\ co' = co
                  /\ call[Op].op = "Available" => Reported
                  /\ call[Op].op = "ClearOwner" => Holds("CloudControllerOwner", "Missing")
  PROVE  RestInv'
<1> SUFFICES ASSUME Calm' PROVE Undisturbed'
  BY DEF RestInv
<1>0. Op \in Controller
  BY DEF Op, Controller
<1>1. (Ready <=> Ready') /\ (Allowed <=> Allowed') /\ (Reported <=> Reported')
  BY DEF Ready, Allowed, Reported, Holds, Exists, GateOpen, DependantsAvailable,
     DependantDegraded
<1>2. CASE call[Op].then = "done"
  <2>1. pc'[Op] = "idle"
    BY <1>0, <1>2 DEF CallSucceeded, ReturnNil, Leave, Goto, TypeOK
  <2>2. \/ Reported /\ infraSeen["operator"] = "absent"
        \/ Reported /\ Allowed /\ platform \in {"External", "none"}
        \/ /\ Ready /\ Reported /\ Holds("CloudControllerOwner", "Missing")
           /\ platform = "ccm" => AllApplied
    BY <1>2 DEF CallDue, RolloutInv, AfterSync
  <2>3. SettledOn(infraSeen["operator"])
    BY <2>2 DEF SettledOn, Ready, Allowed, GateOpen, AllApplied
  <2>4. SettledOn(infraSeen["operator"])'
    BY <1>1, <2>3 DEF SettledOn, Holds, Exists, GateOpen, DependantsAvailable, DependantDegraded
  <2>5. QED BY <2>1, <2>4 DEF Undisturbed
<1>3. CASE call[Op].then = "fail"
  BY <1>3, ErrorRequests DEF CallSucceeded
<1>4. CASE call[Op].then = "setAvailable"
  <2>1. pc'[Op] = "get" /\ call'[Op] = [op |-> "Available", then |-> "clearOwner"]
    BY <1>0, <1>4 DEF CallSucceeded, Continue, StartCall, Goto, TypeOK
  <2>2. Ready'
    BY <1>1, <1>4 DEF CallDue
  <2>3. CallDue'
    BY <2>1, <2>2, SMT DEF CallDue
  <2>4. QED BY <2>1, <2>3, DueCallRests
<1>5. CASE call[Op].then = "clearOwner"
  <2>1. pc'[Op] = "get" /\ call'[Op] = [op |-> "ClearOwner", then |-> "done"]
    BY <1>0, <1>5 DEF CallSucceeded, Continue, StartCall, Goto, TypeOK
  <2>2. Ready' /\ Reported'
    BY <1>1, <1>5 DEF CallDue
  <2>3. CallDue'
    BY <2>1, <2>2, SMT DEF CallDue
  <2>4. QED BY <2>1, <2>3, DueCallRests
<1>6. QED BY <1>2, <1>3, <1>4, <1>5 DEF CallSucceeded

\* The operator's status calls keep the invariant.
LEMMA StatusStepRests ==
  ASSUME RolloutInv, RestInv, StatusStep(Op)
  PROVE  RestInv'
<1>0. TypeOK /\ Op \in Controller /\ UNCHANGED <<cache, up, platform, operands, infraSeen>>
  BY DEF RolloutInv, Op, Controller, StatusStep, StatusGet, StatusGetFails, StatusUpdate,
     StatusUpdateLost, opVars, envVars
<1>1. CASE StatusGet(Op)
  <2>1. (Exists(Cached(Op)) /\ UNCHANGED apiVars) \/ Announced
    BY <1>0, <1>1, CreateAnnounces DEF StatusGet
  <2>2. Delivers'
    BY <1>0, <2>1, DeliversStays DEF RestInv
  <2>3. CASE NothingToClear(Op)
    <3>1. CallSucceeded(Op) /\ pc[Op] = "get"
      BY <1>1, <2>3 DEF StatusGet
    <3>2. CASE ReturnError(Op)
      BY <1>0, <2>2, <3>2, ErrorRequests DEF RestInv
    <3>3. CASE queue'[Op] = queue[Op]
      <4>1. ASSUME Calm'
            PROVE  /\ CallDue /\ Exists(co) /\ co' = co
                   /\ call[Op].op = "ClearOwner" /\ Holds("CloudControllerOwner", "Missing")
        <5>1. Undisturbed /\ UNCHANGED apiVars /\ Cached(Op) = co
          BY <1>0, <2>1, <3>3, <4>1, CalmBefore
        <5>2. Exists(Cached(Op))
          BY <1>0, <2>1, <4>1 DEF Calm, Announced
        <5>3. QED
          BY <2>3, <3>1, <5>1, <5>2 DEF Undisturbed, NothingToClear, Obtained, OwnershipRecorded,
             Holds, apiVars
      <4>2. QED BY <1>0, <2>2, <3>1, <4>1, SuccessRests
    <3>4. QED BY <3>1, <3>2, <3>3 DEF CallSucceeded, ReturnNil, Continue
  <2>4. CASE ~NothingToClear(Op)
    <3>1. /\ pc[Op] = "get" /\ pc'[Op] = "update" /\ obj'[Op] = Obtained(Op)
          /\ UNCHANGED <<call, queue>>
      BY <1>0, <1>1, <2>4 DEF StatusGet, Goto, TypeOK
    <3>2. ASSUME Calm' PROVE Undisturbed'
      <4>1. Undisturbed /\ UNCHANGED apiVars /\ Cached(Op) = co
        BY <1>0, <2>1, <3>1, <3>2, CalmBefore
      <4>2. Exists(Cached(Op))
        BY <1>0, <2>1, <3>2 DEF Calm, Announced
      <4>3. obj'[Op] = co' /\ CallDue
        BY <3>1, <4>1, <4>2 DEF Obtained, apiVars, Undisturbed
      <4>4. CallDue'
        BY <1>0, <3>1, <4>1, <4>3 DEF CallDue, Ready, Allowed, Reported, Holds, Exists, GateOpen,
           DependantsAvailable, DependantDegraded, apiVars
      <4>5. QED BY <3>1, <4>3, <4>4 DEF Undisturbed
    <3>3. QED BY <2>2, <3>2 DEF RestInv
  <2>5. QED BY <2>3, <2>4
<1>2. CASE StatusGetFails(Op)
  <2>1. Delivers' /\ CallFailed(Op)
    BY <1>0, <1>2, DeliversStays DEF StatusGetFails, CreateFails, RestInv
  <2>2. QED BY <1>0, <2>1, FailureRests
<1>3. call[Op].op \in Operation /\ obj[Op].status \in Status /\ co.status \in Status
  BY <1>0 DEF TypeOK, Call, Object
<1> DEFINE new == NewStatus(call[Op].op, obj[Op].status)
<1>4. new \in Status
  BY <1>3, NewStatusTyped
<1> HIDE DEF new
<1>5. CASE StatusUpdate(Op)
  <2>1. CASE UpdateAccepted(Op)
    <3>1. CommitStatus(new) /\ CallSucceeded(Op) /\ pc[Op] = "update"
      BY <1>5, <2>1 DEF StatusUpdate, new
    <3>2. (new = co.status /\ UNCHANGED apiVars) \/ Announced
      BY <1>0, <1>4, <3>1, CommitAnnounces
    <3>3. Delivers'
      BY <1>0, <3>2, DeliversStays DEF RestInv
    <3>4. CASE ReturnError(Op)
      BY <1>0, <3>3, <3>4, ErrorRequests DEF RestInv
    <3>5. CASE queue'[Op] = queue[Op]
      <4>1. ASSUME Calm'
            PROVE  /\ CallDue /\ Exists(co) /\ co' = co
                   /\ call[Op].op = "Available" => Reported
                   /\ call[Op].op = "ClearOwner" => Holds("CloudControllerOwner", "Missing")
        <5>1. Undisturbed /\ UNCHANGED apiVars
          BY <1>0, <3>2, <3>5, <4>1, CalmBefore
        <5>2. new = co.status /\ obj[Op] = co /\ CallDue /\ Exists(co)
          BY <1>0, <2>1, <3>1, <3>2, <4>1, <5>1 DEF Calm, Announced, Undisturbed, UpdateAccepted
        <5>3. call[Op].op = "Available" => setStatusAvailable(co.status) = co.status
          BY <5>2 DEF new, NewStatus
        <5>4. call[Op].op = "ClearOwner" => removeCloudControllerOwner(co.status) = co.status
          BY <5>2 DEF new, NewStatus
        <5>5. QED BY <1>3, <5>1, <5>2, <5>3, <5>4, Unchanging DEF Reported, Holds, apiVars
      <4>2. QED BY <1>0, <3>1, <3>3, <4>1, SuccessRests
    <3>6. QED BY <3>1, <3>4, <3>5 DEF CallSucceeded, ReturnNil, Continue
  <2>2. CASE ~UpdateAccepted(Op)
    <3>1. Delivers' /\ CallFailed(Op)
      BY <1>0, <1>5, <2>2, DeliversStays DEF StatusUpdate, RestInv
    <3>2. QED BY <1>0, <3>1, FailureRests
  <2>3. QED BY <2>1, <2>2
<1>6. CASE StatusUpdateLost(Op)
  <2>1. UNCHANGED apiVars \/ CommitStatus(new)
    BY <1>6 DEF StatusUpdateLost, new
  <2>2. UNCHANGED apiVars \/ Announced
    BY <1>0, <1>4, <2>1, CommitAnnounces
  <2>3. Delivers' /\ CallFailed(Op)
    BY <1>0, <1>6, <2>2, DeliversStays DEF StatusUpdateLost, RestInv
  <2>4. QED BY <1>0, <2>3, FailureRests
<1>7. QED BY <1>1, <1>2, <1>5, <1>6 DEF StatusStep

\* So do the other steps of its Reconcile.
LEMMA OperatorStepRests ==
  ASSUME RolloutInv, RestInv, OperatorStep
  PROVE  RestInv'
<1>0. TypeOK /\ Op \in Controller /\ UNCHANGED <<cache, up, infraSeen>>
  BY DEF RolloutInv, Op, Controller, OperatorStep, OperatorReconcile, OperatorReadFails,
     ProvisioningAllowed, ProvisioningCheckFails, OwnershipCheck, ComposeFails, ApplyResource,
     ApplyResourceFails, envVars
<1>1. CASE OperatorReconcile
  <2>1. Delivers' /\ UNCHANGED apiVars
    BY <1>0, <1>1, DeliversStays DEF OperatorReconcile, RestInv
  <2>2. CASE infraSeen["operator"] = "absent"
    <3>1. pc'[Op] = "get" /\ call'[Op] = [op |-> "Available", then |-> "done"]
      BY <1>0, <1>1, <2>2 DEF OperatorReconcile, StartCall, Goto, TypeOK
    <3>2. infraSeen'["operator"] = "absent"
      BY <1>0, <2>2
    <3>3. call'[Op].op = "Available" /\ call'[Op].then = "done"
      BY <3>1, SMT
    <3>4. CallDue'
      BY <3>2, <3>3 DEF CallDue
    <3>5. QED BY <2>1, <3>1, <3>4, DueCallRests DEF RestInv
  <2>3. CASE infraSeen["operator"] # "absent"
    <3>1. pc'[Op] = "provisioningAllowed" /\ platform' = infraSeen["operator"]
      BY <1>0, <1>1, <2>3 DEF OperatorReconcile, Goto, TypeOK
    <3>2. QED BY <1>0, <2>1, <2>3, <3>1 DEF RestInv, Undisturbed
  <2>4. QED BY <2>2, <2>3
<1>2. CASE OperatorReadFails
  <2>1. Delivers'
    BY <1>0, <1>2, DeliversStays DEF OperatorReadFails, RestInv
  <2>2. pc'[Op] = "get" /\ call'[Op].then = "fail"
    BY <1>0, <1>2 DEF OperatorReadFails, StartCall, Goto, TypeOK
  <2>3. CallDue'
    BY <2>2 DEF CallDue
  <2>4. QED BY <2>1, <2>2, <2>3, DueCallRests DEF RestInv
<1>3. CASE ProvisioningCheckFails \/ ComposeFails \/ ApplyResourceFails
  <2>1. Degrade(Op) /\ UNCHANGED apiVars
    BY <1>3 DEF ProvisioningCheckFails, ComposeFails, ApplyResourceFails, CreateFails
  <2>2. Delivers'
    BY <1>0, <2>1, DeliversStays DEF RestInv
  <2>3. QED BY <1>0, <2>1, <2>2, FailureRests
<1>4. ASSUME getOrCreateClusterOperator(Op), queue'[Op] = queue[Op], Calm'
      PROVE  /\ Undisturbed /\ UNCHANGED apiVars /\ Exists(co) /\ Obtained(Op) = co
  <2>1. (Exists(Cached(Op)) /\ UNCHANGED apiVars) \/ Announced
    BY <1>0, <1>4, CreateAnnounces
  <2>2. Undisturbed /\ UNCHANGED apiVars /\ Cached(Op) = co
    BY <1>0, <1>4, <2>1, CalmBefore
  <2>3. Exists(Cached(Op))
    BY <1>0, <1>4, <2>1 DEF Calm, Announced
  <2>4. QED BY <2>2, <2>3 DEF Obtained
<1>5. ASSUME getOrCreateClusterOperator(Op) PROVE Delivers'
  BY <1>0, <1>5, CreateAnnounces, DeliversStays DEF RestInv
<1>6. CASE ProvisioningAllowed
  <2> DEFINE gate == checkControllerConditions(Obtained(Op).status)
  <2>1. /\ getOrCreateClusterOperator(Op) /\ pc[Op] = "provisioningAllowed" /\ Delivers'
        /\ UNCHANGED <<platform, operands>>
    BY <1>5, <1>6 DEF ProvisioningAllowed, opVars
  <2>2. CASE gate = "error"
    <3>1. Degrade(Op)
      BY <1>6, <2>2 DEF ProvisioningAllowed
    <3>2. QED BY <1>0, <2>1, <3>1, FailureRests
  <2>3. CASE gate = "allowed" /\ platform = "nilPlatform"
    <3>1. ReturnError(Op)
      BY <1>6, <2>3 DEF ProvisioningAllowed
    <3>2. QED BY <1>0, <2>1, <3>1, ErrorRequests DEF RestInv
  <2>4. CASE gate = "wait" /\ ReturnNil(Op)
    <3>1. ASSUME Calm' PROVE Undisturbed'
      <4>1. /\ Undisturbed /\ UNCHANGED apiVars /\ Exists(co) /\ Obtained(Op) = co
        BY <1>4, <2>1, <2>4, <3>1 DEF ReturnNil
      <4>2. ~DependantDegraded(co.status) /\ ~GateOpen(co.status)
        BY <2>4, <4>1 DEF checkControllerConditions, GateOpen
      <4>3. infraSeen["operator"] # "absent" /\ pc'[Op] = "idle"
        BY <1>0, <2>1, <2>4, <4>1 DEF Undisturbed, ReturnNil, Leave, Goto, TypeOK
      <4>4. SettledOn(infraSeen["operator"])'
        BY <1>0, <4>1, <4>2, <4>3 DEF SettledOn, apiVars, Exists, GateOpen, DependantsAvailable,
           DependantDegraded
      <4>5. QED BY <4>3, <4>4 DEF Undisturbed
    <3>2. QED BY <2>1, <3>1 DEF RestInv
  <2>5. CASE /\ gate = "allowed" /\ platform # "nilPlatform"
             /\ \/ platform = "External" /\ Continue(Op, "Available", "done")
                \/ /\ platform # "External" /\ Goto(Op, "ownedByCCM")
                   /\ UNCHANGED <<req, call, queue>>
    <3>1. ASSUME Calm' PROVE Undisturbed'
      <4>1. /\ Undisturbed /\ UNCHANGED apiVars /\ Exists(co) /\ Obtained(Op) = co
        BY <1>4, <2>1, <2>5, <3>1 DEF Continue
      <4>2. GateOpen(co.status)
        BY <2>5, <4>1 DEF checkControllerConditions, GateOpen
      <4>3. Allowed'
        BY <1>0, <2>1, <4>1, <4>2 DEF Undisturbed, Allowed, apiVars, Exists, GateOpen,
           DependantsAvailable, DependantDegraded
      <4>4. CASE platform = "External" /\ Continue(Op, "Available", "done")
        <5>1. pc'[Op] = "get" /\ call'[Op] = [op |-> "Available", then |-> "done"]
          BY <1>0, <4>4 DEF Continue, StartCall, Goto, TypeOK
        <5>2. CallDue'
          BY <2>1, <4>3, <4>4, <5>1, SMT DEF CallDue
        <5>3. QED BY <5>1, <5>2, DueCallRests
      <4>5. CASE platform # "External" /\ Goto(Op, "ownedByCCM")
        <5>1. pc'[Op] = "ownedByCCM"
          BY <1>0, <4>5 DEF Goto, TypeOK
        <5>2. QED BY <2>1, <2>5, <4>3, <4>5, <5>1 DEF Undisturbed, Ready
      <4>6. QED BY <2>5, <4>4, <4>5
    <3>2. QED BY <2>1, <3>1 DEF RestInv
  <2>6. QED BY <1>6, <2>2, <2>3, <2>4, <2>5 DEF ProvisioningAllowed
<1>7. ASSUME NEW n, NEW u, ApplyFrom(n, u), Delivers', UNCHANGED platform,
             Calm' => Ready /\ UNCHANGED apiVars
      PROVE  RestInv'
  <2> SUFFICES ASSUME Calm' PROVE Undisturbed'
    BY <1>7 DEF RestInv
  <2>1. Ready'
    BY <1>0, <1>7 DEF Ready, Allowed, apiVars, Exists, GateOpen, DependantsAvailable,
       DependantDegraded
  <2>2. CASE Goto(Op, "apply")
    <3>1. pc'[Op] = "apply"
      BY <1>0, <2>2 DEF Goto, TypeOK
    <3>2. QED BY <2>1, <3>1 DEF Undisturbed
  <2>3. CASE Continue(Op, "Progressing", "setAvailable") \/ Continue(Op, "Available", "clearOwner")
    <3>1. /\ pc'[Op] = "get"
          /\ call'[Op] \in {[op |-> "Progressing", then |-> "setAvailable"],
                            [op |-> "Available", then |-> "clearOwner"]}
      BY <1>0, <2>3 DEF Continue, StartCall, Goto, TypeOK
    <3>2. CallDue'
      BY <2>1, <3>1, SMT DEF CallDue
    <3>3. QED BY <3>1, <3>2, DueCallRests
  <2>4. QED BY <1>7, <2>2, <2>3 DEF ApplyFrom
<1>8. ASSUME NEW n, NEW u, ApplyFrom(n, u) PROVE queue'[Op] = queue[Op]
  BY <1>8 DEF ApplyFrom, Continue
<1>9. CASE OwnershipCheck
  <2>1. /\ getOrCreateClusterOperator(Op) /\ pc[Op] = "ownedByCCM" /\ Delivers'
        /\ UNCHANGED <<platform, operands>>
    BY <1>5, <1>9 DEF OwnershipCheck
  <2>2. CASE ApplyFrom(1, FALSE)
    <3>1. Calm' => Ready /\ UNCHANGED apiVars
      BY <1>4, <1>8, <2>1, <2>2 DEF Undisturbed
    <3>2. QED BY <1>7, <2>1, <2>2, <3>1
  <2>3. CASE ~CloudProviderExternal /\ Continue(Op, "Available", "done")
    <3>1. ASSUME Calm' PROVE Undisturbed'
      <4>1. Undisturbed /\ UNCHANGED apiVars
        BY <1>4, <2>1, <2>3, <3>1 DEF Continue
      <4>2. Ready /\ platform \in Platform
        BY <1>0, <2>1, <4>1 DEF Undisturbed, TypeOK
      <4>3. Allowed' /\ platform' = "none"
        BY <1>0, <2>1, <2>3, <4>1, <4>2 DEF Ready, Allowed, apiVars, Exists, GateOpen,
           DependantsAvailable, DependantDegraded, CloudProviderExternal, Platform
      <4>4. pc'[Op] = "get" /\ call'[Op] = [op |-> "Available", then |-> "done"]
        BY <1>0, <2>3 DEF Continue, StartCall, Goto, TypeOK
      <4>5. CallDue'
        BY <4>3, <4>4, SMT DEF CallDue
      <4>6. QED BY <4>4, <4>5, DueCallRests
    <3>2. QED BY <2>1, <3>1 DEF RestInv
  <2>4. QED BY <1>9, <2>2, <2>3 DEF OwnershipCheck
<1>10. CASE ApplyResource
  <2>1. /\ pc[Op] = "apply" /\ UNCHANGED <<platform, apiVars>>
        /\ ApplyFrom(next + 1, operands[next] # ReleaseVersion)
    BY <1>10 DEF ApplyResource
  <2>2. Delivers' /\ queue'[Op] = queue[Op]
    BY <1>0, <1>8, <2>1, DeliversStays DEF RestInv
  <2>3. Calm' => Ready
    BY <1>0, <2>1, <2>2, CalmBefore DEF Undisturbed
  <2>4. QED BY <1>7, <2>1, <2>2, <2>3
<1>11. QED
  BY <1>1, <1>2, <1>3, <1>6, <1>9, <1>10 DEF OperatorStep

\* The sync controllers' steps reach the operator only by the object.
LEMMA SyncStepRests ==
  ASSUME TypeOK, RestInv,
         \/ CloudConfigReconcile \/ \E k \in Keys("TrustedCABundle") : TrustedCAReconcile(k)
         \/ \E c \in SyncController : StatusStep(c)
  PROVE  RestInv'
<1>1. /\ UNCHANGED <<cache, up, infraSeen, platform, operands>>
      /\ UNCHANGED apiVars \/ Announced
      /\ queue'[Op] = queue[Op] /\ pc'[Op] = pc[Op] /\ call'[Op] = call[Op] /\ obj'[Op] = obj[Op]
  <2>1. CASE CloudConfigReconcile \/ \E k \in Keys("TrustedCABundle") : TrustedCAReconcile(k)
    BY <2>1, ZenonT(60) DEF CloudConfigReconcile, TrustedCAReconcile, Take, StartCall, Goto, TypeOK, Op,
       Controller, opVars, envVars
  <2>2. ASSUME NEW c \in SyncController, StatusStep(c)
        PROVE  /\ UNCHANGED <<cache, up, infraSeen, platform, operands>>
               /\ UNCHANGED apiVars \/ Announced
               /\ queue'[Op] = queue[Op] /\ pc'[Op] = pc[Op] /\ call'[Op] = call[Op]
               /\ obj'[Op] = obj[Op]
    <3>0. c \in Controller /\ c # Op /\ Op \in Controller
      BY <2>2 DEF SyncController, Op, Controller
    <3>1. UNCHANGED <<cache, up, infraSeen, platform, operands>>
      BY <2>2 DEF StatusStep, StatusGet, StatusGetFails, StatusUpdate, StatusUpdateLost, opVars,
         envVars
    <3>2. NewStatus(call[c].op, obj[c].status) \in Status
      BY <3>0, NewStatusTyped DEF TypeOK, Call, Object
    <3>3. UNCHANGED apiVars \/ Announced
      <4> DEFINE s == NewStatus(call[c].op, obj[c].status)
      <4>1. UNCHANGED apiVars \/ getOrCreateClusterOperator(c) \/ CommitStatus(s)
        BY <2>2 DEF StatusStep, StatusGet, StatusGetFails, StatusUpdate, StatusUpdateLost,
           CreateFails
      <4> HIDE DEF s
      <4>2. QED BY <3>0, <3>2, <4>1, CreateAnnounces, CommitAnnounces DEF s
    <3>4. obj'[Op] = obj[Op]
      BY <2>2, <3>0 DEF StatusStep, StatusGet, StatusGetFails, StatusUpdate, StatusUpdateLost,
         DropObject, TypeOK
    <3>5. \/ CallSucceeded(c) \/ CallFailed(c)
          \/ Goto(c, "update") /\ UNCHANGED <<req, call, queue>>
      BY <2>2 DEF StatusStep, StatusGet, StatusGetFails, StatusUpdate, StatusUpdateLost
    <3>6. queue'[Op] = queue[Op] /\ pc'[Op] = pc[Op] /\ call'[Op] = call[Op]
      BY <3>0, <3>5 DEF CallSucceeded, CallFailed, Degrade, Continue, StartCall, ReturnNil,
         ReturnError, Leave, Goto, TypeOK
    <3>7. QED BY <3>1, <3>3, <3>4, <3>6
  <2>3. QED BY <2>1, <2>2
<1>2. Delivers'
  BY <1>1, DeliversStays DEF RestInv
<1>3. Calm' => Calm /\ UNCHANGED apiVars
  BY <1>1, CalmBefore
<1>4. QED BY <1>1, <1>2, <1>3, RestFrame DEF apiVars

\* What informers, restarts and other clients do is never missed.
LEMMA EnvironmentRests ==
  ASSUME TypeOK, RestInv, Environment
  PROVE  RestInv'
<1>0. Op \in Controller /\ "operator" \in Process
  BY DEF Op, Controller, Process
<1>1. ASSUME UNCHANGED <<cache, up, platform, operands, pc, call, obj>>,
             infraSeen'["operator"] = infraSeen["operator"],
             UNCHANGED apiVars \/ Announced, queue'[Op] = queue[Op] \/ queue'[Op] # {}
      PROVE  RestInv'
  <2>1. Delivers'
    BY <1>1, DeliversStays DEF RestInv
  <2>2. CASE queue'[Op] # {}
    BY <2>1, <2>2 DEF RestInv, Calm
  <2>3. CASE queue'[Op] = queue[Op]
    <3>1. Calm' => Calm /\ UNCHANGED apiVars
      BY <1>1, <2>3, CalmBefore
    <3>2. QED BY <1>1, <2>1, <3>1, RestFrame DEF apiVars
  <2>4. QED BY <1>1, <2>2, <2>3
<1>2. CASE InfraChange \/ \E c \in SyncController : HealthChange(c)
  BY <1>1, <1>2 DEF InfraChange, HealthChange, ctlVars, opVars
<1>3. CASE \E c \in Controller : \E k \in Keys(c) : Trigger(c, k)
  <2>1. PICK c \in Controller : \E k \in Keys(c) : Trigger(c, k)
    BY <1>3
  <2>2. queue'[Op] = queue[Op] \/ queue'[Op] # {}
    BY <1>0, <2>1 DEF Trigger, TypeOK
  <2>3. QED BY <1>1, <2>1, <2>2 DEF Trigger, ctlVars, opVars, envVars
<1>4. CASE OthersWriteCO
  <2>1. Announced
    <3>1. CASE Publish(NoObject)
      BY <3>1, NoObjectTyped, PublishAnnounces
    <3>2. ASSUME HasFreshRV, NEW o \in {Created, [co EXCEPT !.rv = FreshRV]}, Publish(o)
          PROVE  Announced
      <4>1. o \in Object
        BY <3>2, FreshRVUnused, CreatedTyped DEF TypeOK, Object
      <4>2. QED BY <3>2, <4>1, PublishAnnounces
    <3>3. QED BY <1>4, <3>1, <3>2 DEF OthersWriteCO
  <2>2. QED BY <1>1, <1>4, <2>1 DEF OthersWriteCO, ctlVars, opVars, envVars
<1>5. ASSUME NEW p \in Process, DeliverCO(p) PROVE RestInv'
  <2>1. CASE p = "operator"
    <3> DEFINE w == watch["operator"]
    <3>1. /\ w \in Seq(Object) /\ w # << >> /\ cache'["operator"] = Head(w)
          /\ watch'["operator"] = Tail(w) /\ UNCHANGED <<co, up>> /\ queue'[Op] = Keys(Op)
      BY <1>0, <1>5, <2>1 DEF DeliverCO, TypeOK
    <3>2. ~Calm'
      BY <3>1 DEF Calm, Keys
    <3>3. Delivers'
      <4>1. up["operator"] /\ w[Len(w)] = co
        BY <3>1 DEF RestInv, Delivers, Last
      <4> SUFFICES IF Tail(w) = << >> THEN Head(w) = co ELSE Last(Tail(w)) = co
        BY <3>1, <4>1 DEF Delivers
      <4> HIDE DEF w
      <4>2. QED BY <3>1, <4>1, LastOfTail DEF Last
    <3>4. QED BY <3>2, <3>3 DEF RestInv
  <2>2. CASE p # "operator"
    <3>1. /\ cache'["operator"] = cache["operator"] /\ watch'["operator"] = watch["operator"]
          /\ UNCHANGED <<co, up, queue, pc, call, obj, platform, operands, infraSeen>>
      BY <1>0, <1>5, <2>2 DEF DeliverCO, TypeOK, ctlVars, opVars
    <3>2. Delivers' /\ (Calm' => Calm)
      BY <3>1 DEF RestInv, Delivers, Calm, Keys, Last
    <3>3. QED BY <3>1, <3>2, RestFrame
  <2>3. QED BY <2>1, <2>2
<1>6. ASSUME NEW p \in Process, DeliverInfra(p) PROVE RestInv'
  <2>1. UNCHANGED <<apiVars, cache, up, pc, call, obj, platform, operands>>
    BY <1>6 DEF DeliverInfra, ctlVars, opVars
  <2>2. CASE p = "operator"
    <3>1. queue'[Op] = Keys(Op)
      BY <1>0, <1>6, <2>2 DEF DeliverInfra, TypeOK
    <3>2. QED BY <2>1, <3>1, DeliversStays DEF RestInv, Calm, Keys
  <2>3. CASE p # "operator"
    <3>1. queue'[Op] = queue[Op] /\ infraSeen'["operator"] = infraSeen["operator"]
      BY <1>0, <1>6, <2>3 DEF DeliverInfra, TypeOK, Op
    <3>2. QED BY <1>1, <2>1, <3>1
  <2>4. QED BY <2>2, <2>3
<1>7. ASSUME NEW p \in Process, Crash(p) PROVE RestInv'
  <2>1. CASE p = "operator"
    <3>1. ~up'["operator"] /\ watch'["operator"] = << >>
      BY <1>0, <1>7, <2>1 DEF Crash, TypeOK
    <3>2. QED BY <3>1 DEF RestInv, Delivers, Calm
  <2>2. CASE p # "operator"
    <3>1. /\ cache'["operator"] = cache["operator"] /\ watch'["operator"] = watch["operator"]
          /\ up'["operator"] = up["operator"]
          /\ UNCHANGED <<co, platform, operands, infraSeen>>
          /\ queue'[Op] = queue[Op] /\ pc'[Op] = pc[Op] /\ call'[Op] = call[Op]
          /\ obj'[Op] = obj[Op]
      BY <1>0, <1>7, <2>2 DEF Crash, TypeOK, ProcessOf, Op
    <3>2. Delivers' /\ (Calm' => Calm)
      BY <3>1 DEF RestInv, Delivers, Calm, Keys, Last
    <3>3. QED BY <3>1, <3>2, RestFrame
  <2>3. QED BY <2>1, <2>2
<1>8. ASSUME NEW p \in Process, Restart(p) PROVE RestInv'
  <2>1. CASE p = "operator"
    <3>1. /\ cache'["operator"] = co /\ UNCHANGED <<co, watch>> /\ queue'[Op] = Keys(Op)
      BY <1>0, <1>8, <2>1 DEF Restart, apiVars, TypeOK, ProcessOf, Op
    <3>2. ~up["operator"] /\ watch["operator"] = << >>
      BY <1>8, <2>1 DEF Restart, RestInv, Delivers
    <3>3. QED BY <3>1, <3>2 DEF RestInv, Delivers, Calm, Keys
  <2>2. CASE p # "operator"
    <3>1. /\ cache'["operator"] = cache["operator"] /\ up'["operator"] = up["operator"]
          /\ UNCHANGED <<apiVars, platform, operands, pc, call, obj>>
          /\ infraSeen'["operator"] = infraSeen["operator"] /\ queue'[Op] = queue[Op]
      BY <1>0, <1>8, <2>2 DEF Restart, TypeOK, ProcessOf, Op, ctlVars, opVars
    <3>2. Delivers' /\ (Calm' => Calm)
      BY <3>1 DEF RestInv, Delivers, Calm, Keys, Last, apiVars
    <3>3. QED BY <3>1, <3>2, RestFrame DEF apiVars
  <2>3. QED BY <2>1, <2>2
<1>9. QED
  BY <1>2, <1>3, <1>4, <1>5, <1>6, <1>7, <1>8 DEF Environment
\* The invariant holds initially: every request is still to be served.
LEMMA InitRests == Init => RestInv
BY SMT DEF Init, RestInv, Delivers, Calm, Process, Controller, Op, Keys

\* Every step keeps the invariant, given that of the rollout.
LEMMA RestInvInductive == RolloutInv /\ RestInv /\ [Next]_vars => RestInv'
<1> SUFFICES ASSUME RolloutInv, RestInv, [Next]_vars PROVE RestInv'
  OBVIOUS
<1>0. TypeOK
  BY DEF RolloutInv
<1>1. CASE OperatorStep
  BY <1>1, OperatorStepRests
<1>2. CASE CloudConfigReconcile \/ \E k \in Keys("TrustedCABundle") : TrustedCAReconcile(k)
  BY <1>0, <1>2, SyncStepRests
<1>3. CASE \E c \in Controller : StatusStep(c)
  <2>1. StatusStep(Op) \/ \E c \in SyncController : StatusStep(c)
    BY <1>3 DEF SyncController, Op
  <2>2. QED BY <1>0, <2>1, StatusStepRests, SyncStepRests
<1>4. CASE Environment
  BY <1>0, <1>4, EnvironmentRests
<1>5. CASE UNCHANGED vars
  <2>1. Delivers' /\ (Calm' => Calm)
    BY <1>5 DEF vars, RestInv, Delivers, Calm, Keys, Last
  <2>2. QED BY <1>5, <2>1, RestFrame DEF vars
<1>6. QED BY <1>1, <1>2, <1>3, <1>4, <1>5 DEF Next

\* The operator never rests short of its goal: when no request waits, nothing is
\* under way and its informers are up to date, either a sync controller has
\* still to report, or the release is rolled out and the ClusterOperator says
\* so.  No conflict, lost answer, restart, deletion or late platform status ends
\* with a nil from Reconcile that leaves the status wrong.
THEOREM ReportedAtRestHolds == Spec => []ReportedAtRest
<1>1. RestInv => ReportedAtRest
  BY DEF RestInv, Calm, Undisturbed, ReportedAtRest
<1>2. QED
  BY <1>1, InitRollout, InitRests, RolloutInvInductive, RestInvInductive, PTL DEF Spec
===============================================================================

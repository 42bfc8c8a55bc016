# A TLA+ model of cluster-cloud-controller-manager-operator

The operator (CCCMO) installs and upgrades the cloud controller manager (CCM)
of an OpenShift cluster.  This directory holds TLA+ models of its controllers,
TLC configurations that check them on small instances, and TLAPS proofs of the
safety properties that matter most.

## The system

One pod (one replica, strategy `Recreate`) runs two processes:

| process | reconcilers | code |
|---|---|---|
| operator | `CloudOperatorReconciler` | `cmd/cluster-cloud-controller-manager-operator`, `pkg/controllers/clusteroperator_controller.go` |
| config-sync | `CloudConfigReconciler`, `TrustedCABundleReconciler` | `cmd/config-sync-controllers`, `pkg/controllers/cloud_config_sync_controller.go`, `trusted_ca_bundle_controller.go` |

Each reconciler has one worker and one work queue.  A process reads through an
informer cache that lags behind the API server and writes to the API server.
A panic in `Reconcile` is recovered and counts as an error.

Before its manager starts, each process gathers what it works from.  The
operator resolves the TLS profile, waits up to a minute for the feature gates
and reads the images file.  config-sync builds a static REST mapper; it starts
its controllers without waiting for the feature gates, and a reconcile of
`CloudConfigReconciler` fails until they have been observed.  On Azure a third
program, `azure-config-credentials-injector`, runs as an init container of the
CCM pods.

The parts interact through three kinds of object:

* **The ClusterOperator status.**  All three reconcilers write it.
  The sync controllers set `CloudConfigControllerAvailable/Degraded` and
  `TrustedCABundleControllerControllerAvailable/Degraded`.  The operator reads
  these four as a gate (`provisioningAllowed`) before it deploys the CCM, and
  sets `Available`, `Progressing`, `Degraded`, `Upgradeable` and the version.
* **ConfigMaps.**  `CloudConfigReconciler` makes `cloud-conf` from the
  Infrastructure, the Network and a source ConfigMap, through the transformer of
  the platform.  `TrustedCABundleReconciler` makes `ccm-trusted-ca` from the
  Proxy, the ConfigMap it names and the CA in `cloud-conf`.
* **Operands.**  `applyResources` applies the rendered assets one after another
  with `pkg/controllers/resourceapply`, and asks the `ObjectWatcher`
  (`cache.go`) to watch each.  A workload is annotated with a hash of its spec,
  which includes the content of the ConfigMaps and Secrets it refers to.

## Modules

| module | models | state ↔ code |
|---|---|---|
| `ClusterOperatorStatus` | what each `set*`/`clear*` method makes of a status (`status.go`, and the `set*Condition` of the sync controllers) | operators on a record of conditions and the version |
| `AtomicStatus` | the promise: a status changes only by one update applied in one step | abstract specification |
| `StatusSync` | the three reconcilers, two processes and the API server around one ClusterOperator | `co` the stored object, `cache`/`watch` the informers, `pc`/`req`/`call`/`obj` a worker's position in `Reconcile` and the copy it holds, `operands`/`next` the loop of `applyResources` |
| `StatusContract` | a sentence of the ClusterOperator API contract that the code does not meet | property only |
| `WorkloadApply` | `applyDeployment`, `applyDaemonSet`, `config_hash.go` | `obj` with `gen`, `annGen`, `hash`; `cache`, `required`, `pc` |
| `ApplyCall` | an apply call as one step, which `StatusSync` and `OperandWatch` take it for | abstract specification: whether the operand is as shipped, who changed it last, whether another call is due, and what the last one returned |
| `AtomicOperand` | the promise of the nine other apply functions: what they write is the stored operand with the shipped parts merged in, in one step | abstract specification |
| `OperandApply` | the nine other apply functions | one state machine, with a rule per kind: what is compared, written, cleared, immutable |
| `OperandWatch` | `applyResources` and `ObjectWatcher` | `handlers`, `watched`, `channel`, `queued`, the loop's `next` and `updated` |
| `ConfigSync` | the data path of the config-sync process, its predicates and request mapping | inputs, caches, the two outputs, `pc` and what each reconciler holds |
| `VSphereConfig` | the vSphere `CloudConfigTransformer`, INI and YAML | a step per part of the transformer |
| `CloudTransformers` | the transformers of AWS, Azure, Azure Stack Hub and OpenStack | operators from a parsed source to the set of possible outcomes |
| `CredentialsInjector` | the checks and the merge of the injector | operators on the files read and the cloud config |
| `ConfigPipeline` | composition of the last two with the config hash: from source, Secret and trusted CAs to what the running CCM has read | `source`, `secret`, `bundle`, `cloudConf`, the `template`'s hash, the newest `pod` with its mounts and the file it is reading |
| `ProviderAssets` | `pkg/cloud`: the operands of each platform, rendering, substitution, common resources | operators from a config to a sequence of objects |
| `RestMapper` | `pkg/restmapper` | `served`, `toFetch`, `resources`, `failed`, `mapper` |
| `ProcessInputs` | both mains from the start, `pkg/config`, the TLS resolution and its watcher; composes `ProviderAssets` and `RestMapper` | `phase` of main, each input with the copy the process has of it, `events`, `queued`, `applied` |
| `*Proofs` | theorems on the module they are named after | |
| `MC*` | values for TLC | |

How the modules see each other:

* `StatusSync` sees a sync controller as "its inputs can be read and synced, or
  not" (`health`).  `ConfigSync` has what lies behind that, and leaves out the
  conditions.
* `StatusSync` and `OperandWatch` see an apply call as one step.
  `WorkloadApply` and `OperandApply` take it apart, and are proved to implement
  that step (`ApplyCall`), whatever others do meanwhile: a call that returns
  without an error has left what the release ships, or has missed a change by
  others that its cache had not received, and then another call is due.  Where
  others edit operands, `StatusSync` does not follow them; `OperandWatch` does.
  A new selector makes a workload disappear for a moment (`Disturb` of
  `ApplyCall`), which `StatusSync` has no counterpart for.
* `ConfigSync` has one transformer that tells inputs apart and refuses what it
  cannot parse.  `VSphereConfig` and `CloudTransformers` are the real ones.
* `StatusSync` has the config and the assets as one step that may fail.
  `ProcessInputs` has what they are made from, when it is read, and what comes
  of it; a reconcile is one step there.
* `WorkloadApply` has one content for all configs a workload refers to.
  `ConfigPipeline` has which they are for each platform, and what a pod reads of
  them after the hash was taken.  It takes the writes of the trusted CA
  controller as changes of an input.

Actions carry the names of the functions they model.  `PROJECT.json` maps every
definition to its lines.

Abstractions that hold throughout:

* A call to the API server is one step.  A read comes from the cache.  A failed
  write may or may not have happened (`StatusUpdateLost` in `StatusSync`,
  `AnswerLost` in `WorkloadApply`, `OperandApply` and `ConfigSync`).
* Messages, transition times, related objects, recorded events and logs are
  left out.  Names, certificates, hashes and templates are opaque values; a
  sha256 is taken to be injective and modelled by what it hashes.
* `metadata.generation` is modelled as the API server counts it: for a
  Deployment it rises with the spec or an annotation, for a DaemonSet with the
  spec alone.

## Runs

| run | question | bounds | result |
|---|---|---|---|
| `status_rollout` | A new cluster: is nothing deployed before the gate opened, and does every kind of platform settle? | no object at start, 2 operands, the CVO may create the object, five kinds of Infrastructure | `HandoffBeforeDeploy`, `Converges`, `PlatformSettles` hold |
| `status_recovery` | Is an update lost, where does the operator come to rest, and does an upgrade end, whatever happens once? | 2 operands, one crash, failed call, lost answer, broken input, foreign write, deletion or platform filled in late, at any point | `StatusIsAtomic` (refinement of `AtomicStatus`), `OwnerStaysCleared`, `AvailableMeansApplied`, `ReportedAtRest`, `Converges`, `FailureSurfaces` hold |
| `status_degraded` | Is an undisturbed upgrade free of `Degraded`? | no faults | violated, see below |
| `workload` | Is a Deployment that is left alone in sync, and one reported updated changed?  Is nothing deleted for a workload that cannot be created?  Is a call one step?  Where does the operator come to rest? | a Deployment and a DaemonSet, 3 changes (edits, deletion, config, two upgrades, one of them refused) and 1 failed call, failed read, lost answer or crash; requests made by other objects at any time | `SkippedDeploymentInSync`, `UpdatedDeploymentChanges`, `DeletesOnlyForValid`, `CallIsOneStep` (refinement of `ApplyCall`), `SettledAtRest`, `Converges` hold |
| `workload_drift` | Is a DaemonSet that is left alone in sync? | 2 edits | violated, see below |
| `operand` | Do the nine other kinds end up as shipped, and is every write a merge into what is stored? | 3 changes (edits, deletion, upgrade) and 1 failed call, lost answer or crash, every kind; requests made by other objects at any time | `HeldAtRest`, `WritesAreAtomic` (refinement of `AtomicOperand`), `Converges` hold |
| `watch` | Is every change of an operand noticed? | 2 operands, 3 edits, deletions, relists, failing informers or crashes | `OneHandler`, `UndoneAtRest`, `Reverted` hold |
| `config` | Do `cloud-conf` and `ccm-trusted-ca` follow their inputs, and is the bundle fit for use at any time? | 3 kinds of platform, 1 change, edit, deletion, failure or crash at any point | `ConfAtRest`, `BundleAtRest`, `ConfSynced`, `BundleSynced`, `TrustSound` hold |
| `vsphere` | Are the sections and the excluded addresses those the inputs ask for? | 2 servers, 2 datacenters, 2 failure domains, exclusions in cloud.conf and in the Infrastructure, every mix | `SectionsExact`, `ExcludesVIPs` hold |
| `vsphere_domains` | Is the transformer free of panics? | failure domains on a server without a section | violated, see below |
| `processes` | Does what is applied come to be what images, feature gates, TLS profile and Proxy call for, in whatever order they come? | both processes, vSphere and single-node Azure, 2 changes, 1 failed read, failed discovery or crash | `Follows`, `BadImagesReported`, `GatesWerePublished`, `MapperComplete`, `BudgetFits`, `AppliedAtRest` hold |
| `pipeline` | Does a user's cloud config reach the pod as the transformer is meant to make it, together with the right credentials and CAs? | AWS, OpenStack and five Azure clouds, 2 changes of source, Secret, CA bundle or gates, 1 failed read of a related config or restart of a pod or of its manager | `TransformContract`, `SyncIsStable`, `MethodComplete`, `PodAtRest`, `PodsFollow`, `RefusalReported` hold |

**Why the bounds are enough to be interesting.**

* `StatusSync`.  Two operands are the fewest with a loop that can stop in the
  middle.  One undelivered event per process (`MaxLag = 1`) already makes a
  cache stale, makes an update conflict and makes a create meet an existing
  object; a further write waits for the delivery.  The resource versions are
  tokens, reused once no copy holds them, so that the state space is finite
  without a cut; nine exceed the copies there can be.  One fault can come at any
  step, the reads and writes of all reconcilers included; the retries it causes
  are unbounded.  `status_recovery` leaves the trusted-CA reconciler idle after
  the conditions the old release left, to keep the run within minutes;
  `status_rollout` has all three.  The `"unrelated"` request is
  in the model and in no run: see the oscillation below.
* `WorkloadApply`, `OperandApply`.  Two undelivered events let the operator act
  on a copy two writes old.  Three changes allow an edit, an upgrade and a
  deletion or a config change in any order, or two upgrades and an edit between
  them.  A field of an operand holds a short list, so that an element can be
  added, dropped or exchanged.  `MaxRV` is never reached.
* `OperandWatch`.  A second handler is the bug, so that `MaxHandlers = 2` is
  enough to see it.
* `ProcessInputs`.  Two changes are the fewest with which an input changes and
  changes back, or a second one changes while the first is on its way.  A cluster
  starts without a TLS policy, or with a profile other than the default, which a
  failed read replaces; the rest comes by a change.  The two
  clusters have all forms of operands between them: a Deployment with the gates
  in its arguments, a DaemonSet, init containers, one replica and two.  Three
  contents of the images ConfigMap are right, incomplete and unreadable.
* `ConfigPipeline`.  The sources and Secrets cover each branch of the
  transformers and of the injector.  Two changes replace the Secret while the
  injector is between two files, and replace the source or the bundle as well.
  One fault makes an apply lose its hash or the manager start a second time from
  files that were refreshed.

**Coming to rest.**  Each liveness property that says a
state follows its inputs has a safety property beside it, `...AtRest`: when
nothing is queued, under way or still to be delivered, the state is already what
the inputs ask for.  Such a property says that no event is lost, whatever the
order of events, failures and crashes; the liveness property adds that rest is
reached.  The first kind is proved for every instance, the second needs fairness
and stays with TLC.  In `StatusSync` the property is about the operator: it may
also rest while a sync controller has still to report.  The sync controllers
have none, since they do not watch the object and a deletion leaves their
conditions missing until the resync; `FailureSurfaces` takes the resync as given.

The type invariants are in no run: they are proved.

No run uses symmetry.  Deadlock is checked in the `StatusSync`, `ProcessInputs`
and `ConfigPipeline` runs.  It is off where the model's budget of changes ends
in a quiet system, which is the goal (`WorkloadApply`, `OperandApply`,
`OperandWatch`, `ConfigSync`), and for the vSphere transformer, which returns.

## Fairness

* *Workers* (`WF` of a reconciler's steps): a worker goroutine goes on, and a
  request that failed is put back by the rate-limited queue.
* *Requests* (`SF` of taking one request): the work queue is first in, first
  out, so another request cannot overtake for ever.
* *Informers* (`WF` of each delivery): a watch delivers or is set up again.
* *Restart* (`WF`): the kubelet restarts the containers of the pod.
* *Start* of a process and *installation* of the groups it needs (`WF`): the
  kubelet runs main, and the CRDs of the platform's own API come in the end.
* *Deployment controller, kubelet* (`WF`): a changed template makes a new pod,
  and mounted files are refreshed.
* *Resync* is **not** assumed in general.  The 10-minute `SyncPeriod` justifies
  it, but relying on it would hide lost events.  In `OperandWatch`, `ConfigSync`
  and `ProcessInputs` the history variable `missed` records that something has
  happened that no event follows, and only then the property assumes that the
  resync recurs.  `FailureSurfaces` assumes it, since an input may break without
  an event.  `Converges` of `WorkloadApply` assumes it only if the last call
  could not read the related configs (`unread`), an error that `applyDeployment`
  drops and nobody retries.  In `ConfigPipeline` `Sync` and `Apply` are weakly fair: whether an
  event or the resync makes them run is the subject of `ConfigSync` and
  `WorkloadApply`.  All other liveness properties hold on events alone.
* No fairness is given to the environment, to faults or to edits by others.

`PodsFollow` and `PodAtRest` have the premise that no related config comes back
to the content that the hash of the newest pod is of, after it had another while
that pod was there (`returned`).  Without it they fail, see "contents that come
back" below.

## Proofs

The theorems hold for any number of operands, faults, versions and releases, any
contents of the inputs, and any lag of the caches.

`StatusSyncProofs`, from `VersionAssumption`, `BoundsAssumption` and
`StartAssumption`:

* `TypeCorrect`: the type invariant.
* `SnapshotsAreSound`: a copy of the ClusterOperator with the current
  resourceVersion is the current object.  This is what makes the conflict check
  of the API server sufficient, and it is the core of `CopiesInv`.  The
  invariant also says that an absent object is the empty one (a cache may say
  "absent" while the object exists, both with version `NoRV` only if both are
  absent) and that a copy with an open gate was stored once.
* `StatusUpdatesAreAtomic`: `Spec => StatusIsAtomic`.  The update that the API
  server accepts was computed from a copy with the current version; by
  `CopiesInv` that copy is the stored status, so the step is a `Report` of
  `AtomicStatus`.  All other steps create, delete or stutter.
* `GateIsRespected`: `[]HandoffBeforeDeploy`.  The gate is read from a stale
  cache; `OpenWasStored` says that what the cache shows was true at some time,
  and `GateInv` carries this to the steps after the gate.
* `AvailableAfterRollout`: `[]AvailableMeansApplied`, by `RolloutInv`: in the
  loop all operands before `next` are applied, and the calls after `sync` are
  made only after the loop has ended.  It is not inductive without the clause
  that no call is under way outside `get` and `update`.
* `OwnerIsClearedOnce`: `OwnerStaysCleared`, from atomicity: no update adds the
  condition to a status without it.
* `ReportedAtRestHolds`: `[]ReportedAtRest`, by `RestInv` on top of `RolloutInv`.
  The watch of a running operator ends with the stored object, and that of a
  stopped one is empty (`Delivers`).  While no request waits and no event is on
  its way (`Calm`), a reconcile under way has seen one version of the object all
  along, since every other version, its own writes included, would be an event
  and a request.  So the platform and the gate it read are the present ones, a
  status call that Reconcile still owes is known (`CallDue`), and a call that
  succeeds without an event has changed nothing: the status was already what it
  was to become (`Unchanging`).

`WorkloadApplyProofs`, from `WorkloadsAssumption`:

* `WorkloadTypes`: the type invariant of both kinds.
* `SkippedDeploymentsAreInSync` and `UpdatedDeploymentsChange`.  The invariant
  `TrackInv` says of every copy of a Deployment that its annotated generation is
  at most its generation, and equal only where the spec is the hashed one.  It
  needs that every copy was stored (`CopiesStored`), because the operator writes
  the generation of the copy it read plus one.  For a DaemonSet the invariant is
  false, which `workload_drift` shows.
* `DeletesAreValidated`: `DeletesOnlyForValid`, for both kinds.  `TrackInv`
  carries the answer of the dry run to the deletion; the required workload
  cannot change in between, since a release comes with another process.
* `SettledAtRestHolds`: `[]SettledAtRest`, for both kinds.  `RestInv` says that
  the last version in the watch is the stored one, that a call without a request
  behind it wants what release and sources ask for now, and that an idle
  operator without requests or deliveries has found the cache as it should be.
  A call that ends in "updated" has stored a version, which comes back as an
  event; where a DaemonSet is written unchanged there is no event, and it was
  already right.  For a DaemonSet the property speaks of the hash annotation and
  not of the spec, for the reason `workload_drift` shows.
* `WorkloadCallIsOneStep`: `Spec => CallIsOneStep`.  A call of `applyDeployment`
  or `applyDaemonSet` implements a step of `ApplyCall`.  One that reports an
  update has left the workload with the labels, template and selector of the
  running release, hashed as such.  One that reports none found it so, or others
  have changed it since the version it read, and another call is due.  One that
  fails left it alone, made the whole write, or deleted it to create it.
  `CallInv` says that the object a call requires is that of the running release,
  and that what is stored is as shipped while the events on their way are of this
  process's own writes (`~foreign`): a process lists afresh when it starts.  A
  copy that is taken for right, however stale, then means that the stored workload
  is right or somebody else wrote it.  This needs `TrackInv` for a Deployment,
  whose spec must be the one its hash names.

`OperandApplyProofs`, from `KindsAssumption`, `ValuesAssumption` and
`BoundsAssumption`:

* `OperandTypes`: the type invariant.
* `WritesAreAlwaysAtomic`: `Spec => WritesAreAtomic`, the refinement of
  `AtomicOperand`.  The operator writes what it read, some steps ago and from a
  cache, with the shipped parts merged in.  `CopyInv` says that a copy with the
  resourceVersion of the stored object is that object, so that a write the API
  server accepts is a merge into what is stored then, and a recreation finds
  nothing stored.
* `ExtrasAlwaysSurvive`: `Spec => ExtrasSurvive`: foreign metadata is kept.
* `OperandCallIsOneStep`: `Spec => Call!Spec`, as `WorkloadCallIsOneStep`, for
  each of the nine kinds.  `OwnWrites` says of the events on their way what
  `CallInv` says.
* `HeldAtRestHolds`: `[]HeldAtRest`, by `RestInv`, which has the same three parts
  as that of `WorkloadApply`.  That a write always changes something, and so has
  an event, rests on the rule of each kind being consistent: what it compares it
  also writes (`RulesAreConsistent`).  What is held is what the kind compares: by
  `DeepDerivative` an admission policy with additions passes.

`OperandWatchProofs`, from `BoundsAssumption`:

* `WatchTypes`: the type invariant.
* `HandlersAreAddedOnce`: `[]OneHandler`, by `HandlerInv`: an operand has one
  handler if it is in `watched` and none otherwise.  A `Watch`
  that fails does neither, one that succeeds does both.
* `UndoneAtRestHolds`: `[]UndoneAtRest`.  `NoticeInv` says of each operand that
  the informer will end with what is stored, and that a copy which is not as
  required has an event in the channel, a request in the queue, or the loop
  still before it.

`ConfigSyncProofs`, from `InfrasAssumption`, `BoundsAssumption`,
`SourcesAssumption` and `StartsAssumption`:

* `ConfigTypes`: the type invariant.  It needs that what a reconciler is about to
  write has the type of what it writes over.
* `TrustAlwaysSound`: `[]TrustSound`.  It needs the parts a merge may be made of
  (`BundleForms`), and that a bundle about to be written is fit for use.
* `ConfAtRestHolds` and `BundleAtRestHolds`.  `SeenInv` says that a copy of an
  informer is out of date only while an event is on its way.  `ConfInv` says
  that without requests `cloud-conf` is what the copies make of it, or is about
  to be, or an event of a change to it is on its way; it includes that the last
  reconcile was no failure, since a failure leaves a request.  `BundleInv` is
  harder: the reconciler drops requests it takes for unrelated, so that only the
  others count, and the request it is at work on was not one of those.  It reads
  the Proxy once and works from that copy to the end; `BundleInv` says that the
  copy is the present one unless a request for it is waiting.

`ProcessInputsProofs`, from `ProcessAssumption` and `APIServersAssumption`:

* `AppliedGatesWerePublished`: `[]GatesWerePublished`.  `GatesInv` says that the
  accessor's copy is empty or was published; the applied config has the copy of
  its reconcile, and a reconcile without one panics before it applies anything.
* `ProcessTypes`: the type invariant.
* `MapperIsComplete`: `[]MapperComplete`.  The mapper is the set of what was
  asked for and found; `MapperInv` says that it was built when no answer was
  outstanding, and that each process has phases of its own.
* `AppliedAtRestHolds`: `[]AppliedAtRest`.  `AppliedInv` says that without
  requests and events the last reconcile worked from the copies there are, and
  that without a pending call of the TLS watcher main has the profile and the
  policy of the cluster.
* `BudgetAlwaysFits`: `[]BudgetFits`, of what `GetResources` renders for every
  platform: a lemma per form of the templates (`PlatformTemplates`), and one for
  the substitution and the common resources (`ObjectsFit`).  The invariant is
  the property itself; the work is in the operators.

`ConfigPipelineProofs`, from `NamesAssumption`, `PipelineAssumption` and
`InputsAssumption`, for any number of service overrides and any contents:

* `TransformContractHolds`: `[]TransformContract`.  `SyncInv` says that
  `cloud-conf` is a result of the transformer for what it was made from; a lemma
  per platform says that every result meets the contract (`AWSMakes`,
  `AzureMakes`, `AzureStackMakes`, `OpenStackMakes`).
* `SyncIsAlwaysStable`: `Spec => SyncIsStable`.  On AWS this is that the order in
  which Go walks the map of overrides does not show in the result: the sections
  are sorted by their names, which differ.  The sort is modelled by the n-th
  element of a finite set by rank (`Nth`); `NthOf` says that it enumerates the
  set, and the least place where two results could differ shows that they do not
  (`Least`).
* `PipelineTypes`: the type invariant.  A pod has a config for its manager just
  when the manager runs.
* `MethodAlwaysComplete`: `[]MethodComplete`.  The injector reads four files, and
  the kubelet may replace the Secret between two reads.  `AzureInv` says that
  `cloud-conf` in a pod has only fields of the struct, so that nothing but the
  injector can have set a credential.
* `PodAtRestHolds`: `[]PodAtRest`.  `PodInv` says of each related config whose
  part in the hash of the newest pod is its content of now, and which has not come
  back: what is mounted is that content, the files the injector has read so far
  are those of the Secret of now (`Matches`), and a manager that runs under a hash
  that is right in every part has the settings of now (`UpToDate`).  A refresh, a
  read or a restart keeps it; a change of a content ends its premise for that
  config, and the pod's replacement starts from the contents of now.  `SyncInv`
  turns "the settings of cloud-conf" into "the result of the transformer for the
  inputs of now".

`VSphereConfigProofs`, from `InputsAssumption`, for any number of servers,
datacenters, vCenters and failure domains:

* `TransformerTypes`: the type invariant.
* `SectionsAreExact`: `[]SectionsExact`.  `SectionInv` says of each step what
  it has computed so far: after `setVirtualCenters` the sections are those of
  the failure domains before `next`, each datacenter of them once.  The last
  failure domain makes it the property.  That a vCenter listed twice takes its
  last entry needs the greatest index of a finite set (`LastExists`).
* `VIPsAreExcluded`: `[]ExcludesVIPs`.  The addresses are added to the
  Infrastructure's own lists, which `setNodes` copies later over those of
  `cloud.conf`; the invariant carries the lists from one to the other.  Without a
  platform spec those of `cloud.conf` stay.

Every safety invariant, action property and refinement that a passing run checks
is also a theorem.  Only model-checked is

* all liveness: `Converges` of three modules, `PlatformSettles`, `FailureSurfaces`,
  `Reverted`, `ConfSynced`, `BundleSynced`, `Follows`, `BadImagesReported`,
  `PodsFollow`, `RefusalReported`.  TLAPS has neither fairness nor `ENABLED`; the
  `...AtRest` theorems are the part of them that needs no fairness.

How the models were written so that they can be reasoned about: the sections
are sorted by rank and the mapper is a set, in place of `SortSeq` and
`SelectSeq`, which take an operator and are opaque to the provers; an order of
the keys of a Go map is a bijection (`Orders`); a value that is not there yet is
the empty sequence (`None`).

## Disagreements met

Three have a run whose property is violated:

* **Degraded in a normal upgrade** (`status_degraded`).  The three reconcilers
  start together and write one object, so a conflict can occur in any of them.  `sync` returns
  a conflict of `setStatusProgressing`, when it meets one, like a failed operand
  (`clusteroperator_controller.go:154`) and `Reconcile` reports `Degraded`.
  The API contract forbids that (`types_cluster_operator.go:182`).
* **An edit of a DaemonSet is never reverted** (`workload_drift`).
  `applyDaemonSet` annotates `generation+1`, but a write of metadata alone does
  not raise the generation of a DaemonSet.  The next edit of the spec makes the
  two agree (`resourceapply.go:284`).
* **A panic of the vSphere transformer** (`vsphere_domains`).  For a failure
  domain on a server without a section, `vcenterCfg` stays nil
  (`vsphere_config_transformer.go:94`).

Others were met while modelling.  The models have the behaviour, no run is
devoted to it, and the properties above are stated so as not to hide it:

* `set*Condition` of the sync controllers report the new operator version before
  the operands are rolled out; the API contract says a version is reported once
  all operands run it (`types_cluster_operator.go:62`).
* A ConfigMap of `openshift-config` that has nothing to do with the trusted CA
  makes `TrustedCABundleReconciler` report itself available without looking at
  its inputs (`trusted_ca_bundle_controller.go:76`): with broken inputs the
  operator goes in and out of `Degraded`.
* After a crash of the config-sync process its last conditions stand, and the
  gate goes by them.
* A DaemonSet that is in sync may be written again and reported as updated
  (`resourceapply.go:324`).
* A workload with a new selector may be deleted a second time when the cache
  still holds the one deleted first (`resourceapply.go:220`).  Then a call that
  finds an even older copy can report "unchanged" for a workload that is not
  there; the event of the deletion is still on its way and mends it.
* A change of the ports of a Service alone is not applied: the spec is written
  only when the selector or the type differs (`resourceapply.go:674`).
* Admission policies and their bindings are compared by `DeepDerivative`
  (`resourceapply.go:588`): what others add to the spec stays, and so does what a
  release drops from the end of a list or leaves out altogether.  `HeldAtRest`
  and `Converges` are about what `DeepDerivative` sees.
* When a related ConfigMap or Secret cannot be read, whatever the error, the
  workload is applied without the hash (`resourceapply.go:164`).  The pods roll,
  and nobody retries: they roll again at the next event or resync.
  `SettledAtRest` has the case, `Converges` needs the resync for it.
* `setNodes` replaces the exclusions that `cloud.conf` has by those of the
  Infrastructure, also when the latter has none
  (`vsphere_config_transformer.go:64`).
* A deletion that an informer learns of by a relist comes as a tombstone, which
  the handler drops (`cache.go:129`); it waits for the resync.
* `applyResources` overwrites `updated` with every operand, so `Progressing` is
  set by the last operand alone (`clusteroperator_controller.go:166`).
* `isCloudConfigEqual` compares the pointers of the immutable flag: an immutable
  source is written on every reconcile (`cloud_config_sync_controller.go:268`).
* A change of a feature gate makes no request of the config-sync process
  (`config-sync-controllers/main.go:171`); it waits for the resync.
* A vSphere YAML without `vcenter` leaves a nil map, and a vCenter of the spec
  panics on it (`vsphere_config_transformer.go:77`).
* The operator logs "unable to start manager" when the feature gates do not come
  within a minute, and starts it all the same
  (`cluster-cloud-controller-manager-operator/main.go:253`).  Reconciles then
  panic on the nil gates until they come, and no condition says so.
* A change of the images ConfigMap or of the Proxy has no event; the operands
  follow at the next event of something else or at the resync.  `Follows` needs
  the resync for that.
* On Azure without the Azure part of the platform status, `IsAzure` dereferences
  nil (`azure.go:137`): the config-sync controller panics at every reconcile and
  reports nothing.
* The OpenStack transformer refuses its own output: a `[Global]` section must
  have the legacy keys at their defaults, and they are what it removes
  (`openstack.go:165`).  `RefusalReported` counts as a conflict only a key that
  is there with another value, and is silent on a section without them.
* A comment says that service overrides are "ordered numerically"
  (`aws_config_transformer.go:69`); the sections are compared as text, which puts
  10 before 2.  `TransformContract` asks only that each is there once, after
  `[Global]`; `SyncIsStable` is what the order is needed for.
* A comment says "0 and false are also considered zero values"
  (`aws_config_transformer.go:112`), but only empty values are dropped:
  `DisableSecurityGroupIngress = false` is written.  `TransformContract` takes a
  flag that is not written and one that is `false` for the same.
* A comment of the injector says "If federatedTokenFile found, workload identity
  should be used" (`azure-config-credentials-injector/main.go:98`).  A token file
  that is empty passes that check and then takes the branch for the client
  secret, with an empty secret (line 168).  `MethodComplete` leaves empty files
  out.
* The public endpoint of IBM Cloud is for PowerVS, which does not use these
  assets (`ibm.go:69`): the branch is dead.
* Contents that come back: the hash in the pod template stands for contents that
  the pod reads later (`config_hash.go:119`).  When a ConfigMap or Secret changes
  and changes back around the start of a pod, the pod keeps what it read in
  between, under a hash that is right again.

## Not modelled

* The lease of the leader election: one replica and `Recreate` leave it
  uncontended.
* The text of the manifests, and the parsing of INI, YAML, JSON and PEM: a text
  parses into the sections and keys the model has, or does not.
* The walk over `env` and `envFrom` of the containers, which looks for names for
  the config hash: no manifest has a ConfigMap or Secret there.  The volumes are
  in the model.
* Ciphers and TLS versions: a profile is one of three values.
* A deleted ClusterOperator under liveness.  The step is in `status_recovery`,
  whose safety properties cover it, and in the proofs; that all conditions come
  back at the resync needs all three reconcilers at once, and more time than a
  run has.
* Metrics, logging, recorded events and flags that have no effect on the state.
* The e2e test extension: not part of the operator.

## Plan

1. All components: models done.  All safety properties of the passing runs:
   proved.
2. Open: a counterpart in `StatusSync` of a workload that is deleted and created
   anew for a new selector; the oscillation by unrelated ConfigMaps as a run of
   its own.

--------------------------- MODULE WorkloadApply ---------------------------
(***************************************************************************)
(* How the operator applies one workload, a Deployment or a DaemonSet:     *)
(* applyDeployment and applyDaemonSet of pkg/controllers/resourceapply,    *)
(* with the hash of the related ConfigMaps and Secrets (config_hash.go).   *)
(*                                                                         *)
(* The code never compares the running spec with the required one.  It     *)
(* compares two annotations: the hash of the spec it wrote, and the        *)
(* metadata.generation it expected that write to produce.  The module      *)
(* follows both through edits by others, deletions, changes of the         *)
(* configuration, upgrades, failed calls, crashes and a lagging cache.     *)
(*                                                                         *)
(* A hash is modelled by what it hashes: sha256 is taken to be injective.  *)
(***************************************************************************)
EXTENDS Integers, Sequences

CONSTANTS
    Workloads,     \* the workloads, see Workload
    Templates,     \* pod templates, those of Assets and those others write
    Selectors,     \* pod selectors
    Labels,        \* values of the label the operator sets
    Configs,       \* contents of the related ConfigMaps and Secrets
    NoConfig,      \* a related source is missing
    FaultKinds,    \* what fails: "call", "crash"
    MaxChanges,    \* bound on the former
    MaxFaults,     \* bound on the latter
    MaxLag,        \* bound on the versions the watch has not delivered
    MaxRV          \* bound on the versions of the object

WorkloadSpec == [template : Templates, selector : Selectors,
                 config : Configs \cup {NoConfig}]

(* What a release ships, and whether the API server accepts it.            *)
ReleaseAsset == [template : Templates, selector : Selectors, labels : Labels,
                 valid : BOOLEAN]

ChangeKind == {"template", "label", "annotation", "delete", "config", "upgrade"}

(* A workload: its kind, what the releases ship of it, and what others do  *)
(* to it.                                                                  *)
Workload == [kind : {"Deployment", "DaemonSet"}, assets : Seq(ReleaseAsset),
             changes : SUBSET ChangeKind]

ASSUME WorkloadsAssumption ==
    \A w \in Workloads : w \in Workload /\ Len(w.assets) > 0

ASSUME BoundsAssumption ==
    /\ MaxChanges \in Nat /\ MaxFaults \in Nat /\ MaxLag \in Nat /\ MaxRV \in Nat

(* A version of the workload.  rv = 0 is the absent object.  gen is        *)
(* metadata.generation, which the API server counts; hash and annGen are   *)
(* the annotations spec-hash and operator.openshift.io/generation; annGen  *)
(* = 0 is a missing annotation.                                            *)
Object == [rv : Nat, gen : Nat, annGen : Nat, spec : WorkloadSpec,
           hash : WorkloadSpec, labels : Labels]

Exists(o) == o.rv # 0

VARIABLES
    workload,    \* the workload this is about
    obj,         \* the workload in the API server
    latest,      \* the last resourceVersion given out
    watch,       \* versions the informer has not received yet
    foreign,     \* what is stored is neither what this process listed nor what it wrote
    cache,       \* the informer's copy
    config,      \* contents of the related sources
    configSeen,  \* the informer's copy of them
    release,     \* the release of the running operator
    queued,      \* the operator has a pending request
    pc,          \* where the apply call stands
    required,    \* the object it wants
    unread,      \* the call could not read the related sources
    seen,        \* the copy it has read
    result,      \* what the last call returned
    changes,     \* changes made by others so far
    faults       \* failures so far

apiVars == <<obj, latest, watch, foreign>>
opVars == <<queued, pc, required, unread, seen, result>>
envVars == <<workload, cache, config, configSeen, release, changes, faults>>
vars == <<apiVars, opVars, envVars>>

PC == {"idle", "annotate", "get", "create", "dryRun", "delete", "recreate", "update"}

Assets == workload.assets
Release == 1..Len(Assets)
Asset == Assets[release]

Absent(s, l) == [rv |-> 0, gen |-> 0, annGen |-> 0, spec |-> s, hash |-> s, labels |-> l]

SpecOf(r, c) == [template |-> Assets[r].template, selector |-> Assets[r].selector,
                 config |-> c]

Nothing == Absent(SpecOf(1, NoConfig), Assets[1].labels)

TypeOK ==
    /\ workload \in Workloads
    /\ obj \in Object /\ cache \in Object /\ seen \in Object
    /\ latest \in Nat
    /\ watch \in Seq(Object)
    /\ config \in Configs \cup {NoConfig} /\ configSeen \in Configs \cup {NoConfig}
    /\ release \in Release
    /\ foreign \in BOOLEAN /\ queued \in BOOLEAN /\ unread \in BOOLEAN
    /\ pc \in PC
    /\ required \in [spec : WorkloadSpec, labels : Labels, valid : BOOLEAN]
    /\ result \in {"none", "unchanged", "updated", "error"}
    /\ changes \in Nat /\ faults \in Nat

Init ==
    /\ workload \in Workloads
    /\ obj = Nothing /\ cache = Nothing /\ seen = Nothing
    /\ latest = 0
    /\ watch = << >>
    /\ foreign = FALSE
    /\ config \in Configs \cup {NoConfig}
    /\ configSeen = config
    /\ release = 1
    /\ queued = TRUE
    /\ pc = "idle"
    /\ required = [spec |-> SpecOf(1, NoConfig), labels |-> Assets[1].labels,
                   valid |-> Assets[1].valid]
    /\ unread = FALSE
    /\ result = "none"
    /\ changes = 0 /\ faults = 0

-----------------------------------------------------------------------------
(* The API server.                                                         *)

CanStore == latest < MaxRV /\ Len(watch) < MaxLag

(* Stores a version, numbered, and announces it to the watch.  by is who   *)
(* wrote it: the operator or others.                                       *)
Store(o, by) ==
    /\ CanStore
    /\ latest' = latest + 1
    /\ obj' = [o EXCEPT !.rv = latest + 1]
    /\ watch' = Append(watch, obj')
    /\ foreign' = (by = "others")

Remove ==
    /\ CanStore
    /\ latest' = latest + 1
    /\ obj' = [obj EXCEPT !.rv = 0]
    /\ watch' = Append(watch, obj')
    /\ foreign' = TRUE

(* What advances metadata.generation: for a Deployment a change of the     *)
(* spec or of the annotations, for a DaemonSet a change of the spec only.  *)
GenerationAdvances(old, new) ==
    \/ new.spec # old.spec
    \/ workload.kind = "Deployment" /\ <<new.hash, new.annGen>> # <<old.hash, old.annGen>>

(* An accepted update.  Writing what is already stored stores nothing.     *)
Replace(new, by) ==
    IF new = obj
    THEN UNCHANGED apiVars
    ELSE Store([new EXCEPT !.gen = IF GenerationAdvances(obj, new) THEN obj.gen + 1
                                                                   ELSE obj.gen], by)

-----------------------------------------------------------------------------
(* The apply call, one action per call it makes.                           *)

Return(r) ==
    /\ pc' = "idle"
    /\ result' = r
    /\ queued' = (queued \/ r = "error")

Goto(next) ==
    /\ pc' = next
    /\ UNCHANGED <<queued, result>>

StartApply ==
    /\ pc = "idle" /\ queued
    /\ pc' = "annotate" /\ queued' = FALSE
    /\ UNCHANGED <<required, unread, seen, result, apiVars, envVars>>

(* What the release ships, with the hash of contents c of the sources.     *)
Requires(c) ==
    required' = [spec |-> SpecOf(release, c), labels |-> Asset.labels, valid |-> Asset.valid]

(* The bug of annotating with the empty hash of a failed calculation.      *)
annotateWithEmptyHash ==
    /\ pc = "annotate"
    /\ Goto("get")
    /\ Requires(IF configSeen = NoConfig THEN "" ELSE configSeen)
    /\ unread' = FALSE
    /\ UNCHANGED <<seen, apiVars, envVars>>

(* The pod template gets the hash of the related sources.  When one is     *)
(* missing the error is only recorded as an event, and the template goes   *)
(* without the annotation.                                                 *)
annotatePodSpecWithRelatedConfigsHash ==
    /\ pc = "annotate"
    /\ Goto("get")
    /\ Requires(configSeen)
    /\ unread' = FALSE
    /\ UNCHANGED <<seen, apiVars, envVars>>

Fault(kind) ==
    /\ kind \in FaultKinds /\ faults < MaxFaults
    /\ faults' = faults + 1
    /\ UNCHANGED <<workload, cache, config, configSeen, release, changes>>

(* So it does when the read of a source fails: the call goes on, and its   *)
(* caller never learns of the error.                                       *)
calculateRelatedConfigsHashFails ==
    /\ pc = "annotate"
    /\ Fault("call")
    /\ Goto("get")
    /\ Requires(NoConfig)
    /\ unread' = TRUE
    /\ UNCHANGED <<seen, apiVars>>

(* What EnsureObjectMeta reports: a required label or the hash annotation  *)
(* differs from the copy read.                                             *)
Modified(o) == o.labels # required.labels \/ o.hash # required.spec

(* The bug of a test that forgets the generation.                          *)
UpToDateByHash(o) == ~Modified(o)

UpToDate(o) == ~Modified(o) /\ o.annGen = o.gen

(* Reads the workload from the cache and decides.                          *)
GetExisting ==
    /\ pc = "get"
    /\ seen' = cache
    /\ \/ ~Exists(cache) /\ Goto("create")
       \/ Exists(cache) /\ UpToDate(cache) /\ Return("unchanged")
       \/ /\ Exists(cache) /\ ~UpToDate(cache)
          /\ IF cache.spec.selector # required.spec.selector THEN Goto("dryRun")
                                                             ELSE Goto("update")
    /\ UNCHANGED <<required, unread, apiVars, envVars>>

(* Create: refused when the object exists or is not valid.                 *)
CanCreate == ~Exists(obj) /\ required.valid

Created ==
    Store([rv |-> 0, gen |-> 1, annGen |-> 1, spec |-> required.spec,
           hash |-> required.spec, labels |-> required.labels], "operator")

(* The bug of taking an object that exists for the one to create.          *)
CreateWorkloadOnce(at) ==
    /\ pc = at
    /\ IF CanCreate THEN Created /\ Return("updated")
                    ELSE /\ Return(IF Exists(obj) THEN "updated" ELSE "error")
                         /\ UNCHANGED apiVars
    /\ UNCHANGED <<required, unread, seen, envVars>>

CreateWorkload(at) ==
    /\ pc = at
    /\ IF CanCreate THEN Created /\ Return("updated")
                    ELSE Return("error") /\ UNCHANGED apiVars
    /\ UNCHANGED <<required, unread, seen, envVars>>

(* The bug of deleting first and validating by the real creation.          *)
DryRunSkipped ==
    /\ pc = "dryRun"
    /\ Goto("delete")
    /\ UNCHANGED <<required, unread, seen, apiVars, envVars>>

(* The dry-run creation under another name, before the deletion.           *)
DryRun ==
    /\ pc = "dryRun"
    /\ IF required.valid THEN Goto("delete") ELSE Return("error")
    /\ UNCHANGED <<required, unread, seen, apiVars, envVars>>

(* Delete by name: whatever is stored under it goes.                       *)
DeleteExisting ==
    /\ pc = "delete"
    /\ Goto("recreate")
    /\ IF Exists(obj) THEN Remove ELSE UNCHANGED apiVars
    /\ UNCHANGED <<required, unread, seen, envVars>>

(* The bug of not recording the generation the write will produce.         *)
ToWriteNoGeneration ==
    [seen EXCEPT !.spec = required.spec, !.hash = required.spec,
                 !.labels = required.labels]

ToWrite == [seen EXCEPT !.spec = required.spec, !.hash = required.spec,
                        !.labels = required.labels, !.annGen = seen.gen + 1]

(* The update carries the resourceVersion read.                            *)
CanUpdate == seen.rv = obj.rv /\ required.valid

UpdateWorkload ==
    /\ pc = "update"
    /\ IF CanUpdate THEN Replace(ToWrite, "operator") /\ Return("updated")
                    ELSE Return("error") /\ UNCHANGED apiVars
    /\ UNCHANGED <<required, unread, seen, envVars>>

(* The call under way fails and changes nothing.                           *)
CallFails ==
    /\ pc \in {"get", "create", "dryRun", "delete", "recreate", "update"}
    /\ Fault("call")
    /\ Return("error")
    /\ UNCHANGED <<required, unread, seen, apiVars>>

(* The API server makes the write, but the answer does not arrive.         *)
AnswerLost ==
    /\ \/ pc \in {"create", "recreate"} /\ CanCreate /\ Created
       \/ pc = "delete" /\ Exists(obj) /\ Remove
       \/ pc = "update" /\ CanUpdate /\ Replace(ToWrite, "operator")
    /\ Fault("call")
    /\ Return("error")
    /\ UNCHANGED <<required, unread, seen>>

ApplyWorkload ==
    \/ annotatePodSpecWithRelatedConfigsHash
    \/ GetExisting
    \/ CreateWorkload("create")
    \/ DryRun
    \/ DeleteExisting
    \/ CreateWorkload("recreate")
    \/ UpdateWorkload

applyDeployment == workload.kind = "Deployment" /\ ApplyWorkload

applyDaemonSet == workload.kind = "DaemonSet" /\ ApplyWorkload

-----------------------------------------------------------------------------
(* Informers, other clients, and the process.                              *)

(* A version of the workload reaches the cache and queues a request.       *)
DeliverWorkload ==
    /\ watch # << >>
    /\ cache' = Head(watch) /\ watch' = Tail(watch)
    /\ queued' = TRUE
    /\ UNCHANGED <<obj, latest, foreign, pc, required, unread, seen, result, workload,
                   config, configSeen, release, changes, faults>>

(* The bug of not watching the related sources.                            *)
DeliverConfigUnwatched ==
    /\ configSeen # config
    /\ configSeen' = config
    /\ UNCHANGED <<opVars, apiVars, workload, cache, config, release, changes, faults>>

DeliverConfig ==
    /\ configSeen # config
    /\ configSeen' = config
    /\ queued' = TRUE
    /\ UNCHANGED <<pc, required, unread, seen, result, apiVars, workload, cache, config,
                   release, changes, faults>>

Change(kind) ==
    /\ kind \in workload.changes /\ changes < MaxChanges
    /\ changes' = changes + 1

OthersEdit ==
    /\ Exists(obj)
    /\ \/ /\ Change("template")
          /\ \E t \in Templates : Replace([obj EXCEPT !.spec.template = t], "others")
       \/ /\ Change("label")
          /\ \E l \in Labels : Replace([obj EXCEPT !.labels = l], "others")
       \/ /\ Change("annotation")
          /\ Replace([obj EXCEPT !.annGen = 0], "others")
       \/ /\ Change("delete")
          /\ Remove
    /\ UNCHANGED <<opVars, workload, cache, config, configSeen, release, faults>>

ConfigChanges ==
    /\ Change("config")
    /\ config' \in (Configs \cup {NoConfig}) \ {config}
    /\ UNCHANGED <<opVars, apiVars, workload, cache, configSeen, release, faults>>

(* The periodic resync, and an event of any other object SetupWithManager  *)
(* watches, make the same request.                                         *)
OtherRequest ==
    /\ ~queued
    /\ queued' = TRUE
    /\ UNCHANGED <<pc, required, unread, seen, result, apiVars, envVars>>

(* A new process lists everything afresh and reconciles.                   *)
Restart ==
    /\ cache' = obj /\ watch' = << >> /\ foreign' = FALSE /\ configSeen' = config
    /\ pc' = "idle" /\ queued' = TRUE /\ unread' = FALSE /\ result' = "none"
    /\ UNCHANGED <<obj, latest, required, seen, workload, config>>

Crash ==
    /\ pc # "idle"
    /\ "crash" \in FaultKinds /\ faults < MaxFaults
    /\ faults' = faults + 1
    /\ Restart
    /\ UNCHANGED <<release, changes>>

Upgrade ==
    /\ release < Len(Assets)
    /\ Change("upgrade")
    /\ release' = release + 1
    /\ Restart
    /\ UNCHANGED faults

Operator == StartApply \/ applyDeployment \/ applyDaemonSet

Next ==
    \/ Operator
    \/ calculateRelatedConfigsHashFails
    \/ CallFails
    \/ AnswerLost
    \/ DeliverWorkload
    \/ DeliverConfig
    \/ OthersEdit
    \/ ConfigChanges
    \/ OtherRequest
    \/ Crash
    \/ Upgrade

Spec == Init /\ [][Next]_vars

(* The work queue serves its request, an apply call takes its steps, and   *)
(* the informers receive what was stored.                                  *)
FairSpec ==
    Spec /\ WF_vars(Operator) /\ WF_vars(DeliverWorkload) /\ WF_vars(DeliverConfig)

-----------------------------------------------------------------------------
(* The step of an apply call that finds nothing to do.                     *)
Skips == pc = "get" /\ pc' = "idle" /\ result' = "unchanged"

(* "Nothing to do" is true: when applyDeployment or applyDaemonSet returns *)
(* false because neither annotation differs, the copy it read runs the     *)
(* required spec, whoever edited it since the last write.                  *)
SkipMeansInSync == [][Skips => cache.spec = required.spec]_vars

(* It is true of a Deployment, whose generation also counts the writes of  *)
(* the annotations.                                                        *)
SkippedDeploymentInSync ==
    [][workload.kind = "Deployment" /\ Skips => cache.spec = required.spec]_vars

(* "Updated" is true of it as well: an update applyDeployment reports, and *)
(* the operator becomes Progressing for, has changed the stored workload.  *)
UpdatedDeploymentChanges ==
    [][(/\ workload.kind = "Deployment"
        /\ pc = "update" /\ pc' = "idle" /\ result' = "updated") => obj' # obj]_vars

(* Deleting to recreate is safe from a release that cannot be created: the *)
(* workload is only deleted for a replacement the dry run has validated.   *)
DeletesOnlyForValid ==
    [][pc = "delete" /\ pc' = "recreate" => required.valid]_vars

(* The version is as the running release ships it, whatever contents of    *)
(* the related sources its config-hash is of.                              *)
AsShipped(o) ==
    /\ Exists(o)
    /\ o.hash.template = Asset.template /\ o.hash.selector = Asset.selector
    /\ o.labels = Asset.labels
    /\ workload.kind = "Deployment" => o.spec = o.hash

Due == queued \/ watch # << >>

Outcome == IF pc = "idle" THEN result ELSE "running"

Call == INSTANCE ApplyCall WITH held <- AsShipped(obj), due <- Due, outcome <- Outcome

(* An apply call amounts to the one step that StatusSync takes for it,     *)
(* however far the cache lags and whatever others do meanwhile.  When      *)
(* applyDeployment or applyDaemonSet returns without an error, the stored  *)
(* workload is as the running release ships it.  "Unchanged" can miss a    *)
(* change by others that the cache has not received, and another call then *)
(* follows; "updated" misses none.  A call that fails left the workload as *)
(* it was, or made the whole write, or deleted it to create it.            *)
CallIsOneStep == Call!Spec

InSync ==
    /\ Exists(obj)
    /\ obj.spec = SpecOf(release, config)
    /\ obj.labels = Asset.labels
    /\ result = "unchanged"

(* No apply call is under way or asked for, and the informers have seen    *)
(* everything.                                                             *)
AtRest == pc = "idle" /\ ~queued /\ watch = << >> /\ configSeen = config

(* The operator never comes to rest short of its goal, whatever failed and *)
(* whoever edited the workload: an apply call that nothing follows has     *)
(* left the labels of the running release, and the spec-hash annotation of *)
(* its spec with the hash of the current configuration.  Only if that call *)
(* failed to read the configuration, an error applyDeployment drops, is    *)
(* the spec one without its hash.  A Deployment then runs that spec, and   *)
(* the call has reported no update.                                        *)
SettledAtRest ==
    AtRest => /\ Exists(obj)
              /\ obj.hash = SpecOf(release, IF unread THEN NoConfig ELSE config)
              /\ obj.labels = Asset.labels
              /\ workload.kind = "Deployment" => obj.spec = obj.hash /\ result = "unchanged"

(* Once changes and failures stop, the workload runs the spec of the       *)
(* running release with the current configuration, and apply calls then    *)
(* report no update.  Events alone achieve it, unless the last call could  *)
(* not read the configuration: nobody retries it, so the resync must come. *)
(* A release the API server refuses is left out.                           *)
Converges == (<>[]unread => WF_vars(OtherRequest)) => <>[](Asset.valid => InSync)

=============================================================================

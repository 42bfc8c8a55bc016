------------------------ MODULE WorkloadApplyProofs ------------------------
(***************************************************************************)
(* What applyDeployment reports is true, a workload is deleted only for a  *)
(* valid one, and the operator does not come to rest on another, for any   *)
(* number of releases, edits by others, failures and versions the cache    *)
(* lags behind.                                                            *)
(*                                                                         *)
(* The generation annotation is inductive only together with where it came *)
(* from: every copy of the workload the operator may act on (stored,       *)
(* cached, read, still in the watch) is a version that was stored, and two *)
(* copies with one resourceVersion are equal.                              *)
(***************************************************************************)
EXTENDS WorkloadApply, TLAPS

Deployed == workload.kind = "Deployment"

(* The annotation of a Deployment never runs ahead of the generation, and  *)
(* has caught up with it only where the spec is the one whose hash is      *)
(* annotated.                                                              *)
Tracks(o) ==
    Deployed /\ Exists(o)
        => o.annGen <= o.gen /\ (o.annGen = o.gen => o.spec = o.hash)

(* A copy is a version stored earlier: the current one if the versions     *)
(* agree.                                                                  *)
Stored(o) == o.rv <= latest /\ (Exists(o) /\ o.rv = obj.rv => o = obj)

CopiesTrack ==
    /\ Tracks(obj) /\ Tracks(cache) /\ Tracks(seen)
    /\ \A i \in 1..Len(watch) : Tracks(watch[i])

CopiesStored ==
    /\ Stored(obj) /\ Stored(cache) /\ Stored(seen)
    /\ \A i \in 1..Len(watch) : Stored(watch[i])

TrackInv ==
    /\ TypeOK
    /\ CopiesTrack
    /\ CopiesStored
    /\ pc = "update" => Exists(seen)
    /\ pc = "delete" => required.valid

(* The fields of an object, and an object with another resourceVersion.    *)
LEMMA ObjectFields ==
    \A o \in Object : /\ o.rv \in Nat /\ o.gen \in Nat /\ o.annGen \in Nat
                      /\ o.spec \in WorkloadSpec /\ o.hash \in WorkloadSpec
                      /\ o.labels \in Labels
BY DEF Object

(* Setting the resourceVersion leaves the other fields alone.              *)
LEMMA WithVersion ==
    ASSUME NEW o \in Object, NEW n \in Nat, NEW new, new = [o EXCEPT !.rv = n]
    PROVE  /\ new \in Object /\ new.rv = n /\ new.gen = o.gen /\ new.annGen = o.annGen
           /\ new.spec = o.spec /\ new.hash = o.hash /\ new.labels = o.labels
<1>1. new \in Object
  BY DEF Object
<1> QED BY <1>1 DEF Object

(* So does setting the generation.                                         *)
LEMMA WithGeneration ==
    ASSUME NEW o \in Object, NEW n \in Nat, NEW new, new = [o EXCEPT !.gen = n]
    PROVE  /\ new \in Object /\ new.gen = n /\ new.rv = o.rv /\ new.annGen = o.annGen
           /\ new.spec = o.spec /\ new.hash = o.hash
<1>1. new \in Object
  BY DEF Object
<1> QED BY <1>1 DEF Object

(* The elements of a sequence over a set are in the set.                   *)
LEMMA Elements ==
    ASSUME NEW S, NEW s \in Seq(S) PROVE \A i \in 1..Len(s) : s[i] \in S
OBVIOUS

(* The spec a release asks for is a workload spec, and the absent object   *)
(* is an object.                                                           *)
LEMMA AssetTypes ==
    ASSUME workload \in Workloads
    PROVE  /\ \A r \in Release, c \in Configs \cup {NoConfig} : SpecOf(r, c) \in WorkloadSpec
           /\ \A r \in Release : Assets[r].labels \in Labels /\ Assets[r].valid \in BOOLEAN
           /\ Nothing \in Object /\ ~Exists(Nothing)
           /\ 1 \in Release /\ Len(Assets) \in Nat
<1>1. Assets \in Seq(ReleaseAsset) /\ Len(Assets) > 0
  BY WorkloadsAssumption DEF WorkloadsAssumption, Assets, Workload
<1>2. \A r \in Release : Assets[r] \in ReleaseAsset
  BY <1>1, Elements DEF Release
<1>3. \A r \in Release : /\ Assets[r].template \in Templates /\ Assets[r].selector \in Selectors
                         /\ Assets[r].labels \in Labels /\ Assets[r].valid \in BOOLEAN
  BY <1>2 DEF ReleaseAsset
<1>4. \A r \in Release, c \in Configs \cup {NoConfig} : SpecOf(r, c) \in WorkloadSpec
  BY <1>3 DEF SpecOf, WorkloadSpec
<1>5. 1 \in Release /\ Len(Assets) \in Nat
  BY <1>1 DEF Release
<1>6. Nothing \in Object /\ ~Exists(Nothing)
  BY <1>3, <1>4, <1>5 DEF Nothing, Absent, Object, Exists
<1> QED BY <1>3, <1>4, <1>5, <1>6

(* The releases are those of the workload, which never changes.            *)
LEMMA SameReleases ==
    ASSUME workload' = workload PROVE Release' = Release
BY DEF Release, Assets

(* A write leaves the stored workload and its copies as they should be.    *)
Kept ==
    /\ obj' \in Object /\ latest' \in Nat /\ watch' \in Seq(Object) /\ foreign' \in BOOLEAN
    /\ CopiesTrack' /\ CopiesStored'

(* Storing a version that tracks its spec keeps every copy a stored one.   *)
LEMMA StoreKeeps ==
    ASSUME TypeOK, CopiesTrack, CopiesStored, NEW o \in Object,
           NEW by, Store(o, by),
           Deployed => o.annGen <= o.gen /\ (o.annGen = o.gen => o.spec = o.hash),
           UNCHANGED <<workload, cache, seen>>
    PROVE  Kept /\ obj' # obj
<1>1. /\ latest' = latest + 1 /\ obj' = [o EXCEPT !.rv = latest + 1]
      /\ watch' = Append(watch, obj') /\ foreign' \in BOOLEAN
      /\ latest \in Nat /\ watch \in Seq(Object) /\ obj \in Object
      /\ cache \in Object /\ seen \in Object
  BY DEF Store, TypeOK
<1>2. /\ obj' \in Object /\ obj'.rv = latest + 1 /\ Tracks(obj')
  <2> DEFINE n == latest + 1
  <2>1. n \in Nat /\ obj' = [o EXCEPT !.rv = n]
    BY <1>1
  <2> HIDE DEF n
  <2>2. /\ obj' \in Object /\ obj'.rv = n
        /\ obj'.gen = o.gen /\ obj'.annGen = o.annGen /\ obj'.spec = o.spec /\ obj'.hash = o.hash
    BY <2>1, WithVersion
  <2> QED BY <2>2 DEF Tracks, Deployed, n
<1>3. watch' \in Seq(Object) /\ Len(watch') = Len(watch) + 1
  BY <1>1, <1>2
<1>4. \A i \in 1..Len(watch') : watch'[i] = IF i <= Len(watch) THEN watch[i] ELSE obj'
  BY <1>1, <1>2, <1>3
<1>5. \A c \in Object : Stored(c) => c.rv < obj'.rv
  BY <1>1, <1>2, ObjectFields DEF Stored
<1>6. \A i \in 1..Len(watch) : watch[i] \in Object
  BY <1>1, Elements
<1>7. CopiesTrack'
  BY <1>1, <1>2, <1>3, <1>4 DEF CopiesTrack, Tracks, Deployed, Exists
<1>8. CopiesStored'
  <2>1. \A c \in Object : Stored(c) => c.rv <= latest' /\ ~(c.rv = obj'.rv)
    BY <1>1, <1>2, <1>5, ObjectFields
  <2>2. cache'.rv <= latest' /\ ~(cache'.rv = obj'.rv) /\ seen'.rv <= latest' /\ ~(seen'.rv = obj'.rv)
    BY <1>1, <2>1 DEF CopiesStored
  <2>3. obj'.rv <= latest'
    BY <1>1, <1>2
  <2>4. \A i \in 1..Len(watch') : watch'[i] = obj' \/ (watch'[i].rv <= latest' /\ ~(watch'[i].rv = obj'.rv))
    BY <1>1, <1>3, <1>4, <1>6, <2>1 DEF CopiesStored
  <2> QED BY <2>2, <2>3, <2>4 DEF CopiesStored, Stored, Exists
<1>9. obj' # obj
  <2>1. obj.rv < obj'.rv
    BY <1>1, <1>5 DEF CopiesStored
  <2>2. obj.rv \in Nat
    BY <1>1, ObjectFields
  <2> QED BY <2>1, <2>2
<1> QED BY <1>1, <1>2, <1>3, <1>7, <1>8, <1>9 DEF Kept

(* Removing the object keeps them as well.                                 *)
LEMMA RemoveKeeps ==
    ASSUME TypeOK, CopiesTrack, CopiesStored, Remove, UNCHANGED <<workload, cache, seen>>
    PROVE  Kept
<1>1. /\ latest' = latest + 1 /\ obj' = [obj EXCEPT !.rv = 0]
      /\ watch' = Append(watch, obj') /\ foreign' \in BOOLEAN
      /\ latest \in Nat /\ watch \in Seq(Object) /\ obj \in Object
      /\ cache \in Object /\ seen \in Object
  BY DEF Remove, TypeOK
<1>2. obj' \in Object /\ obj'.rv = 0 /\ latest' \in Nat
  <2>1. latest' \in Nat
    BY <1>1
  <2>2. obj' \in Object /\ obj'.rv = 0
    BY <1>1 DEF Object
  <2> QED BY <2>1, <2>2
<1>3. watch' \in Seq(Object) /\ Len(watch') = Len(watch) + 1
  BY <1>1, <1>2
<1>4. \A i \in 1..Len(watch') : watch'[i] = IF i <= Len(watch) THEN watch[i] ELSE obj'
  BY <1>1, <1>2, <1>3
<1>5. \A i \in 1..Len(watch) : watch[i] \in Object
  BY <1>1, Elements
<1>6. CopiesTrack'
  BY <1>1, <1>2, <1>3, <1>4 DEF CopiesTrack, Tracks, Deployed, Exists
<1>7. \A c \in Object : Stored(c) => c.rv <= latest' /\ ~(Exists(c) /\ c.rv = obj'.rv)
  BY <1>1, <1>2, ObjectFields DEF Stored, Exists
<1>8. \A i \in 1..Len(watch') : watch'[i] = obj' \/ (watch'[i].rv <= latest' /\ ~(Exists(watch'[i]) /\ watch'[i].rv = obj'.rv))
  BY <1>1, <1>3, <1>4, <1>5, <1>7 DEF CopiesStored
<1>9. obj'.rv <= latest'
  BY <1>1, <1>2
<1>10. CopiesStored'
  BY <1>1, <1>7, <1>8, <1>9 DEF CopiesStored, Stored, Exists
<1> QED BY <1>1, <1>2, <1>3, <1>6, <1>10 DEF Kept

(* An accepted update of a Deployment keeps them: either the API server    *)
(* counts a generation, or the annotations and the spec are as before.     *)
LEMMA ReplaceKeeps ==
    ASSUME TypeOK, CopiesTrack, CopiesStored, Exists(obj),
           NEW new \in Object, NEW by, Replace(new, by),
           Deployed => /\ new.annGen <= obj.gen + 1
                       /\ new.annGen = obj.gen + 1 => new.spec = new.hash,
           UNCHANGED <<workload, cache, seen>>
    PROVE  Kept /\ (new # obj => obj' # obj)
<1>1. CASE new = obj
  BY <1>1 DEF Kept, Replace, apiVars, TypeOK, CopiesTrack, CopiesStored, Stored, Tracks, Deployed, Exists
<1>2. CASE new # obj
  <2> DEFINE g == IF GenerationAdvances(obj, new) THEN obj.gen + 1 ELSE obj.gen
             o == [new EXCEPT !.gen = g]
  <2>1. Store(o, by)
    BY <1>2 DEF Replace
  <2>2. obj \in Object
    BY DEF TypeOK
  <2>3. obj.gen \in Nat /\ obj.annGen \in Nat /\ new.annGen \in Nat
    BY <2>2, ObjectFields
  <2>4. g \in Nat
    BY <2>3
  <2>5. /\ o \in Object /\ o.gen = g /\ o.annGen = new.annGen
        /\ o.spec = new.spec /\ o.hash = new.hash
    <3> HIDE DEF g
    <3> QED BY <2>4, WithGeneration
  <2>6. Deployed => o.annGen <= o.gen /\ (o.annGen = o.gen => o.spec = o.hash)
    <3> SUFFICES ASSUME Deployed PROVE o.annGen <= o.gen /\ (o.annGen = o.gen => o.spec = o.hash)
      OBVIOUS
    <3>1. CASE GenerationAdvances(obj, new)
      BY <2>3, <2>5, <3>1
    <3>2. CASE ~GenerationAdvances(obj, new)
      <4>1. new.spec = obj.spec /\ new.hash = obj.hash /\ new.annGen = obj.annGen
        BY <3>2 DEF GenerationAdvances, Deployed
      <4>2. obj.annGen <= obj.gen /\ (obj.annGen = obj.gen => obj.spec = obj.hash)
        BY DEF CopiesTrack, Tracks
      <4> HIDE DEF o
      <4> QED BY <2>5, <3>2, <4>1, <4>2
    <3> QED BY <3>1, <3>2
  <2> HIDE DEF o
  <2> QED BY <2>1, <2>5, <2>6, StoreKeeps
<1> QED BY <1>1, <1>2

(* What UpdateWorkload writes over the version it read.                    *)
LEMMA UpdateFacts ==
    ASSUME TrackInv, pc = "update", seen.rv = obj.rv
    PROVE  /\ ToWrite \in Object /\ Exists(obj)
           /\ ToWrite.annGen = obj.gen + 1 /\ ToWrite.spec = ToWrite.hash
           /\ Deployed => ToWrite # obj
<1>1. seen = obj /\ Exists(obj) /\ seen \in Object /\ required.spec \in WorkloadSpec
      /\ required.labels \in Labels
  BY DEF TrackInv, CopiesStored, Stored, Exists, TypeOK
<1>2. seen.gen + 1 \in Nat /\ (Deployed => obj.annGen <= obj.gen) /\ obj.gen \in Nat /\ obj.annGen \in Nat
  BY <1>1, ObjectFields DEF TrackInv, CopiesTrack, Tracks
<1> DEFINE n == seen.gen + 1
<1>3. n \in Nat /\ ToWrite = [seen EXCEPT !.spec = required.spec, !.hash = required.spec,
                                          !.labels = required.labels, !.annGen = n]
  BY <1>2 DEF ToWrite
<1> HIDE DEF n
<1>4. ToWrite \in Object /\ ToWrite.annGen = n /\ ToWrite.spec = ToWrite.hash
  BY <1>1, <1>3 DEF Object
<1> QED BY <1>1, <1>2, <1>4 DEF n

(* A step that neither stores nor reads anything keeps the copies.         *)
LEMMA QuietKeeps ==
    ASSUME CopiesTrack, CopiesStored, UNCHANGED <<workload, apiVars, cache, seen>>
    PROVE  CopiesTrack' /\ CopiesStored'
BY DEF CopiesTrack, CopiesStored, Stored, Tracks, Deployed, Exists, apiVars

(* So do the writes of the operator, whether it learns of them or not.     *)
LEMMA WriteKeeps ==
    ASSUME TrackInv, UNCHANGED <<workload, cache, seen>>,
           \/ Created
           \/ Remove
           \/ pc = "update" /\ CanUpdate /\ Replace(ToWrite, "operator")
           \/ UNCHANGED apiVars
    PROVE  Kept
<1> USE DEF TrackInv
<1>1. CASE Created
  <2> DEFINE o == [rv |-> 0, gen |-> 1, annGen |-> 1, spec |-> required.spec,
                   hash |-> required.spec, labels |-> required.labels]
  <2>1. Store(o, "operator")
    BY <1>1 DEF Created
  <2>2. o \in Object
    BY DEF Object, TypeOK
  <2>3. o.annGen <= o.gen /\ o.spec = o.hash
    OBVIOUS
  <2> HIDE DEF o
  <2> QED BY <2>1, <2>2, <2>3, StoreKeeps
<1>2. CASE Remove
  BY <1>2, RemoveKeeps
<1>3. CASE pc = "update" /\ CanUpdate /\ Replace(ToWrite, "operator")
  <2>1. /\ ToWrite \in Object /\ Exists(obj)
        /\ ToWrite.annGen = obj.gen + 1 /\ ToWrite.spec = ToWrite.hash
    BY <1>3, UpdateFacts DEF CanUpdate
  <2>2. ToWrite.annGen <= obj.gen + 1
    BY <2>1, ObjectFields DEF TypeOK
  <2> QED BY <1>3, <2>1, <2>2, ReplaceKeeps
<1>4. CASE UNCHANGED apiVars
  BY <1>4, QuietKeeps DEF Kept, TypeOK, apiVars
<1> QED BY <1>1, <1>2, <1>3, <1>4

(* The apply call keeps the invariant, step by step.                       *)
LEMMA ApplyKeeps ==
    ASSUME TrackInv, ApplyWorkload PROVE TrackInv'
<1> USE DEF TrackInv
<1>0. workload' = workload /\ Release' = Release
  <2>1. workload' = workload
    BY DEF ApplyWorkload, annotatePodSpecWithRelatedConfigsHash, GetExisting, CreateWorkload,
      DryRun, DeleteExisting, UpdateWorkload, envVars
  <2> QED BY <2>1, SameReleases
<1>1. CASE annotatePodSpecWithRelatedConfigsHash
  <2>1. CopiesTrack' /\ CopiesStored'
    BY <1>1, QuietKeeps DEF annotatePodSpecWithRelatedConfigsHash, envVars
  <2>2. TypeOK' /\ pc' = "get"
    BY <1>0, <1>1, AssetTypes DEF annotatePodSpecWithRelatedConfigsHash, Requires, TypeOK, Goto,
      Asset, PC, apiVars, envVars
  <2> QED BY <2>1, <2>2
<1>2. CASE GetExisting
  <2>1. TypeOK' /\ (pc' = "update" => Exists(cache)) /\ pc' # "delete"
    BY <1>0, <1>2 DEF GetExisting, TypeOK, Goto, Return, PC, apiVars, envVars
  <2>2. CopiesTrack' /\ CopiesStored' /\ seen' = cache
    BY <1>2 DEF GetExisting, CopiesTrack, CopiesStored, Stored, Tracks, Deployed, Exists,
      apiVars, envVars
  <2> QED BY <2>1, <2>2 DEF Exists
<1>3. ASSUME NEW at \in {"create", "recreate"}, CreateWorkload(at) PROVE TrackInv'
  <2>1. /\ UNCHANGED <<required, unread, seen, workload, cache, config, configSeen, release,
                       changes, faults>>
        /\ pc' = "idle" /\ result' \in {"updated", "error"} /\ queued' \in BOOLEAN
    BY <1>3 DEF CreateWorkload, Return, envVars, TypeOK
  <2>2. Kept
    BY <1>3, <2>1, WriteKeeps DEF CreateWorkload
  <2> QED BY <1>0, <2>1, <2>2 DEF Kept, TypeOK, PC
<1>4. CASE DryRun
  <2>1. CopiesTrack' /\ CopiesStored'
    BY <1>4, QuietKeeps DEF DryRun, envVars
  <2>2. TypeOK' /\ pc' # "update" /\ (pc' = "delete" => required'.valid)
    BY <1>0, <1>4 DEF DryRun, TypeOK, Goto, Return, PC, apiVars, envVars
  <2> QED BY <2>1, <2>2
<1>5. CASE DeleteExisting
  <2>1. /\ UNCHANGED <<required, unread, seen, workload, cache, config, configSeen, release,
                       changes, faults>>
        /\ pc' = "recreate" /\ result' = result /\ queued' = queued
    BY <1>5 DEF DeleteExisting, Goto, envVars
  <2>2. Kept
    BY <1>5, <2>1, WriteKeeps DEF DeleteExisting
  <2> QED BY <1>0, <2>1, <2>2 DEF Kept, TypeOK, PC
<1>6. CASE UpdateWorkload
  <2>1. /\ UNCHANGED <<required, unread, seen, workload, cache, config, configSeen, release,
                       changes, faults>>
        /\ pc' = "idle" /\ result' \in {"updated", "error"} /\ queued' \in BOOLEAN
    BY <1>6 DEF UpdateWorkload, Return, envVars, TypeOK
  <2>2. Kept
    BY <1>6, <2>1, WriteKeeps DEF UpdateWorkload
  <2> QED BY <1>0, <2>1, <2>2 DEF Kept, TypeOK, PC
<1> QED BY <1>1, <1>2, <1>3, <1>4, <1>5, <1>6 DEF ApplyWorkload

(* So do its failures.                                                     *)
LEMMA FailureKeeps ==
    ASSUME TrackInv, calculateRelatedConfigsHashFails \/ CallFails \/ AnswerLost
    PROVE  TrackInv'
<1> USE DEF TrackInv
<1>0. workload' = workload /\ Release' = Release
  <2>1. workload' = workload
    BY DEF calculateRelatedConfigsHashFails, CallFails, AnswerLost, Fault
  <2> QED BY <2>1, SameReleases
<1>1. CASE calculateRelatedConfigsHashFails
  <2>1. CopiesTrack' /\ CopiesStored'
    BY <1>1, QuietKeeps DEF calculateRelatedConfigsHashFails, Fault
  <2>2. TypeOK' /\ pc' = "get"
    BY <1>0, <1>1, AssetTypes DEF calculateRelatedConfigsHashFails, Fault, Requires, TypeOK, Goto,
      Asset, PC, apiVars
  <2> QED BY <2>1, <2>2
<1>2. CASE CallFails
  <2>1. CopiesTrack' /\ CopiesStored'
    BY <1>2, QuietKeeps DEF CallFails, Fault
  <2> QED BY <1>0, <1>2, <2>1 DEF CallFails, Fault, Return, TypeOK, PC, apiVars
<1>3. CASE AnswerLost
  <2>1. /\ UNCHANGED <<required, unread, seen, workload, cache, config, configSeen, release,
                       changes>>
        /\ pc' = "idle" /\ result' = "error" /\ queued' \in BOOLEAN /\ faults' \in Nat
    BY <1>3 DEF AnswerLost, Fault, Return, TypeOK
  <2>2. Kept
    BY <1>3, <2>1, WriteKeeps DEF AnswerLost
  <2> QED BY <1>0, <2>1, <2>2 DEF Kept, TypeOK, PC
<1> QED BY <1>1, <1>2, <1>3

(* The informers, the other clients and restarts keep the invariant.       *)
LEMMA EnvironmentKeeps ==
    ASSUME TrackInv,
           \/ DeliverWorkload \/ DeliverConfig \/ OthersEdit \/ ConfigChanges
           \/ OtherRequest \/ Crash \/ Upgrade
    PROVE  TrackInv'
<1> USE DEF TrackInv
<1>0. workload' = workload /\ Release' = Release
  <2>1. workload' = workload
    BY DEF DeliverWorkload, DeliverConfig, OthersEdit, ConfigChanges, OtherRequest, Crash,
      Upgrade, Restart, envVars
  <2> QED BY <2>1, SameReleases
<1>1. CASE DeliverWorkload
  <2>1. /\ Head(watch) \in Object /\ Tail(watch) \in Seq(Object)
        /\ Head(watch) = watch[1] /\ 1 \in 1..Len(watch)
        /\ Len(Tail(watch)) = Len(watch) - 1
        /\ \A i \in 1..Len(Tail(watch)) : i + 1 \in 1..Len(watch) /\ Tail(watch)[i] = watch[i + 1]
    BY <1>1 DEF DeliverWorkload, TypeOK
  <2>2. TypeOK' /\ (pc' = "update" => Exists(seen')) /\ (pc' = "delete" => required'.valid)
    BY <1>0, <1>1, <2>1 DEF DeliverWorkload, TypeOK, Exists
  <2>3. CopiesTrack'
    BY <1>1, <2>1 DEF DeliverWorkload, CopiesTrack, Tracks, Deployed, Exists
  <2>4. CopiesStored'
    BY <1>1, <2>1 DEF DeliverWorkload, CopiesStored, Stored, Exists
  <2> QED BY <2>2, <2>3, <2>4
<1>2. CASE DeliverConfig
  <2>1. CopiesTrack' /\ CopiesStored'
    BY <1>2, QuietKeeps DEF DeliverConfig
  <2> QED BY <1>0, <1>2, <2>1 DEF DeliverConfig, TypeOK, apiVars, Exists
<1>3. CASE OthersEdit
  <2>1. /\ UNCHANGED <<opVars, workload, cache, config, configSeen, release, faults>>
        /\ changes' \in Nat /\ Exists(obj) /\ obj \in Object
    BY <1>3 DEF OthersEdit, Change, TypeOK
  <2>2. /\ obj.gen \in Nat /\ obj.annGen \in Nat /\ obj.spec \in WorkloadSpec
        /\ Deployed => obj.annGen <= obj.gen
    BY <2>1, ObjectFields DEF CopiesTrack, Tracks
  <2>3. ASSUME NEW new \in Object, Replace(new, "others"), new.annGen <= obj.annGen
        PROVE  Kept
    <3>1. Deployed => new.annGen <= obj.gen + 1 /\ new.annGen # obj.gen + 1
      BY <2>2, <2>3, ObjectFields
    <3> QED BY <2>1, <2>3, <3>1, ReplaceKeeps DEF opVars
  <2>4. ASSUME NEW t \in Templates, Replace([obj EXCEPT !.spec.template = t], "others")
        PROVE  Kept
    <3> DEFINE new == [obj EXCEPT !.spec.template = t]
    <3>1. new \in Object /\ new.annGen = obj.annGen
      BY <2>1 DEF Object, WorkloadSpec
    <3>2. Replace(new, "others")
      BY <2>4
    <3> HIDE DEF new
    <3> QED BY <2>2, <2>3, <3>1, <3>2
  <2>5. ASSUME NEW l \in Labels, Replace([obj EXCEPT !.labels = l], "others")
        PROVE  Kept
    <3> DEFINE new == [obj EXCEPT !.labels = l]
    <3>1. new \in Object /\ new.annGen = obj.annGen
      BY <2>1 DEF Object
    <3>2. Replace(new, "others")
      BY <2>5
    <3> HIDE DEF new
    <3> QED BY <2>2, <2>3, <3>1, <3>2
  <2>6. ASSUME Replace([obj EXCEPT !.annGen = 0], "others")
        PROVE  Kept
    <3> DEFINE new == [obj EXCEPT !.annGen = 0]
    <3>1. new \in Object /\ new.annGen = 0
      BY <2>1 DEF Object
    <3>2. Replace(new, "others")
      BY <2>6
    <3> HIDE DEF new
    <3> QED BY <2>2, <2>3, <3>1, <3>2
  <2>7. ASSUME Remove PROVE Kept
    BY <2>1, <2>7, RemoveKeeps DEF opVars
  <2>8. Kept
    BY <1>3, <2>4, <2>5, <2>6, <2>7 DEF OthersEdit
  <2> QED BY <1>0, <2>1, <2>8 DEF Kept, TypeOK, opVars, Exists
<1>4. CASE ConfigChanges
  <2>1. CopiesTrack' /\ CopiesStored'
    BY <1>4, QuietKeeps DEF ConfigChanges, opVars
  <2> QED BY <1>0, <1>4, <2>1 DEF ConfigChanges, Change, TypeOK, opVars, apiVars, Exists
<1>5. ASSUME Restart, release' \in Release, changes' \in Nat, faults' \in Nat
      PROVE  TrackInv'
  <2>1. Len(watch') = 0 /\ watch' \in Seq(Object)
    BY <1>5 DEF Restart
  <2>2. TypeOK' /\ pc' = "idle"
    BY <1>0, <1>5, <2>1 DEF Restart, TypeOK, PC
  <2>3. CopiesTrack' /\ CopiesStored'
    BY <1>5, <2>1 DEF Restart, CopiesTrack, CopiesStored, Tracks, Deployed, Stored, Exists
  <2> QED BY <2>2, <2>3
<1>6. CASE Crash
  BY <1>5, <1>6 DEF Crash, TypeOK
<1>7. CASE Upgrade
  <2>1. release' \in Release
    BY <1>7, AssetTypes DEF Upgrade, Restart, TypeOK, Release, Assets
  <2> QED BY <1>5, <1>7, <2>1 DEF Upgrade, Change, TypeOK
<1>8. CASE OtherRequest
  <2>1. CopiesTrack' /\ CopiesStored'
    BY <1>8, QuietKeeps DEF OtherRequest, envVars
  <2> QED BY <1>0, <1>8, <2>1 DEF OtherRequest, TypeOK, apiVars, envVars, Exists
<1> QED BY <1>1, <1>2, <1>3, <1>4, <1>6, <1>7, <1>8

(* The inductive invariant holds: initially and after every step.          *)
LEMMA TrackInvariant == Spec => []TrackInv
<1>1. Init => TrackInv
  <2> SUFFICES ASSUME Init PROVE TrackInv
    OBVIOUS
  <2>1. obj = Nothing /\ cache = Nothing /\ seen = Nothing /\ latest = 0 /\ watch = << >>
    BY DEF Init
  <2>2. 1 \in Release
    BY AssetTypes DEF Init
  <2>0. foreign \in BOOLEAN /\ queued \in BOOLEAN /\ unread \in BOOLEAN
    BY DEF Init
  <2>3. TypeOK
    BY <2>0, <2>1, <2>2, AssetTypes DEF Init, TypeOK, PC
  <2>4. CopiesTrack /\ CopiesStored
    BY <2>1, <2>3, AssetTypes DEF TypeOK, CopiesTrack, CopiesStored, Tracks, Stored, Exists
  <2> QED BY <2>3, <2>4 DEF TrackInv, Init
<1>2. TrackInv /\ [Next]_vars => TrackInv'
  <2> SUFFICES ASSUME TrackInv, [Next]_vars PROVE TrackInv'
    OBVIOUS
  <2>0. ASSUME workload' = workload PROVE Release' = Release
    BY <2>0, SameReleases
  <2>1. CASE StartApply
    <3>1. CopiesTrack' /\ CopiesStored'
      BY <2>1, QuietKeeps DEF StartApply, TrackInv, envVars
    <3> QED BY <2>0, <2>1, <3>1 DEF StartApply, TrackInv, TypeOK, PC, apiVars, envVars, Exists
  <2>2. CASE ApplyWorkload
    BY <2>2, ApplyKeeps
  <2>3. CASE calculateRelatedConfigsHashFails \/ CallFails \/ AnswerLost
    BY <2>3, FailureKeeps
  <2>4. CASE UNCHANGED vars
    <3>1. CopiesTrack' /\ CopiesStored'
      BY <2>4, QuietKeeps DEF vars, opVars, envVars, TrackInv
    <3> QED BY <2>0, <2>4, <3>1 DEF TrackInv, TypeOK, vars, opVars, envVars, apiVars, Exists
  <2> QED BY <2>1, <2>2, <2>3, <2>4, EnvironmentKeeps
        DEF Next, Operator, applyDeployment, applyDaemonSet
<1> QED BY <1>1, <1>2, PTL DEF Spec

(* A workload and every copy of it stay well formed.                       *)
THEOREM WorkloadTypes == Spec => []TypeOK
BY TrackInvariant, PTL DEF TrackInv

(* Which action a step of the apply call is, by where the call stands.     *)
LEMMA StepAt ==
    ASSUME Next
    PROVE  /\ pc = "get" /\ pc' = "idle" /\ result' = "unchanged" => GetExisting
           /\ pc = "update" /\ pc' = "idle" /\ result' = "updated" => UpdateWorkload
           /\ pc = "delete" /\ pc' = "recreate" => DeleteExisting
BY DEF Next, Operator, applyDeployment, applyDaemonSet, ApplyWorkload, StartApply,
  annotatePodSpecWithRelatedConfigsHash, GetExisting, CreateWorkload, DryRun, DeleteExisting,
  UpdateWorkload, calculateRelatedConfigsHashFails, CallFails, AnswerLost, Goto, Return,
  DeliverWorkload, DeliverConfig, OthersEdit,
  ConfigChanges, OtherRequest, Crash, Upgrade, Restart, opVars

(* "Nothing to do" is true of every Deployment: applyDeployment returns    *)
(* false only for a copy that runs the required spec.                      *)
THEOREM SkippedDeploymentsAreInSync == Spec => SkippedDeploymentInSync
<1>1. TrackInv /\ [Next]_vars
        => [workload.kind = "Deployment" /\ Skips => cache.spec = required.spec]_vars
  <2> SUFFICES ASSUME TrackInv, Next, workload.kind = "Deployment", Skips
               PROVE  cache.spec = required.spec
    BY DEF vars
  <2>1. GetExisting
    BY StepAt DEF Skips
  <2>2. Exists(cache) /\ UpToDate(cache)
    BY <2>1 DEF GetExisting, Skips, Goto
  <2> QED BY <2>2 DEF UpToDate, Modified, TrackInv, CopiesTrack, Tracks, Deployed
<1> QED BY <1>1, TrackInvariant, PTL DEF Spec, SkippedDeploymentInSync

(* "Updated" is true of every Deployment: a reported update has stored a   *)
(* new version.                                                            *)
THEOREM UpdatedDeploymentsChange == Spec => UpdatedDeploymentChanges
<1> DEFINE Updates == /\ workload.kind = "Deployment"
                      /\ pc = "update" /\ pc' = "idle" /\ result' = "updated"
<1>1. TrackInv /\ [Next]_vars => [Updates => obj' # obj]_vars
  <2> SUFFICES ASSUME TrackInv, Next, Updates PROVE obj' # obj
    BY DEF vars
  <2>1. UpdateWorkload
    BY StepAt
  <2>2. seen.rv = obj.rv /\ Replace(ToWrite, "operator") /\ UNCHANGED <<workload, cache, seen>>
    BY <2>1 DEF UpdateWorkload, CanUpdate, Return, envVars
  <2>3. /\ ToWrite \in Object /\ Exists(obj) /\ ToWrite # obj
        /\ ToWrite.annGen = obj.gen + 1 /\ ToWrite.spec = ToWrite.hash
    BY <2>2, UpdateFacts DEF Deployed
  <2>4. ToWrite.annGen <= obj.gen + 1
    BY <2>3, ObjectFields DEF TrackInv, TypeOK
  <2> QED BY <2>2, <2>3, <2>4, ReplaceKeeps DEF TrackInv
<1> QED BY <1>1, TrackInvariant, PTL DEF Spec, UpdatedDeploymentChanges

(* A Deployment or DaemonSet is deleted, to be created with another        *)
(* selector, only for a replacement the dry run has accepted.              *)
THEOREM DeletesAreValidated == Spec => DeletesOnlyForValid
<1>1. TrackInv /\ [Next]_vars
        => [pc = "delete" /\ pc' = "recreate" => required.valid]_vars
  BY DEF TrackInv, vars
<1> QED BY <1>1, TrackInvariant, PTL DEF Spec, DeletesOnlyForValid
-----------------------------------------------------------------------------
(* Coming to rest.  The newest version the informer will have is the one   *)
(* stored; without a request pending, the call under way wants what the    *)
(* release and the sources ask for; and one that nothing follows found the *)
(* cache as it should be.                                                  *)

Wanted == [spec |-> SpecOf(release, IF unread THEN NoConfig ELSE configSeen),
           labels |-> Asset.labels, valid |-> Asset.valid]

Settled(o) ==
    /\ Exists(o)
    /\ o.hash = Wanted.spec /\ o.labels = Wanted.labels
    /\ Deployed => o.spec = o.hash /\ result = "unchanged"

Delivers == IF watch = << >> THEN cache = obj ELSE watch[Len(watch)] = obj

RestInv ==
    /\ Delivers
    /\ ~queued /\ pc \notin {"idle", "annotate"} => required = Wanted
    /\ ~queued /\ pc = "idle" /\ watch = << >> => Settled(cache)

(* What the release asks for depends on nothing else.                      *)
LEMMA SameWanted ==
    ASSUME UNCHANGED <<workload, release, configSeen, unread>> PROVE Wanted' = Wanted
BY DEF Wanted, Asset, Assets, SpecOf

(* A version just stored or removed is the last the watch will deliver.    *)
LEMMA StoreDelivers ==
    ASSUME TypeOK, obj' \in Object, watch' = Append(watch, obj')
    PROVE  Delivers' /\ watch' # << >>
<1>1. Len(watch') = Len(watch) + 1 /\ watch'[Len(watch) + 1] = obj' /\ Len(watch) \in Nat
  BY DEF TypeOK
<1>2. watch' # << >>
  BY <1>1
<1> QED BY <1>1, <1>2 DEF Delivers

(* Nothing stored, nothing received.                                       *)
LEMMA QuietDelivers ==
    ASSUME Delivers, UNCHANGED <<apiVars, cache>> PROVE Delivers'
BY DEF Delivers, apiVars

(* An accepted write of another object is announced.                       *)
LEMMA ReplaceDelivers ==
    ASSUME TypeOK, obj' \in Object, Delivers, NEW new, NEW by, Replace(new, by),
           cache' = cache
    PROVE  Delivers' /\ (watch' = << >> => new = obj /\ UNCHANGED apiVars)
<1>1. CASE new = obj
  BY <1>1, QuietDelivers DEF Replace
<1>2. CASE new # obj
  BY <1>2, StoreDelivers DEF Replace, Store
<1> QED BY <1>1, <1>2

(* The apply call comes to rest only on a cache that is as it should be.   *)
LEMMA ApplySettles ==
    ASSUME TrackInv, TrackInv', RestInv, ApplyWorkload PROVE RestInv'
<1> USE DEF RestInv
<1>0. TypeOK /\ obj' \in Object
  BY DEF TrackInv, TypeOK
<1>1. UNCHANGED envVars /\ (unread' = unread => Wanted' = Wanted)
  <2>1. UNCHANGED envVars
    BY DEF ApplyWorkload, annotatePodSpecWithRelatedConfigsHash, GetExisting, CreateWorkload,
      DryRun, DeleteExisting, UpdateWorkload
  <2> QED BY <2>1, SameWanted DEF envVars
<1>2. CASE annotatePodSpecWithRelatedConfigsHash
  <2>1. required' = Wanted' /\ pc' = "get" /\ UNCHANGED apiVars
    BY <1>1, <1>2 DEF annotatePodSpecWithRelatedConfigsHash, Requires, Wanted, SpecOf, Asset,
      Assets, Goto, envVars
  <2> QED BY <1>1, <2>1, QuietDelivers DEF envVars
<1>3. CASE GetExisting
  <2>1. UNCHANGED <<required, unread, apiVars, cache, workload>> /\ pc = "get" /\ pc' # "annotate" /\ queued' = queued
    BY <1>1, <1>3 DEF GetExisting, Goto, Return, envVars, TrackInv, TypeOK
  <2>2. Delivers'
    BY <2>1, QuietDelivers
  <2>3. ASSUME pc' = "idle", ~queued' PROVE Settled(cache)'
    <3>1. Exists(cache) /\ UpToDate(cache) /\ result' = "unchanged"
      BY <1>3, <2>3 DEF GetExisting, Goto, Return
    <3>2. required = Wanted
      BY <2>1, <2>3
    <3>3. Deployed => cache.spec = cache.hash
      BY <3>1 DEF UpToDate, TrackInv, CopiesTrack, Tracks
    <3> QED BY <1>1, <2>1, <3>1, <3>2, <3>3 DEF Settled, UpToDate, Modified, Exists, Deployed
  <2> QED BY <1>1, <2>1, <2>2, <2>3
<1>4. ASSUME NEW at \in {"create", "recreate"}, CreateWorkload(at) PROVE RestInv'
  <2>1. CASE ~CanCreate
    <3>1. UNCHANGED apiVars /\ queued' /\ cache' = cache
      BY <1>1, <1>4, <2>1 DEF CreateWorkload, Return, envVars
    <3> QED BY <3>1, QuietDelivers
  <2>2. CASE CanCreate
    <3>1. watch' = Append(watch, obj') /\ pc' = "idle"
      BY <1>4, <2>2 DEF CreateWorkload, Created, Return, Store
    <3> QED BY <1>0, <3>1, StoreDelivers
  <2> QED BY <2>1, <2>2
<1>5. CASE DryRun
  <2>1. UNCHANGED <<required, unread, apiVars, cache>> /\ pc = "dryRun" /\ (queued' \/ (pc' = "delete" /\ queued' = queued))
    BY <1>1, <1>5 DEF DryRun, Goto, Return, envVars
  <2> QED BY <1>1, <2>1, QuietDelivers
<1>6. CASE DeleteExisting
  <2>1. UNCHANGED <<required, unread, cache, queued>> /\ pc = "delete" /\ pc' = "recreate"
    BY <1>1, <1>6 DEF DeleteExisting, Goto, envVars
  <2>2. Delivers'
    BY <1>0, <1>6, <2>1, QuietDelivers, StoreDelivers DEF DeleteExisting, Remove
  <2> QED BY <1>1, <2>1, <2>2
<1>7. CASE UpdateWorkload
  <2>1. CASE CanUpdate
    <3>1. /\ Replace(ToWrite, "operator") /\ pc = "update" /\ pc' = "idle"
          /\ UNCHANGED <<queued, cache, unread>>
      BY <1>0, <1>1, <1>7, <2>1 DEF UpdateWorkload, Return, envVars, TypeOK
    <3>2. Delivers' /\ (watch' = << >> => ToWrite = obj /\ UNCHANGED apiVars)
      BY <1>0, <3>1, ReplaceDelivers
    <3>3. ASSUME ~queued', watch' = << >> PROVE Settled(cache)'
      <4>1. ToWrite = obj /\ watch = << >> /\ obj' = obj /\ cache = obj
        BY <3>2, <3>3 DEF apiVars, Delivers
      <4>2. Exists(obj) /\ ~Deployed
        BY <2>1, <3>1, <4>1, UpdateFacts DEF CanUpdate
      <4>3. required = Wanted
        BY <3>1, <3>3
      <4>4. ToWrite.hash = required.spec /\ ToWrite.labels = required.labels
        BY DEF TrackInv, TypeOK, Object, ToWrite
      <4> QED BY <1>1, <3>1, <4>1, <4>2, <4>3, <4>4 DEF Settled, Exists, Deployed, envVars
    <3> QED BY <3>1, <3>2, <3>3
  <2>2. CASE ~CanUpdate
    <3>1. UNCHANGED apiVars /\ queued' /\ cache' = cache
      BY <1>1, <1>7, <2>2 DEF UpdateWorkload, Return, envVars
    <3> QED BY <3>1, QuietDelivers
  <2> QED BY <2>1, <2>2
<1> QED BY <1>2, <1>3, <1>4, <1>5, <1>6, <1>7 DEF ApplyWorkload

(* A failed call is followed by another.                                   *)
LEMMA FailureSettles ==
    ASSUME TrackInv, TrackInv', RestInv,
           calculateRelatedConfigsHashFails \/ CallFails \/ AnswerLost
    PROVE  RestInv'
<1> USE DEF RestInv
<1>0. TypeOK /\ obj' \in Object
  BY DEF TrackInv, TypeOK
<1>1. CASE calculateRelatedConfigsHashFails
  <2>1. UNCHANGED <<apiVars, cache, workload, release, configSeen>>
    BY <1>1 DEF calculateRelatedConfigsHashFails, Fault
  <2>2. required' = Wanted' /\ pc' = "get"
    BY <1>1, <2>1 DEF calculateRelatedConfigsHashFails, Requires, Wanted, SpecOf, Asset, Assets, Goto
  <2> QED BY <2>1, <2>2, QuietDelivers
<1>2. CASE CallFails
  <2>1. queued' /\ UNCHANGED <<apiVars, cache>>
    BY <1>2 DEF CallFails, Fault, Return
  <2> QED BY <2>1, QuietDelivers
<1>3. CASE AnswerLost
  <2>1. queued' /\ cache' = cache
    BY <1>3 DEF AnswerLost, Fault, Return
  <2>2. Delivers'
    <3>1. CASE watch' = Append(watch, obj')
      BY <1>0, <3>1, StoreDelivers
    <3>2. CASE Replace(ToWrite, "operator")
      BY <1>0, <2>1, <3>2, ReplaceDelivers
    <3> QED BY <1>3, <3>1, <3>2 DEF AnswerLost, Created, Store, Remove
  <2> QED BY <2>1, <2>2
<1> QED BY <1>1, <1>2, <1>3

(* What others store, and what the informers receive, is never missed.     *)
LEMMA EnvironmentSettles ==
    ASSUME TrackInv, TrackInv', RestInv,
           \/ DeliverWorkload \/ DeliverConfig \/ OthersEdit \/ ConfigChanges
           \/ OtherRequest \/ Crash \/ Upgrade
    PROVE  RestInv'
<1> USE DEF RestInv
<1>0. TypeOK /\ obj' \in Object
  BY DEF TrackInv, TypeOK
<1>1. CASE DeliverWorkload
  <2>1. watch # << >> /\ cache' = Head(watch) /\ watch' = Tail(watch) /\ obj' = obj /\ queued'
    BY <1>1 DEF DeliverWorkload
  <2>2. watch[Len(watch)] = obj /\ Len(watch) \in Nat /\ Len(watch) > 0
    BY <1>0, <2>1 DEF Delivers, TypeOK
  <2>3. Delivers'
    <3>1. CASE Len(watch) = 1
      <4>1. cache' = obj' /\ Len(watch') = 0
        BY <1>0, <2>1, <2>2, <3>1 DEF TypeOK
      <4>2. watch' = << >>
        BY <1>0, <2>1, <4>1 DEF TypeOK
      <4> QED BY <4>1, <4>2 DEF Delivers
    <3>2. CASE Len(watch) > 1
      <4>1. Len(watch') = Len(watch) - 1 /\ watch'[Len(watch) - 1] = watch[Len(watch)]
        BY <1>0, <2>1, <2>2, <3>2 DEF TypeOK
      <4>2. watch' # << >>
        BY <2>2, <3>2, <4>1
      <4> QED BY <2>1, <2>2, <4>1, <4>2 DEF Delivers
    <3>3. Len(watch) = 1 \/ Len(watch) > 1
      <4>1. \A n \in Nat : n > 0 => n = 1 \/ n > 1
        OBVIOUS
      <4> QED BY <2>2, <4>1
    <3> QED BY <3>1, <3>2, <3>3
  <2> QED BY <2>1, <2>3
<1>2. CASE DeliverConfig
  <2>1. queued' /\ UNCHANGED <<apiVars, cache>>
    BY <1>2 DEF DeliverConfig
  <2> QED BY <2>1, QuietDelivers
<1>3. CASE OthersEdit
  <2>1. UNCHANGED <<queued, pc, required, unread, result, workload, cache, configSeen, release>>
    BY <1>3 DEF OthersEdit, opVars
  <2>2. Wanted' = Wanted
    BY <2>1, SameWanted
  <2>3. Delivers' /\ (watch' = << >> => UNCHANGED apiVars)
    <3>1. CASE watch' = Append(watch, obj')
      BY <1>0, <3>1, StoreDelivers
    <3>2. CASE \E new : Replace(new, "others")
      BY <1>0, <2>1, <3>2, ReplaceDelivers
    <3> QED BY <1>3, <3>1, <3>2 DEF OthersEdit, Remove
  <2>4. watch' = << >> => watch = << >>
    BY <2>3 DEF apiVars
  <2> QED BY <2>1, <2>2, <2>3, <2>4 DEF Settled, Exists, Deployed
<1>4. CASE ConfigChanges
  <2>1. UNCHANGED <<queued, pc, required, unread, result, workload, cache, configSeen, release,
                    apiVars>>
    BY <1>4 DEF ConfigChanges, opVars
  <2>2. Wanted' = Wanted /\ Delivers'
    BY <2>1, SameWanted, QuietDelivers
  <2> QED BY <2>1, <2>2 DEF Settled, Exists, Deployed, apiVars
<1>5. CASE Restart
  BY <1>5 DEF Restart, Delivers
<1>6. CASE OtherRequest
  <2>1. queued' /\ UNCHANGED <<apiVars, cache>>
    BY <1>6 DEF OtherRequest, envVars
  <2> QED BY <2>1, QuietDelivers
<1> QED BY <1>1, <1>2, <1>3, <1>4, <1>5, <1>6 DEF Crash, Upgrade

(* The invariant of coming to rest holds.                                  *)
LEMMA RestInvariant == Spec => []RestInv
<1>1. Init => RestInv
  BY DEF Init, RestInv, Delivers
<1>2. TrackInv /\ TrackInv' /\ RestInv /\ [Next]_vars => RestInv'
  <2> SUFFICES ASSUME TrackInv, TrackInv', RestInv, [Next]_vars PROVE RestInv'
    OBVIOUS
  <2>1. CASE StartApply
    <3>1. Delivers' /\ pc' = "annotate"
      BY <2>1, QuietDelivers DEF StartApply, RestInv, envVars
    <3> QED BY <3>1 DEF RestInv
  <2>2. CASE ApplyWorkload
    BY <2>2, ApplySettles
  <2>3. CASE calculateRelatedConfigsHashFails \/ CallFails \/ AnswerLost
    BY <2>3, FailureSettles
  <2>4. CASE UNCHANGED vars
    <3>1. UNCHANGED <<queued, pc, required, unread, result, workload, cache, configSeen, release,
                    apiVars>>
      BY <2>4 DEF vars, opVars, envVars
    <3>2. Wanted' = Wanted /\ Delivers'
      BY <3>1, SameWanted, QuietDelivers DEF RestInv
    <3> QED BY <3>1, <3>2 DEF RestInv, Settled, Exists, Deployed, apiVars
  <2> QED BY <2>1, <2>2, <2>3, <2>4, EnvironmentSettles
        DEF Next, Operator, applyDeployment, applyDaemonSet
<1> QED BY <1>1, <1>2, TrackInvariant, PTL DEF Spec

(* The operator never comes to rest short of its goal: when no apply call  *)
(* of applyDeployment or applyDaemonSet is under way or asked for and the  *)
(* informers are current, the workload has the labels and the spec-hash of *)
(* the running release with the current configuration (without its hash,   *)
(* if the last call failed to read it), and a Deployment runs that spec.   *)
THEOREM SettledAtRestHolds == Spec => []SettledAtRest
<1>1. RestInv => SettledAtRest
  BY DEF RestInv, SettledAtRest, AtRest, Delivers, Settled, Wanted, Deployed, Exists
<1> QED BY <1>1, RestInvariant, PTL

-----------------------------------------------------------------------------
(* An apply call is one step.  The object a call requires is the one of    *)
(* the running release, whatever it has read of the related sources; and   *)
(* what this process wrote last stays as it is, until others change it.    *)
CallInv ==
    /\ pc \notin {"idle", "annotate"}
         => /\ required.spec.template = Asset.template
            /\ required.spec.selector = Asset.selector
            /\ required.labels = Asset.labels
    /\ ~foreign => watch = << >> \/ AsShipped(obj)

CallStep == [Call!Next]_<<AsShipped(obj), foreign, Due, Outcome>>

(* Whether a version is as shipped depends on it and on the release.       *)
LEMMA SameShipped ==
    ASSUME UNCHANGED <<workload, release>>
    PROVE  /\ Asset' = Asset
           /\ obj' = obj => AsShipped(obj)' = AsShipped(obj)
BY DEF AsShipped, Exists, Asset, Assets

(* A version written from what the call requires is as shipped.            *)
LEMMA StoreShips ==
    ASSUME TypeOK, CallInv, pc \notin {"idle", "annotate"},
           UNCHANGED <<workload, release>>,
           NEW o \in Object, Store(o, "operator"), o.spec = required.spec, o.hash = required.spec,
           o.labels = required.labels
    PROVE  AsShipped(obj)' /\ foreign' = FALSE
<1>1. latest \in Nat /\ obj' = [o EXCEPT !.rv = latest + 1] /\ foreign' = FALSE
  BY DEF TypeOK, Store
<1> DEFINE n == latest + 1
<1>2. n \in Nat /\ n # 0 /\ obj' = [o EXCEPT !.rv = n]
  BY <1>1
<1> HIDE DEF n
<1>3. /\ obj'.rv = n /\ obj'.spec = o.spec /\ obj'.hash = o.hash
      /\ obj'.labels = o.labels
  BY <1>2, WithVersion
<1> QED BY <1>1, <1>2, <1>3, SameShipped DEF CallInv, AsShipped, Exists

(* So is an update of the version read, made or not necessary.             *)
LEMMA UpdateShips ==
    ASSUME TrackInv, CallInv, UNCHANGED <<workload, release>>,
           pc = "update", CanUpdate, Replace(ToWrite, "operator")
    PROVE  /\ AsShipped(obj)'
           /\ foreign' = FALSE \/ UNCHANGED <<apiVars, AsShipped(obj)>>
<1>0. TypeOK /\ seen \in Object /\ obj \in Object
      /\ required.spec \in WorkloadSpec /\ required.labels \in Labels
  BY DEF TrackInv, TypeOK
<1>1. ToWrite \in Object /\ Exists(obj)
  BY UpdateFacts DEF CanUpdate
<1>2. seen.gen + 1 \in Nat
  BY <1>0, ObjectFields
<1> DEFINE n == seen.gen + 1
<1>3. n \in Nat /\ ToWrite = [seen EXCEPT !.spec = required.spec, !.hash = required.spec,
                                          !.labels = required.labels, !.annGen = n]
  BY <1>2 DEF ToWrite
<1> HIDE DEF n
<1>4. /\ ToWrite.spec = required.spec /\ ToWrite.hash = required.spec
      /\ ToWrite.labels = required.labels
  BY <1>0, <1>3 DEF Object
<1>5. CASE ToWrite = obj
  <2>1. UNCHANGED apiVars
    BY <1>5 DEF Replace
  <2>2. AsShipped(obj)
    BY <1>1, <1>4, <1>5 DEF CallInv, AsShipped
  <2> QED BY <2>1, <2>2, SameShipped DEF apiVars
<1>6. CASE ToWrite # obj
  <2> DEFINE g == IF GenerationAdvances(obj, ToWrite) THEN obj.gen + 1 ELSE obj.gen
             o == [ToWrite EXCEPT !.gen = g]
  <2>1. Store(o, "operator")
    BY <1>6 DEF Replace
  <2>2. g \in Nat
    BY <1>0, ObjectFields
  <2> HIDE DEF g
  <2>3. o \in Object /\ o.spec = ToWrite.spec /\ o.hash = ToWrite.hash /\ o.labels = ToWrite.labels
    BY <1>1, <2>2 DEF Object
  <2> HIDE DEF o
  <2> QED BY <1>0, <1>4, <2>1, <2>3, StoreShips
<1> QED BY <1>5, <1>6

(* So is a creation.                                                       *)
LEMMA CreateShips ==
    ASSUME TypeOK, CallInv, UNCHANGED <<workload, release>>,
           pc \in {"create", "recreate"}, Created
    PROVE  AsShipped(obj)' /\ foreign' = FALSE
<1> DEFINE o == [rv |-> 0, gen |-> 1, annGen |-> 1, spec |-> required.spec,
                 hash |-> required.spec, labels |-> required.labels]
<1>1. Store(o, "operator")
  BY DEF Created
<1>2. o \in Object /\ o.spec = required.spec /\ o.hash = required.spec /\ o.labels = required.labels
  BY DEF Object, TypeOK
<1> HIDE DEF o
<1> QED BY <1>1, <1>2, StoreShips

(* A deletion is announced, and leaves nothing as shipped.                 *)
LEMMA RemoveDisturbs ==
    ASSUME TypeOK, Remove, obj' \in Object PROVE ~AsShipped(obj)' /\ foreign' = TRUE /\ Due'
<1>1. obj' = [obj EXCEPT !.rv = 0] /\ obj \in Object /\ watch' = Append(watch, obj')
  BY DEF Remove, TypeOK
<1>2. obj'.rv = 0
  BY <1>1 DEF Object
<1>3. watch' # << >>
  BY <1>1, StoreDelivers
<1> QED BY <1>2, <1>3 DEF AsShipped, Exists, Remove, Due

(* Within a call nothing shows but its end and the deletion on the way.    *)
LEMMA ApplySteps ==
    ASSUME TrackInv, TrackInv', RestInv, CallInv, StartApply \/ ApplyWorkload
    PROVE  CallStep /\ CallInv'
<1>0. TypeOK /\ obj' \in Object /\ result # "running"
  BY DEF TrackInv, TypeOK
<1>1. UNCHANGED <<workload, release, cache>>
  BY DEF StartApply, ApplyWorkload, annotatePodSpecWithRelatedConfigsHash, GetExisting,
    CreateWorkload, DryRun, DeleteExisting, UpdateWorkload, envVars
<1>2. /\ Asset' = Asset
      /\ obj' = obj => AsShipped(obj)' = AsShipped(obj)
  BY <1>1, SameShipped
<1>3. CASE StartApply
  <2>1. pc = "idle" /\ pc' = "annotate" /\ UNCHANGED apiVars
    BY <1>3 DEF StartApply
  <2>2. CallInv'
    BY <1>2, <2>1 DEF CallInv, apiVars
  <2> QED BY <1>0, <1>2, <2>1, <2>2 DEF CallStep, Call!Next, Call!Begin, Outcome, apiVars
<1>4. CASE annotatePodSpecWithRelatedConfigsHash
  <2>1. /\ pc = "annotate" /\ pc' = "get" /\ UNCHANGED <<apiVars, queued>>
        /\ required'.spec = SpecOf(release, configSeen) /\ required'.labels = Asset.labels
    BY <1>4 DEF annotatePodSpecWithRelatedConfigsHash, Requires, Goto
  <2>2. CallInv'
    BY <1>2, <2>1 DEF CallInv, apiVars, SpecOf, Asset
  <2> QED BY <1>2, <2>1, <2>2 DEF CallStep, Outcome, Due, apiVars
<1>5. ASSUME pc # "idle", pc' # "idle", pc # "annotate",
             UNCHANGED <<apiVars, queued, required>>
      PROVE  CallStep /\ CallInv'
  <2>1. CallInv'
    BY <1>2, <1>5 DEF CallInv, apiVars
  <2> QED BY <1>2, <1>5, <2>1 DEF CallStep, Outcome, Due, apiVars
<1>6. ASSUME pc \notin {"idle", "annotate"}, Return("error"), UNCHANGED apiVars
      PROVE  CallStep /\ CallInv'
  <2>1. CallInv' /\ Due' /\ Outcome = "running" /\ Outcome' = "error"
    BY <1>2, <1>6 DEF CallInv, apiVars, Return, Due, Outcome
  <2> QED BY <1>2, <1>6, <2>1 DEF CallStep, Call!Next, Call!Fail, apiVars
<1>7. ASSUME pc \notin {"idle", "annotate"}, Return("updated"), AsShipped(obj)',
             foreign' \in {foreign, FALSE}
      PROVE  CallStep /\ CallInv'
  <2>1. CallInv' /\ Outcome = "running" /\ Outcome' = "updated"
    BY <1>7 DEF CallInv, Return, Outcome
  <2> QED BY <1>7, <2>1 DEF CallStep, Call!Next, Call!Updated
<1>8. CASE GetExisting
  <2>1. pc = "get" /\ UNCHANGED <<apiVars, required>> /\ queued' \in {queued, TRUE}
    BY <1>0, <1>8 DEF GetExisting, Goto, Return, TypeOK
  <2>2. CASE pc' # "idle"
    <3>1. UNCHANGED queued
      BY <1>8, <2>2 DEF GetExisting, Goto, Return
    <3> QED BY <1>5, <2>1, <2>2, <3>1
  <2>3. CASE Exists(cache) /\ UpToDate(cache) /\ Return("unchanged")
    <3>1. AsShipped(cache)
      BY <2>1, <2>3 DEF UpToDate, Modified, CallInv, AsShipped, TrackInv, CopiesTrack, Tracks,
        Deployed
    <3>2. AsShipped(obj) \/ (foreign /\ Due)
      BY <3>1 DEF RestInv, Delivers, CallInv, Due
    <3>3. /\ UNCHANGED <<AsShipped(obj), foreign, Due>>
          /\ Outcome = "running" /\ Outcome' = "unchanged" /\ CallInv'
      BY <1>0, <1>2, <2>1, <2>3 DEF Return, Due, Outcome, apiVars, CallInv, TypeOK
    <3> QED BY <3>2, <3>3 DEF CallStep, Call!Next, Call!Unchanged
  <2> QED BY <1>8, <2>2, <2>3 DEF GetExisting, Goto
<1>9. ASSUME NEW at \in {"create", "recreate"}, CreateWorkload(at) PROVE CallStep /\ CallInv'
  <2>1. CASE ~CanCreate
    BY <1>6, <1>9, <2>1 DEF CreateWorkload
  <2>2. CASE CanCreate
    <3>1. pc \in {"create", "recreate"} /\ Created /\ Return("updated")
      BY <1>9, <2>2 DEF CreateWorkload
    <3> QED BY <1>0, <1>1, <1>7, <3>1, CreateShips
  <2> QED BY <2>1, <2>2
<1>10. CASE DryRun
  <2>1. pc = "dryRun" /\ UNCHANGED <<apiVars, required>>
    BY <1>10 DEF DryRun
  <2>2. CASE Return("error")
    BY <1>6, <2>1, <2>2
  <2>3. CASE Goto("delete")
    BY <1>5, <2>1, <2>3 DEF Goto
  <2> QED BY <1>10, <2>2, <2>3 DEF DryRun
<1>11. CASE DeleteExisting
  <2>1. pc = "delete" /\ pc' = "recreate" /\ UNCHANGED <<queued, required>>
    BY <1>11 DEF DeleteExisting, Goto
  <2>2. CASE UNCHANGED apiVars
    BY <1>5, <2>1, <2>2
  <2>3. CASE Remove
    <3>1. foreign' = TRUE /\ Due' /\ UNCHANGED Outcome
      BY <1>0, <2>1, <2>3, RemoveDisturbs DEF Outcome
    <3>2. CallInv'
      BY <1>2, <2>1, <3>1 DEF CallInv
    <3> QED BY <3>1, <3>2 DEF CallStep, Call!Next, Call!Disturb
  <2> QED BY <1>11, <2>2, <2>3 DEF DeleteExisting
<1>12. CASE UpdateWorkload
  <2>1. CASE ~CanUpdate
    BY <1>6, <1>12, <2>1 DEF UpdateWorkload
  <2>2. CASE CanUpdate
    <3>1. pc = "update" /\ Replace(ToWrite, "operator") /\ Return("updated")
      BY <1>12, <2>2 DEF UpdateWorkload
    <3>2. AsShipped(obj)' /\ foreign' \in {foreign, FALSE}
      BY <1>1, <2>2, <3>1, UpdateShips DEF apiVars
    <3> QED BY <1>7, <3>1, <3>2
  <2> QED BY <2>1, <2>2
<1> QED BY <1>3, <1>4, <1>8, <1>9, <1>10, <1>11, <1>12 DEF ApplyWorkload

(* A call that fails has changed nothing, written all of it, or deleted.   *)
LEMMA FailureSteps ==
    ASSUME TrackInv, TrackInv', CallInv,
           calculateRelatedConfigsHashFails \/ CallFails \/ AnswerLost
    PROVE  CallStep /\ CallInv'
<1>0. TypeOK /\ obj' \in Object
  BY DEF TrackInv, TypeOK
<1>1. UNCHANGED <<workload, release, cache>>
  BY DEF calculateRelatedConfigsHashFails, CallFails, AnswerLost, Fault
<1>2. /\ Asset' = Asset
      /\ obj' = obj => AsShipped(obj)' = AsShipped(obj)
  BY <1>1, SameShipped
<1>3. CASE calculateRelatedConfigsHashFails
  <2>1. /\ pc = "annotate" /\ pc' = "get" /\ UNCHANGED <<apiVars, queued>>
        /\ required'.spec = SpecOf(release, NoConfig) /\ required'.labels = Asset.labels
    BY <1>3 DEF calculateRelatedConfigsHashFails, Requires, Goto
  <2>2. CallInv'
    BY <1>2, <2>1 DEF CallInv, apiVars, SpecOf, Asset
  <2> QED BY <1>2, <2>1, <2>2 DEF CallStep, Outcome, Due, apiVars
<1>4. ASSUME pc \notin {"idle", "annotate"}, Return("error"),
             \/ UNCHANGED <<AsShipped(obj), foreign, apiVars>>
             \/ AsShipped(obj)' /\ foreign' = FALSE
             \/ ~AsShipped(obj)' /\ foreign' = TRUE
      PROVE  CallStep /\ CallInv'
  <2>1. Due' /\ Outcome = "running" /\ Outcome' = "error"
    BY <1>4 DEF Return, Due, Outcome
  <2>2. CallInv'
    BY <1>4 DEF CallInv, apiVars, Return
  <2> QED BY <1>4, <2>1, <2>2 DEF CallStep, Call!Next, Call!Fail
<1>5. CASE CallFails
  <2>1. pc \notin {"idle", "annotate"} /\ Return("error") /\ UNCHANGED apiVars
    BY <1>5 DEF CallFails
  <2> QED BY <1>2, <1>4, <2>1 DEF apiVars
<1>6. CASE AnswerLost
  <2>1. pc \notin {"idle", "annotate"} /\ Return("error")
    BY <1>6 DEF AnswerLost
  <2>2. CASE pc \in {"create", "recreate"} /\ Created
    BY <1>0, <1>1, <1>4, <2>1, <2>2, CreateShips
  <2>3. CASE Remove
    BY <1>0, <1>4, <2>1, <2>3, RemoveDisturbs
  <2>4. CASE pc = "update" /\ CanUpdate /\ Replace(ToWrite, "operator")
    BY <1>1, <1>4, <2>1, <2>4, UpdateShips DEF apiVars
  <2> QED BY <1>6, <2>2, <2>3, <2>4 DEF AnswerLost
<1> QED BY <1>3, <1>5, <1>6

(* What others do is followed by a call.                                   *)
LEMMA EnvironmentSteps ==
    ASSUME TrackInv, TrackInv', CallInv,
           \/ DeliverWorkload \/ DeliverConfig \/ OthersEdit \/ ConfigChanges
           \/ OtherRequest \/ Restart
    PROVE  CallStep /\ CallInv'
<1>0. TypeOK /\ obj' \in Object
  BY DEF TrackInv, TypeOK
<1>1. CASE Restart
  BY <1>1 DEF Restart, CallInv, CallStep, Call!Next, Call!Restart, Outcome, Due
<1>2. CASE ~Restart
  <2>1. UNCHANGED <<workload, release, pc, required, result>>
    BY <1>2 DEF DeliverWorkload, DeliverConfig, OthersEdit, ConfigChanges, OtherRequest, opVars,
      envVars
  <2>2. /\ Asset' = Asset /\ Outcome' = Outcome
        /\ obj' = obj => AsShipped(obj)' = AsShipped(obj)
    BY <2>1, SameShipped DEF Outcome
  <2>3. ASSUME UNCHANGED <<obj, foreign>>, queued' = TRUE, watch' = << >> \/ watch # << >>
        PROVE  CallStep /\ CallInv'
    <3>1. Due' /\ CallInv'
      BY <2>1, <2>2, <2>3 DEF Due, CallInv
    <3> QED BY <2>2, <2>3, <3>1 DEF CallStep, Call!Next, Call!Ask
  <2>4. CASE DeliverWorkload
    BY <2>3, <2>4 DEF DeliverWorkload
  <2>5. CASE DeliverConfig \/ OtherRequest
    <3>1. UNCHANGED apiVars /\ queued' = TRUE
      BY <2>5 DEF DeliverConfig, OtherRequest
    <3> QED BY <2>3, <3>1 DEF apiVars
  <2>6. ASSUME UNCHANGED <<apiVars, queued>> PROVE CallStep /\ CallInv'
    BY <2>1, <2>2, <2>6 DEF CallStep, CallInv, Due, apiVars
  <2>7. ASSUME foreign' = TRUE, Due' PROVE CallStep /\ CallInv'
    BY <2>1, <2>2, <2>7 DEF CallStep, CallInv, Call!Next, Call!Disturb
  <2>8. CASE ConfigChanges
    BY <2>6, <2>8 DEF ConfigChanges, opVars
  <2>9. CASE OthersEdit
    <3>1. UNCHANGED queued
      BY <2>9 DEF OthersEdit, opVars
    <3>2. ASSUME NEW new, Replace(new, "others") PROVE CallStep /\ CallInv'
      <4>1. CASE new = obj
        BY <2>6, <3>1, <3>2, <4>1 DEF Replace
      <4>2. CASE new # obj
        <5>1. watch' = Append(watch, obj') /\ foreign' = TRUE
          BY <3>2, <4>2 DEF Replace, Store
        <5> QED BY <1>0, <2>7, <5>1, StoreDelivers DEF Due
      <4> QED BY <4>1, <4>2
    <3>3. CASE Remove
      BY <1>0, <2>7, <3>3, RemoveDisturbs
    <3> QED BY <2>9, <3>2, <3>3 DEF OthersEdit
  <2> QED BY <1>2, <2>4, <2>5, <2>8, <2>9
<1> QED BY <1>1, <1>2

(* A call of applyDeployment or applyDaemonSet is the one step StatusSync  *)
(* takes for it, for any number of releases, edits, deletions, failures    *)
(* and versions the cache lags behind: without an error it leaves what the *)
(* running release ships, unless the cache misses a change by others, and  *)
(* then another call is due.                                               *)
THEOREM WorkloadCallIsOneStep == Spec => CallIsOneStep
<1>1. Init => Call!Init /\ CallInv
  <2> SUFFICES ASSUME Init PROVE Call!Init /\ CallInv
    OBVIOUS
  <2>1. /\ obj = Nothing /\ watch = << >> /\ foreign = FALSE /\ queued = TRUE
        /\ pc = "idle" /\ result = "none"
    BY DEF Init
  <2>2. AsShipped(obj) = FALSE
    BY <2>1, AssetTypes DEF Init, AsShipped
  <2> QED BY <2>1, <2>2 DEF Call!Init, CallInv, Outcome, Due
<1>2. TrackInv /\ TrackInv' /\ RestInv /\ CallInv /\ [Next]_vars => CallStep /\ CallInv'
  <2> SUFFICES ASSUME TrackInv, TrackInv', RestInv, CallInv, [Next]_vars
               PROVE  CallStep /\ CallInv'
    OBVIOUS
  <2>1. CASE UNCHANGED vars
    <3>1. UNCHANGED <<workload, release, apiVars, pc, required, result, queued>>
      BY <2>1 DEF vars, opVars, envVars
    <3> QED BY <3>1, SameShipped DEF CallStep, CallInv, Due, Outcome, apiVars
  <2>2. CASE StartApply \/ ApplyWorkload
    BY <2>2, ApplySteps
  <2>3. CASE calculateRelatedConfigsHashFails \/ CallFails \/ AnswerLost
    BY <2>3, FailureSteps
  <2> QED BY <2>1, <2>2, <2>3, EnvironmentSteps
        DEF Next, Operator, applyDeployment, applyDaemonSet, Crash, Upgrade
<1> QED BY <1>1, <1>2, TrackInvariant, RestInvariant, PTL DEF Spec, CallIsOneStep, Call!Spec, CallStep
=============================================================================

---------------------------- MODULE OperandApply ----------------------------
(***************************************************************************)
(* How the operator applies every operand that is not a workload:          *)
(* ApplyResource of pkg/controllers/resourceapply and the apply functions  *)
(* it dispatches to.  They share one shape (cached Get; create, skip or    *)
(* update) and differ in what they compare before they skip and in what    *)
(* they write when they do not.  That difference is data here: a rule per  *)
(* kind, over the fields of the kind that the code tells apart.            *)
(***************************************************************************)
EXTENDS Integers, Sequences, FiniteSets

CONSTANTS
    Kinds,         \* the kinds of operand looked at
    Items,         \* what the contents of a field consist of
    Values,        \* contents of a field, sequences of items
    First,         \* contents the first release requires
    ChangeKinds,   \* what others do: "field", "label", "extra", "delete", "upgrade"
    FaultKinds,    \* what fails: "call", "crash"
    MaxChanges,    \* bound on the former
    MaxFaults,     \* bound on the latter
    MaxLag,        \* bound on the versions the watch has not delivered
    MaxRV          \* bound on the versions of the object

(* A field left out.                                                       *)
Unset == << >>

(* equality.Semantic.DeepDerivative: what the required contents leave out, *)
(* and elements that follow theirs, are not compared.                      *)
DeepDerivative(new, old) ==
    Len(new) <= Len(old) /\ \A i \in 1..Len(new) : new[i] = old[i]

(* compares: the fields whose difference makes the code write; derived:    *)
(* those of them compared by DeepDerivative; writes: the fields it then    *)
(* sets to the required contents; clears: those it sets to nothing;        *)
(* immutable: those whose change the API server refuses.                   *)
Rule(compares, derived, writes, clears, immutable) ==
    [compares |-> compares, derived |-> derived, writes |-> writes, clears |-> clears,
     immutable |-> immutable]

applyConfigMap == Rule({"data", "binaryData"}, {}, {"data", "binaryData"}, {}, {})

applyPodDisruptionBudget == Rule({"spec"}, {}, {"spec"}, {}, {})

applyRole == Rule({"rules"}, {}, {"rules"}, {}, {})

(* The aggregation rule is cleared by a write, and no reason for one.      *)
applyClusterRole == Rule({"rules"}, {}, {"rules"}, {"aggregationRule"}, {})

applyRoleBinding ==
    Rule({"subjects", "roleRef"}, {}, {"subjects", "roleRef"}, {}, {"roleRef"})

applyClusterRoleBinding ==
    Rule({"subjects", "roleRef"}, {}, {"subjects", "roleRef"}, {}, {"roleRef"})

(* "defaults" are the parts that the required spec leaves to the API       *)
(* server, a write clears and DeepDerivative does not look at.             *)
applyValidatingAdmissionPolicy == Rule({"spec"}, {"spec"}, {"spec"}, {"defaults"}, {})

applyValidatingAdmissionPolicyBinding ==
    Rule({"spec"}, {"spec"}, {"spec"}, {"defaults"}, {})

(* The whole spec is written, selector and type alone are compared.        *)
applyService == Rule({"selector", "type"}, {}, {"selector", "type", "ports"}, {}, {})

(* The dispatch on the type of the operand.                                *)
ApplyResource ==
    [ConfigMap |-> applyConfigMap,
     PodDisruptionBudget |-> applyPodDisruptionBudget,
     Role |-> applyRole,
     ClusterRole |-> applyClusterRole,
     RoleBinding |-> applyRoleBinding,
     ClusterRoleBinding |-> applyClusterRoleBinding,
     ValidatingAdmissionPolicy |-> applyValidatingAdmissionPolicy,
     ValidatingAdmissionPolicyBinding |-> applyValidatingAdmissionPolicyBinding,
     Service |-> applyService]

ASSUME KindsAssumption == Kinds \subseteq DOMAIN ApplyResource

ASSUME ValuesAssumption == Values \subseteq Seq(Items) /\ First \in Values

ASSUME BoundsAssumption ==
    MaxChanges \in Nat /\ MaxFaults \in Nat /\ MaxLag \in Nat /\ MaxRV \in Nat

VARIABLES
    kind,        \* the kind of the operand, fixed
    obj,         \* the operand in the API server
    latest,      \* the last resourceVersion given out
    watch,       \* versions the informer has not received yet
    foreign,     \* what is stored is neither what this process listed nor what it wrote
    cache,       \* the informer's copy
    required,    \* the contents the release of the running operator ships
    queued,      \* the operator has a pending request
    pc,          \* where the apply call stands
    seen,        \* the copy it has read
    result,      \* what the last call returned
    changes,     \* changes made by others so far
    faults       \* failures so far

apiVars == <<obj, latest, watch, foreign>>
opVars == <<queued, pc, seen, result>>
envVars == <<kind, cache, required, changes, faults>>
vars == <<apiVars, opVars, envVars>>

TheRule == ApplyResource[kind]

Fields == TheRule.compares \cup TheRule.writes \cup TheRule.clears

(* A version of the operand; rv = 0 is the absent object.  label is the    *)
(* metadata the operator requires, extra what others add to it.            *)
Object == [rv : Nat, label : BOOLEAN, extra : BOOLEAN, f : [Fields -> Values \cup {Unset}]]

Exists(o) == o.rv # 0

(* What a release may ship: immutable fields do not change with it.        *)
Release ==
    {c \in [Fields -> Values \cup {Unset}] :
        /\ \A x \in TheRule.clears : c[x] = Unset
        /\ \A x \in TheRule.writes : c[x] \in Values
        /\ \A x \in TheRule.immutable : c[x] = First}

Absent == [rv |-> 0, label |-> FALSE, extra |-> FALSE, f |-> [x \in Fields |-> Unset]]

TypeOK ==
    /\ kind \in Kinds
    /\ obj \in Object /\ cache \in Object /\ seen \in Object
    /\ latest \in 0..MaxRV
    /\ watch \in Seq(Object) /\ Len(watch) <= MaxLag
    /\ required \in Release
    /\ foreign \in BOOLEAN /\ queued \in BOOLEAN
    /\ pc \in {"idle", "get", "create", "update"}
    /\ result \in {"none", "unchanged", "updated", "error"}
    /\ changes \in 0..MaxChanges /\ faults \in 0..MaxFaults

Init ==
    /\ kind \in Kinds
    /\ obj = Absent /\ cache = Absent /\ seen = Absent
    /\ latest = 0 /\ watch = << >> /\ foreign = FALSE
    /\ required = [x \in Fields |-> IF x \in TheRule.clears THEN Unset ELSE First]
    /\ queued = TRUE /\ pc = "idle" /\ result = "none"
    /\ changes = 0 /\ faults = 0

-----------------------------------------------------------------------------
(* The API server.                                                         *)

CanStore == latest < MaxRV /\ Len(watch) < MaxLag

(* Stores what the operator or others wrote, and tells the watch.          *)
Announce(o, by) ==
    /\ CanStore
    /\ latest' = latest + 1
    /\ obj' = o
    /\ watch' = Append(watch, o)
    /\ foreign' = (by = "others")

(* An accepted update.  Writing what is already stored stores nothing.     *)
Replace(new, by) ==
    IF new = obj THEN UNCHANGED apiVars ELSE Announce([new EXCEPT !.rv = latest + 1], by)

(* An update is accepted when it was computed from the stored version and  *)
(* leaves the immutable fields alone.                                      *)
Accepts(new) ==
    /\ new.rv = obj.rv
    /\ \A x \in TheRule.immutable : new.f[x] = obj.f[x]

-----------------------------------------------------------------------------
(* The apply call, one action per call it makes.                           *)

Return(r) ==
    /\ pc' = "idle"
    /\ result' = r
    /\ queued' = (queued \/ r = "error")

Goto(next) == pc' = next /\ UNCHANGED <<queued, result>>

StartApply ==
    /\ pc = "idle" /\ queued
    /\ pc' = "get" /\ queued' = FALSE
    /\ UNCHANGED <<seen, result, apiVars, envVars>>

(* The contents of field x are, as far as the code compares them, those    *)
(* required.                                                               *)
Covers(x, contents) ==
    IF x \in TheRule.derived THEN DeepDerivative(required[x], contents)
                             ELSE contents = required[x]

Same(o) == o.label /\ \A x \in TheRule.compares : Covers(x, o.f[x])

GetExisting ==
    /\ pc = "get"
    /\ seen' = cache
    /\ \/ ~Exists(cache) /\ Goto("create")
       \/ Exists(cache) /\ Same(cache) /\ Return("unchanged")
       \/ Exists(cache) /\ ~Same(cache) /\ Goto("update")
    /\ UNCHANGED <<apiVars, envVars>>

Created ==
    Announce([rv |-> latest + 1, label |-> TRUE, extra |-> FALSE, f |-> required], "operator")

CreateOperand ==
    /\ pc = "create"
    /\ IF Exists(obj) THEN Return("error") /\ UNCHANGED apiVars
                      ELSE Created /\ Return("updated")
    /\ UNCHANGED <<seen, envVars>>

(* The copy read, with the required metadata merged in and the fields set. *)
ToWrite ==
    [seen EXCEPT !.label = TRUE,
                 !.f = [x \in Fields |-> IF x \in TheRule.writes \cup TheRule.clears
                                         THEN required[x] ELSE seen.f[x]]]

(* The bug of an update that does not carry the version read.              *)
UpdateOperandUnversioned ==
    /\ pc = "update"
    /\ IF Exists(obj) /\ Accepts([ToWrite EXCEPT !.rv = obj.rv])
       THEN Replace([ToWrite EXCEPT !.rv = obj.rv], "operator") /\ Return("updated")
       ELSE Return("error") /\ UNCHANGED apiVars
    /\ UNCHANGED <<seen, envVars>>

UpdateOperand ==
    /\ pc = "update"
    /\ IF Exists(obj) /\ Accepts(ToWrite)
       THEN Replace(ToWrite, "operator") /\ Return("updated")
       ELSE Return("error") /\ UNCHANGED apiVars
    /\ UNCHANGED <<seen, envVars>>

Fault(what) ==
    /\ what \in FaultKinds /\ faults < MaxFaults
    /\ faults' = faults + 1

(* The bug of reporting a failed write as "nothing updated".               *)
CallFailsSilently ==
    /\ pc \in {"get", "create", "update"}
    /\ Fault("call")
    /\ Return("unchanged")
    /\ UNCHANGED <<seen, apiVars, kind, cache, required, changes>>

(* The call under way fails and changes nothing.                           *)
CallFails ==
    /\ pc \in {"get", "create", "update"}
    /\ Fault("call")
    /\ Return("error")
    /\ UNCHANGED <<seen, apiVars, kind, cache, required, changes>>

(* The API server makes the write, but the answer does not arrive.         *)
AnswerLost ==
    /\ \/ pc = "create" /\ ~Exists(obj) /\ Created
       \/ pc = "update" /\ Exists(obj) /\ Accepts(ToWrite) /\ Replace(ToWrite, "operator")
    /\ Fault("call")
    /\ Return("error")
    /\ UNCHANGED <<seen, kind, cache, required, changes>>

Operator == StartApply \/ GetExisting \/ CreateOperand \/ UpdateOperand

-----------------------------------------------------------------------------
(* The informer, other clients, and the process.                           *)

(* The bug of an operand that is not watched.                              *)
DeliverUnwatched ==
    /\ watch # << >>
    /\ cache' = Head(watch) /\ watch' = Tail(watch)
    /\ UNCHANGED <<obj, latest, foreign, opVars, kind, required, changes, faults>>

DeliverOperand ==
    /\ watch # << >>
    /\ cache' = Head(watch) /\ watch' = Tail(watch)
    /\ queued' = TRUE
    /\ UNCHANGED <<obj, latest, foreign, pc, seen, result, kind, required, changes, faults>>

Change(what) ==
    /\ what \in ChangeKinds /\ changes < MaxChanges
    /\ changes' = changes + 1

OthersEdit ==
    /\ Exists(obj)
    /\ \/ /\ Change("field")
          /\ \E x \in Fields \ TheRule.immutable, v \in Values :
                Replace([obj EXCEPT !.f[x] = v], "others")
       \/ Change("label") /\ Replace([obj EXCEPT !.label = FALSE], "others")
       \/ Change("extra") /\ Replace([obj EXCEPT !.extra = TRUE], "others")
       \/ Change("delete") /\ Announce([obj EXCEPT !.rv = 0, !.extra = FALSE], "others")
    /\ UNCHANGED <<opVars, kind, cache, required, faults>>

(* The periodic resync, and an event of any other object SetupWithManager  *)
(* watches, make the same request.                                         *)
OtherRequest ==
    /\ ~queued
    /\ queued' = TRUE
    /\ UNCHANGED <<pc, seen, result, apiVars, envVars>>

(* A new process lists everything afresh and reconciles.                   *)
Restart ==
    /\ cache' = obj /\ watch' = << >> /\ foreign' = FALSE
    /\ pc' = "idle" /\ queued' = TRUE /\ result' = "none"
    /\ UNCHANGED <<obj, latest, seen, kind>>

Crash ==
    /\ pc # "idle"
    /\ Fault("crash")
    /\ Restart
    /\ UNCHANGED <<required, changes>>

Upgrade ==
    /\ Change("upgrade")
    /\ required' \in Release \ {required}
    /\ Restart
    /\ UNCHANGED faults

Next ==
    \/ Operator
    \/ CallFails
    \/ AnswerLost
    \/ DeliverOperand
    \/ OthersEdit
    \/ OtherRequest
    \/ Crash
    \/ Upgrade

Spec == Init /\ [][Next]_vars

(* The work queue serves its request, an apply call takes its steps, and   *)
(* the informer receives what was stored.                                  *)
FairSpec == Spec /\ WF_vars(Operator) /\ WF_vars(DeliverOperand)

-----------------------------------------------------------------------------
(* What is stored of the operand, without its version.                     *)
Contents ==
    IF Exists(obj) THEN [label |-> obj.label, extra |-> obj.extra, f |-> obj.f] ELSE << >>

Atomic == INSTANCE AtomicOperand WITH rule <- TheRule, operand <- Contents

(* The steps of an apply call (a read of a cache that lags, a comparison,  *)
(* a write) amount to one write on the operand as it is when the write is  *)
(* accepted: it merges the release into what is stored, keeps what others  *)
(* have added, and is not made for an operand that is up to date.          *)
WritesAreAtomic == Atomic!Spec

(* The metadata others put on an operand survives every write of the       *)
(* operator, also when they add it while an apply call holds an older      *)
(* copy (EnsureObjectMeta merges, and the update carries the version).     *)
ExtrasSurvive ==
    [][pc = "update" /\ Exists(obj) /\ Exists(obj') /\ obj.extra => obj'.extra]_vars

(* Everything the operator ships is held, except the ports of a Service,   *)
(* and but for what others add to the spec of an admission policy or of    *)
(* its binding: DeepDerivative does not see additions.                     *)
Held(o) == o.label /\ \A x \in TheRule.writes \ {"ports"} : Covers(x, o.f[x])

(* Nothing is under way: no version to receive, no request, no call.       *)
AtRest == pc = "idle" /\ ~queued /\ watch = << >>

(* With nothing under way the operand is there with what the running       *)
(* release ships and the last call reported no update, whatever conflicts, *)
(* stale copies, failures, restarts and upgrades came before.              *)
HeldAtRest == AtRest => result = "unchanged" /\ Exists(obj) /\ Held(obj)

(* Once changes and failures stop, what the release ships is in place      *)
(* again, whatever others did to it, and apply calls report no update.     *)
Converges == <>[](result = "unchanged" /\ Exists(obj) /\ Held(obj))

=============================================================================

------------------------- MODULE OperandApplyProofs -------------------------
(***************************************************************************)
(* Theorems on OperandApply, for every kind of operand, any contents and   *)
(* releases, any lag of the cache and any number of edits and failures:    *)
(* the types, that what others put on an operand survives, and that with   *)
(* nothing under way the operand is as the release ships it.               *)
(***************************************************************************)
EXTENDS OperandApply, TLAPS

(* No rule writes a field it clears, what is immutable is written, and but *)
(* for the ports of a Service just what is written is compared.            *)
Consistent(r) ==
    /\ r.writes \cap r.clears = {} /\ r.immutable \subseteq r.writes
    /\ r.compares \subseteq r.writes /\ r.writes \ {"ports"} \subseteq r.compares

(* The rule of each kind the operator applies is consistent.               *)
LEMMA RulesAreConsistent ==
    ASSUME kind \in Kinds PROVE Consistent(TheRule)
<1> DEFINE R == ApplyResource
<1>1. /\ Consistent(applyConfigMap) /\ Consistent(applyPodDisruptionBudget)
      /\ Consistent(applyRole) /\ Consistent(applyClusterRole)
  BY DEF Consistent, Rule, applyConfigMap, applyPodDisruptionBudget, applyRole, applyClusterRole
<1>2. /\ Consistent(applyRoleBinding) /\ Consistent(applyClusterRoleBinding)
      /\ Consistent(applyService)
  BY DEF Consistent, Rule, applyRoleBinding, applyClusterRoleBinding, applyService
<1>3. /\ Consistent(applyValidatingAdmissionPolicy)
      /\ Consistent(applyValidatingAdmissionPolicyBinding)
  BY DEF Consistent, Rule, applyValidatingAdmissionPolicy, applyValidatingAdmissionPolicyBinding
<1>4. kind \in DOMAIN R
  BY KindsAssumption
<1>5. \A k \in DOMAIN R : R[k] \in
        {applyConfigMap, applyPodDisruptionBudget, applyRole, applyClusterRole, applyRoleBinding,
         applyClusterRoleBinding, applyService, applyValidatingAdmissionPolicy,
         applyValidatingAdmissionPolicyBinding}
  BY DEF ApplyResource
<1> HIDE DEF R
<1>6. QED
  BY <1>1, <1>2, <1>3, <1>4, <1>5 DEF TheRule, R

-----------------------------------------------------------------------------
(* A copy is not newer than the last version, and a copy of the stored     *)
(* version is what is stored: what makes the API server's check of the     *)
(* resourceVersion protect what others add.                                *)
Agrees(c, o, n) == c.rv <= n /\ (c.rv = o.rv /\ c.rv # 0 => c = o)

(* The API server and the copies have their types, and the copies agree.   *)
CopiesAgree ==
    /\ obj \in Object /\ cache \in Object /\ seen \in Object
    /\ latest \in 0..MaxRV
    /\ watch \in Seq(Object) /\ Len(watch) <= MaxLag
    /\ \A c \in {obj, cache, seen} : Agrees(c, obj, latest)
    /\ \A i \in 1..Len(watch) : Agrees(watch[i], obj, latest)

Rest ==
    /\ kind \in Kinds
    /\ required \in Release
    /\ queued \in BOOLEAN
    /\ pc \in {"idle", "get", "create", "update"}
    /\ result \in {"none", "unchanged", "updated", "error"}
    /\ changes \in 0..MaxChanges /\ faults \in 0..MaxFaults

CopyInv == CopiesAgree /\ Rest

(* Objects and releases are those of the kind, which is fixed.             *)
LEMMA SameKind ==
    ASSUME kind' = kind PROVE Object' = Object /\ Release' = Release
BY DEF Object, Release, Fields, TheRule

(* Storing a version that is new, or the absence of one, keeps the copies  *)
(* in agreement.                                                           *)
LEMMA AnnounceAgrees ==
    ASSUME CopiesAgree, NEW o \in Object, NEW by, o.rv = 0 \/ o.rv = latest + 1,
           Announce(o, by), UNCHANGED <<kind, cache, seen>>
    PROVE  CopiesAgree'
<1>1. Object' = Object
  BY SameKind
<1>2. latest \in Nat /\ latest' = latest + 1 /\ latest' \in 0..MaxRV
  BY BoundsAssumption DEF CopiesAgree, Announce, CanStore
<1>3. watch \in Seq(Object) /\ watch' = Append(watch, o) /\ Len(watch) < MaxLag
  BY DEF CopiesAgree, Announce, CanStore
<1>4. watch' \in Seq(Object) /\ Len(watch') = Len(watch) + 1 /\ Len(watch) \in Nat
  BY <1>3
<1>5. \A i \in 1..Len(watch') : watch'[i] = o \/ \E j \in 1..Len(watch) : watch'[i] = watch[j]
  BY <1>3, <1>4
<1>6. Len(watch') <= MaxLag
  BY <1>3, <1>4, BoundsAssumption
<1>7. obj' = o
  BY DEF Announce
<1>8. \A c \in Object : Agrees(c, obj, latest) \/ c = o => Agrees(c, o, latest')
  <2> SUFFICES ASSUME NEW c \in Object, Agrees(c, obj, latest) \/ c = o
               PROVE  Agrees(c, o, latest')
    OBVIOUS
  <2>1. c.rv \in Nat /\ o.rv \in Nat
    BY DEF Object
  <2>2. QED
    BY <1>2, <2>1 DEF Agrees
<1>9. \A i \in 1..Len(watch) : watch[i] \in Object /\ Agrees(watch[i], obj, latest)
  BY <1>3 DEF CopiesAgree
<1>10. \A i \in 1..Len(watch') : Agrees(watch'[i], o, latest')
  BY <1>5, <1>8, <1>9
<1>11. Agrees(o, o, latest') /\ Agrees(cache, o, latest') /\ Agrees(seen, o, latest')
  BY <1>8 DEF CopiesAgree
<1>12. QED
  BY <1>1, <1>2, <1>4, <1>6, <1>7, <1>10, <1>11 DEF CopiesAgree

(* So does an accepted write.                                              *)
LEMMA ReplaceAgrees ==
    ASSUME CopiesAgree, NEW new \in Object, NEW by, Replace(new, by),
           UNCHANGED <<kind, cache, seen>>
    PROVE  CopiesAgree'
<1>1. CASE UNCHANGED apiVars
  BY <1>1, SameKind DEF CopiesAgree, apiVars
<1>2. CASE Announce([new EXCEPT !.rv = latest + 1], by)
  <2> DEFINE o == [new EXCEPT !.rv = latest + 1]
  <2>1. latest + 1 \in Nat
    BY BoundsAssumption DEF CopiesAgree
  <2>2. o \in Object /\ o.rv = latest + 1
    BY <2>1 DEF Object
  <2>3. QED
    BY <1>2, <2>2, AnnounceAgrees
<1>3. QED
  BY <1>1, <1>2 DEF Replace

(* So does a step that stores nothing, a read of the cache included.       *)
LEMMA UnstoredAgrees ==
    ASSUME CopiesAgree, UNCHANGED <<kind, apiVars, cache>>, seen' = seen \/ seen' = cache
    PROVE  CopiesAgree'
BY SameKind DEF CopiesAgree, apiVars

(* What the operator writes is an object with the version and the metadata *)
(* of the copy it has read.                                                *)
LEMMA ToWriteKeeps ==
    ASSUME seen \in Object, required \in Release
    PROVE  ToWrite \in Object /\ ToWrite.rv = seen.rv /\ ToWrite.extra = seen.extra
<1> DEFINE f == [x \in Fields |-> IF x \in TheRule.writes \cup TheRule.clears
                                  THEN required[x] ELSE seen.f[x]]
<1>1. f \in [Fields -> Values \cup {Unset}]
  BY DEF Object, Release
<1> HIDE DEF f
<1>2. [seen EXCEPT !.label = TRUE, !.f = f] \in Object
  BY <1>1 DEF Object
<1>3. /\ [seen EXCEPT !.label = TRUE, !.f = f].rv = seen.rv
      /\ [seen EXCEPT !.label = TRUE, !.f = f].extra = seen.extra
  BY DEF Object
<1>4. QED
  BY <1>2, <1>3 DEF ToWrite, f

(* A creation, which stores what is required, keeps the copies in          *)
(* agreement.                                                              *)
LEMMA CreatedAgrees ==
    ASSUME CopiesAgree, Rest, Created, UNCHANGED <<kind, cache, seen>>
    PROVE  CopiesAgree' /\ obj' \in Object
<1>1. latest + 1 \in Nat
  BY BoundsAssumption DEF CopiesAgree
<1>2. required \in [Fields -> Values \cup {Unset}]
  BY DEF Rest, Release
<1>3. [rv |-> latest + 1, label |-> TRUE, extra |-> FALSE, f |-> required] \in Object
  BY <1>1, <1>2 DEF Object
<1>4. QED
  BY <1>3, AnnounceAgrees DEF Created, Announce

(* The invariant of the copies holds initially.                            *)
LEMMA InitHolds == Init => CopyInv
<1> SUFFICES ASSUME Init PROVE CopyInv
  OBVIOUS
<1>1. kind \in Kinds /\ obj = Absent /\ cache = Absent /\ seen = Absent /\ latest = 0
      /\ watch = << >>
  BY DEF Init
<1>2. Absent \in Object /\ Absent.rv = 0
  BY DEF Absent, Object
<1>3. 0 \in 0..MaxRV /\ 0 <= MaxLag /\ 0 \in 0..MaxChanges /\ 0 \in 0..MaxFaults
  BY BoundsAssumption
<1>4. CopiesAgree
  BY <1>1, <1>2, <1>3 DEF CopiesAgree, Agrees
<1>5. required \in Release
  <2>1. Consistent(TheRule)
    BY <1>1, RulesAreConsistent
  <2>2. required = [x \in Fields |-> IF x \in TheRule.clears THEN Unset ELSE First]
    BY DEF Init
  <2>3. QED
    BY <2>1, <2>2, ValuesAssumption DEF Release, Fields, Consistent
<1>6. QED
  BY <1>1, <1>3, <1>4, <1>5 DEF CopyInv, Rest, Init

(* Every step keeps it.                                                    *)
LEMMA StepHolds == CopyInv /\ [Next]_vars => CopyInv'
<1> SUFFICES ASSUME CopyInv, [Next]_vars PROVE CopyInv'
  OBVIOUS
<1>0. CopiesAgree /\ Rest
  BY DEF CopyInv
<1>1. CASE StartApply
  <2>1. CopiesAgree'
    BY <1>0, <1>1, UnstoredAgrees DEF StartApply, envVars
  <2>2. Rest'
    BY <1>0, <1>1, SameKind DEF Rest, StartApply, envVars
  <2>3. QED
    BY <2>1, <2>2 DEF CopyInv
<1>2. CASE GetExisting
  <2>1. CopiesAgree'
    BY <1>0, <1>2, UnstoredAgrees DEF GetExisting, envVars
  <2>2. Rest'
    BY <1>0, <1>2, SameKind DEF Rest, GetExisting, envVars, Goto, Return
  <2>3. QED
    BY <2>1, <2>2 DEF CopyInv
<1>3. CASE CreateOperand
  <2>1. CopiesAgree'
    <3>1. UNCHANGED <<kind, cache, seen>>
      BY <1>3 DEF CreateOperand, envVars
    <3>2. CASE UNCHANGED apiVars
      BY <1>0, <3>1, <3>2, UnstoredAgrees
    <3>3. CASE Created
      BY <1>0, <3>1, <3>3, CreatedAgrees
    <3>4. QED
      BY <1>3, <3>2, <3>3 DEF CreateOperand
  <2>2. Rest'
    BY <1>0, <1>3, SameKind DEF Rest, CreateOperand, envVars, Return
  <2>3. QED
    BY <2>1, <2>2 DEF CopyInv
<1>4. CASE UpdateOperand
  <2>1. ToWrite \in Object
    BY <1>0, ToWriteKeeps DEF CopiesAgree, Rest
  <2>2. CopiesAgree'
    BY <1>0, <1>4, <2>1, ReplaceAgrees, UnstoredAgrees DEF UpdateOperand, envVars
  <2>3. Rest'
    BY <1>0, <1>4, SameKind DEF Rest, UpdateOperand, envVars, Return
  <2>4. QED
    BY <2>2, <2>3 DEF CopyInv
<1>5. CASE CallFails
  <2>1. CopiesAgree'
    BY <1>0, <1>5, UnstoredAgrees DEF CallFails
  <2>2. faults' \in 0..MaxFaults
    BY <1>0, <1>5, BoundsAssumption DEF Rest, CallFails, Fault
  <2>3. Rest'
    BY <1>0, <1>5, <2>2, SameKind DEF Rest, CallFails, Return
  <2>4. QED
    BY <2>1, <2>3 DEF CopyInv
<1>6. CASE DeliverOperand
  <2>1. /\ watch \in Seq(Object) /\ watch # << >> /\ cache' = Head(watch) /\ watch' = Tail(watch)
        /\ Len(watch) <= MaxLag
    BY <1>0, <1>6 DEF CopiesAgree, DeliverOperand
  <2>2. /\ cache' \in Object /\ cache' = watch[1] /\ 1 \in 1..Len(watch)
        /\ watch' \in Seq(Object) /\ Len(watch') = Len(watch) - 1 /\ Len(watch) \in Nat
        /\ \A i \in 1..Len(watch') : watch'[i] = watch[i + 1] /\ i + 1 \in 1..Len(watch)
    BY <2>1
  <2>3. Len(watch') <= MaxLag
    BY <2>1, <2>2, BoundsAssumption
  <2>4. UNCHANGED <<kind, obj, latest, seen>>
    BY <1>6 DEF DeliverOperand
  <2>5. CopiesAgree'
    BY <1>0, <2>2, <2>3, <2>4, SameKind DEF CopiesAgree
  <2>6. Rest'
    BY <1>0, <1>6, SameKind DEF Rest, DeliverOperand
  <2>7. QED
    BY <2>5, <2>6 DEF CopyInv
<1>7. CASE OthersEdit
  <2>1. UNCHANGED <<kind, cache, seen>>
    BY <1>7 DEF OthersEdit, opVars
  <2>2. obj \in Object
    BY <1>0 DEF CopiesAgree
  <2>3. ASSUME NEW x \in Fields \ TheRule.immutable, NEW v \in Values,
               Replace([obj EXCEPT !.f[x] = v], "others")
        PROVE  CopiesAgree'
    <3>1. [obj.f EXCEPT ![x] = v] \in [Fields -> Values \cup {Unset}]
      BY <2>2 DEF Object
    <3>2. [obj EXCEPT !.f[x] = v] \in Object
      BY <2>2, <3>1 DEF Object
    <3>3. QED
      BY <1>0, <2>1, <2>3, <3>2, ReplaceAgrees
  <2>4. ASSUME Replace([obj EXCEPT !.label = FALSE], "others") PROVE CopiesAgree'
    <3>1. [obj EXCEPT !.label = FALSE] \in Object
      BY <2>2 DEF Object
    <3>2. QED
      BY <1>0, <2>1, <2>4, <3>1, ReplaceAgrees
  <2>5. ASSUME Replace([obj EXCEPT !.extra = TRUE], "others") PROVE CopiesAgree'
    <3>1. [obj EXCEPT !.extra = TRUE] \in Object
      BY <2>2 DEF Object
    <3>2. QED
      BY <1>0, <2>1, <2>5, <3>1, ReplaceAgrees
  <2>6. ASSUME Announce([obj EXCEPT !.rv = 0, !.extra = FALSE], "others") PROVE CopiesAgree'
    <3>1. /\ [obj EXCEPT !.rv = 0, !.extra = FALSE] \in Object
          /\ [obj EXCEPT !.rv = 0, !.extra = FALSE].rv = 0
      BY <2>2 DEF Object
    <3>2. QED
      BY <1>0, <2>1, <2>6, <3>1, AnnounceAgrees
  <2>7. CopiesAgree'
    BY <1>7, <2>3, <2>4, <2>5, <2>6 DEF OthersEdit
  <2>8. changes < MaxChanges /\ changes' = changes + 1
    BY <1>7 DEF OthersEdit, Change
  <2>9. changes' \in 0..MaxChanges
    BY <1>0, <2>8, BoundsAssumption DEF Rest
  <2>10. Rest'
    BY <1>0, <1>7, <2>9, SameKind DEF Rest, OthersEdit, opVars
  <2>11. QED
    BY <2>7, <2>10 DEF CopyInv
<1>8. ASSUME Restart PROVE CopiesAgree'
  <2>1. << >> \in Seq(Object) /\ Len(<< >>) = 0 /\ 0 <= MaxLag
    BY BoundsAssumption
  <2>2. QED
    BY <1>0, <1>8, <2>1, SameKind DEF CopiesAgree, Restart
<1>9. CASE Crash
  <2>1. faults' \in 0..MaxFaults
    BY <1>0, <1>9, BoundsAssumption DEF Rest, Crash, Fault
  <2>2. Rest'
    BY <1>0, <1>9, <2>1, SameKind DEF Rest, Crash, Restart
  <2>3. QED
    BY <1>8, <1>9, <2>2 DEF CopyInv, Crash
<1>10. CASE Upgrade
  <2>1. changes' \in 0..MaxChanges
    BY <1>0, <1>10, BoundsAssumption DEF Rest, Upgrade, Change
  <2>2. Rest'
    BY <1>0, <1>10, <2>1, SameKind DEF Rest, Upgrade, Restart
  <2>3. QED
    BY <1>8, <1>10, <2>2 DEF CopyInv, Upgrade
<1>11. CASE UNCHANGED vars
  <2>1. CopiesAgree'
    BY <1>0, <1>11, UnstoredAgrees DEF vars, envVars, opVars
  <2>2. Rest'
    BY <1>0, <1>11, SameKind DEF Rest, vars, envVars, opVars
  <2>3. QED
    BY <2>1, <2>2 DEF CopyInv
<1>12. CASE OtherRequest
  <2>1. CopiesAgree'
    BY <1>0, <1>12, UnstoredAgrees DEF OtherRequest, envVars
  <2>2. Rest'
    BY <1>0, <1>12, SameKind DEF Rest, OtherRequest, envVars
  <2>3. QED
    BY <2>1, <2>2 DEF CopyInv
<1>13. CASE AnswerLost
  <2>1. UNCHANGED <<kind, cache, seen>>
    BY <1>13 DEF AnswerLost
  <2>2. ToWrite \in Object
    BY <1>0, ToWriteKeeps DEF CopiesAgree, Rest
  <2>3. CopiesAgree'
    BY <1>0, <1>13, <2>1, <2>2, CreatedAgrees, ReplaceAgrees DEF AnswerLost
  <2>4. faults' \in 0..MaxFaults
    BY <1>0, <1>13, BoundsAssumption DEF Rest, AnswerLost, Fault
  <2>5. Rest'
    BY <1>0, <1>13, <2>4, SameKind DEF Rest, AnswerLost, Return
  <2>6. QED
    BY <2>3, <2>5 DEF CopyInv
<1>14. QED
  BY <1>1, <1>2, <1>3, <1>4, <1>5, <1>6, <1>7, <1>9, <1>10, <1>11, <1>12, <1>13
  DEF Next, Operator

(* Copies agree in every reachable state, whatever the informer has        *)
(* delivered of the operand and whichever copy an apply call holds.        *)
LEMMA CopiesAlwaysAgree == Spec => []CopyInv
BY InitHolds, StepHolds, PTL DEF Spec

(* Who wrote last is the operator or others.                               *)
AuthorKnown == foreign \in BOOLEAN

(* It stays so in every step.                                              *)
LEMMA AuthorStays ==
    ASSUME AuthorKnown, [Next]_vars PROVE AuthorKnown'
<1>1. ASSUME NEW o, NEW by, Announce(o, by) PROVE AuthorKnown'
  BY <1>1, Zenon DEF Announce, AuthorKnown
<1>2. ASSUME NEW o, NEW by, Replace(o, by) PROVE AuthorKnown'
  BY <1>1, <1>2 DEF Replace, apiVars, AuthorKnown
<1>3. CASE CreateOperand \/ UpdateOperand \/ AnswerLost
  BY <1>1, <1>2, <1>3 DEF CreateOperand, UpdateOperand, AnswerLost, Created, apiVars, AuthorKnown
<1>4. CASE OthersEdit
  BY <1>1, <1>2, <1>4 DEF OthersEdit
<1>5. CASE Crash \/ Upgrade
  BY <1>5 DEF Crash, Upgrade, Restart, AuthorKnown
<1>6. CASE UNCHANGED foreign
  BY <1>6 DEF AuthorKnown
<1>7. QED
  BY <1>3, <1>4, <1>5, <1>6
  DEF Next, Operator, StartApply, GetExisting, CallFails, DeliverOperand, OtherRequest, vars, apiVars

(* The state of ApplyResource, the informer and the API server has its     *)
(* types, for every kind the dispatch knows.                               *)
THEOREM OperandTypes == Spec => []TypeOK
<1>1. CopyInv /\ AuthorKnown => TypeOK
  BY DEF CopyInv, CopiesAgree, Rest, TypeOK, AuthorKnown
<1>2. Init => AuthorKnown
  BY DEF Init, AuthorKnown
<1>3. AuthorKnown /\ [Next]_vars => AuthorKnown'
  BY AuthorStays
<1>4. QED
  BY <1>1, <1>2, <1>3, CopiesAlwaysAgree, PTL DEF Spec

(* No write of an apply function drops metadata that others have put on    *)
(* the operand: EnsureObjectMeta merges into the copy, and the API server  *)
(* takes the copy only when it has the stored version.                     *)
THEOREM ExtrasAlwaysSurvive == Spec => ExtrasSurvive
<1> DEFINE A == pc = "update" /\ Exists(obj) /\ Exists(obj') /\ obj.extra => obj'.extra
<1>1. CopyInv /\ [Next]_vars => [A]_vars
  <2> SUFFICES ASSUME CopyInv, Next, Exists(obj), Exists(obj'), obj.extra, pc = "update"
               PROVE  obj'.extra
    OBVIOUS
  <2>0. obj \in Object /\ seen \in Object /\ required \in Release
    BY DEF CopyInv, CopiesAgree, Rest
  <2>1. ASSUME NEW new \in Object, NEW by, new.extra, Replace(new, by) PROVE obj'.extra
    <3>1. CASE UNCHANGED apiVars
      BY <3>1 DEF apiVars
    <3>2. CASE obj' = [new EXCEPT !.rv = latest + 1]
      BY <2>1, <3>2 DEF Object
    <3>3. QED
      BY <2>1, <3>1, <3>2 DEF Replace, Announce
  <2>2. CASE Accepts(ToWrite) /\ Replace(ToWrite, "operator")
    <3>1. ToWrite \in Object /\ ToWrite.rv = seen.rv /\ ToWrite.extra = seen.extra
      BY <2>0, ToWriteKeeps
    <3>2. seen.rv = obj.rv /\ seen.rv # 0
      BY <2>2, <3>1 DEF Accepts, Exists
    <3>3. seen.extra = obj.extra
      BY <3>2 DEF CopyInv, CopiesAgree, Agrees
    <3>4. QED
      BY <2>1, <2>2, <3>1, <3>3
  <2>3. CASE OthersEdit
    <3>1. ASSUME NEW x \in Fields \ TheRule.immutable, NEW v \in Values,
                 Replace([obj EXCEPT !.f[x] = v], "others")
          PROVE  obj'.extra
      <4>1. [obj.f EXCEPT ![x] = v] \in [Fields -> Values \cup {Unset}]
        BY <2>0 DEF Object
      <4>2. [obj EXCEPT !.f[x] = v] \in Object /\ [obj EXCEPT !.f[x] = v].extra
        BY <2>0, <4>1 DEF Object
      <4>3. QED
        BY <2>1, <3>1, <4>2
    <3>2. /\ [obj EXCEPT !.label = FALSE] \in Object /\ [obj EXCEPT !.label = FALSE].extra
          /\ [obj EXCEPT !.extra = TRUE] \in Object /\ [obj EXCEPT !.extra = TRUE].extra
      BY <2>0 DEF Object
    <3>3. ~Announce([obj EXCEPT !.rv = 0, !.extra = FALSE], "others")
      BY <2>0 DEF Announce, Exists, Object
    <3>4. QED
      BY <2>1, <2>3, <3>1, <3>2, <3>3 DEF OthersEdit
  <2>4. CASE obj' = obj
    BY <2>4
  <2>5. QED
    BY <2>2, <2>3, <2>4 DEF Next, Operator, StartApply, GetExisting, CreateOperand,
                            UpdateOperand, CallFails, AnswerLost, DeliverOperand, OtherRequest,
                            Crash, Upgrade, Restart, apiVars
<1>2. ExtrasSurvive <=> [][A]_vars
  BY DEF ExtrasSurvive
<1>3. QED
  BY <1>1, <1>2, CopiesAlwaysAgree, PTL DEF Spec

-----------------------------------------------------------------------------
(* What is held at rest *)

(* The cache and what it has not received end with what is stored.         *)
Chained ==
    /\ watch = << >> => cache = obj
    /\ watch # << >> => watch[Len(watch)] = obj

(* An update is under way only of a copy that is not as required, and an   *)
(* operator without a request has seen the copy of now to be as required,  *)
(* unless a version is still to be received.                               *)
RestInv ==
    /\ Chained
    /\ pc = "update" => Exists(seen) /\ ~Same(seen)
    /\ pc = "idle" /\ ~queued =>
          watch # << >> \/ (result = "unchanged" /\ Exists(cache) /\ Same(cache))

(* A stored version is the last the watch will deliver.                    *)
LEMMA AnnounceChains ==
    ASSUME watch \in Seq(Object), NEW o \in Object, NEW by, Announce(o, by)
    PROVE  Chained' /\ watch' # << >>
<1>1. watch' = Append(watch, o) /\ obj' = o
  BY DEF Announce
<1>2. watch' # << >> /\ watch'[Len(watch')] = o
  BY <1>1
<1>3. QED
  BY <1>1, <1>2 DEF Chained

(* So is that of a creation.                                               *)
LEMMA CreatedChains ==
    ASSUME CopiesAgree, Rest, Created, UNCHANGED <<kind, cache, seen>>
    PROVE  Chained' /\ watch' # << >>
<1>1. obj' \in Object /\ watch \in Seq(Object)
  BY CreatedAgrees DEF CopiesAgree
<1>2. Announce(obj', "operator")
  BY DEF Created, Announce
<1>3. QED
  BY <1>1, <1>2, AnnounceChains

(* So is that of an accepted write, unless it changes nothing.             *)
LEMMA ReplaceChains ==
    ASSUME CopiesAgree, NEW new \in Object, NEW by, Replace(new, by), Chained, UNCHANGED cache
    PROVE  Chained' /\ (watch' # << >> \/ (UNCHANGED apiVars /\ new = obj))
<1>1. CASE UNCHANGED apiVars /\ new = obj
  BY <1>1 DEF Chained, apiVars
<1>2. CASE Announce([new EXCEPT !.rv = latest + 1], by)
  <2>1. latest + 1 \in Nat
    BY BoundsAssumption DEF CopiesAgree
  <2>2. [new EXCEPT !.rv = latest + 1] \in Object
    BY <2>1 DEF Object
  <2>3. QED
    BY <1>2, <2>2, AnnounceChains DEF CopiesAgree
<1>3. QED
  BY <1>1, <1>2 DEF Replace

(* Required contents are as required.                                      *)
LEMMA RequiredCovers ==
    ASSUME required \in Release, NEW x \in TheRule.writes PROVE Covers(x, required[x])
<1>1. required[x] \in Seq(Items)
  <2>1. x \in Fields
    BY DEF Fields
  <2>2. required[x] \in Values \cup {Unset}
    BY <2>1 DEF Release
  <2>3. << >> \in Seq(Items)
    OBVIOUS
  <2>4. QED
    BY <2>2, <2>3, ValuesAssumption DEF Unset
<1>2. Len(required[x]) \in Nat
  BY <1>1
<1>3. DeepDerivative(required[x], required[x])
  BY <1>2 DEF DeepDerivative
<1>4. QED
  BY <1>3 DEF Covers

(* The write of an update that is accepted changes what is stored.         *)
LEMMA WriteChanges ==
    ASSUME CopyInv, pc = "update", Exists(seen), ~Same(seen), Exists(obj), Accepts(ToWrite)
    PROVE  ToWrite # obj
<1>0. seen \in Object /\ required \in Release /\ kind \in Kinds
  BY DEF CopyInv, CopiesAgree, Rest
<1>1. ToWrite.rv = seen.rv
  BY <1>0, ToWriteKeeps
<1>2. seen = obj
  BY <1>1 DEF CopyInv, CopiesAgree, Agrees, Accepts, Exists
<1> SUFFICES ASSUME ToWrite = seen PROVE FALSE
  BY <1>2
<1> DEFINE f == [x \in Fields |-> IF x \in TheRule.writes \cup TheRule.clears
                                  THEN required[x] ELSE seen.f[x]]
<1>3. ToWrite.label = TRUE /\ ToWrite.f = f
  <2> HIDE DEF f
  <2>1. [seen EXCEPT !.label = TRUE, !.f = f].label = TRUE
        /\ [seen EXCEPT !.label = TRUE, !.f = f].f = f
    BY <1>0 DEF Object
  <2>2. QED
    BY <2>1 DEF ToWrite, f
<1>4. TheRule.compares \subseteq TheRule.writes /\ TheRule.writes \subseteq Fields
  BY <1>0, RulesAreConsistent DEF Consistent, Fields
<1>5. \A x \in TheRule.compares : seen.f[x] = required[x] /\ Covers(x, required[x])
  BY <1>0, <1>3, <1>4, RequiredCovers
<1>6. QED
  BY <1>3, <1>5 DEF Same

(* What others do to an operand is a write or a removal.                   *)
LEMMA EditsReplace ==
    ASSUME CopyInv, OthersEdit
    PROVE  \/ \E new \in Object : Replace(new, "others")
           \/ \E o \in Object : Announce(o, "others")
<1>0. obj \in Object
  BY DEF CopyInv, CopiesAgree
<1>1. ASSUME NEW x \in Fields \ TheRule.immutable, NEW v \in Values,
             Replace([obj EXCEPT !.f[x] = v], "others")
      PROVE  \E new \in Object : Replace(new, "others")
  <2>1. [obj.f EXCEPT ![x] = v] \in [Fields -> Values \cup {Unset}]
    BY <1>0 DEF Object
  <2>2. [obj EXCEPT !.f[x] = v] \in Object
    BY <1>0, <2>1 DEF Object
  <2>3. QED
    BY <1>1, <2>2
<1>2. /\ [obj EXCEPT !.label = FALSE] \in Object /\ [obj EXCEPT !.extra = TRUE] \in Object
      /\ [obj EXCEPT !.rv = 0, !.extra = FALSE] \in Object
  BY <1>0 DEF Object
<1>3. QED
  BY <1>1, <1>2 DEF OthersEdit

(* Whether an object is as required depends on the object and on what is   *)
(* required.                                                               *)
LEMMA SameStays ==
    ASSUME UNCHANGED <<kind, required>>, NEW o PROVE Same(o)' <=> Same(o)
BY DEF Same, Covers, TheRule

(* Every step keeps the invariant of coming to rest.                       *)
LEMMA RestStays ==
    ASSUME CopyInv, RestInv, [Next]_vars PROVE RestInv'
<1>0. CopiesAgree /\ Rest /\ watch \in Seq(Object) /\ obj \in Object
  BY DEF CopyInv, CopiesAgree
<1>1. CASE StartApply
  BY <1>1 DEF StartApply, RestInv, Chained, apiVars, envVars
<1>2. CASE GetExisting
  <2>1. seen' = cache /\ UNCHANGED <<apiVars, cache, kind, required>>
    BY <1>2 DEF GetExisting, envVars
  <2>2. CASE ~Exists(cache) /\ Goto("create")
    BY <2>1, <2>2 DEF Goto, RestInv, Chained, apiVars
  <2>3. CASE Exists(cache) /\ Same(cache) /\ Return("unchanged")
    BY <2>1, <2>3 DEF Return, RestInv, Chained, apiVars, Same, Covers, TheRule
  <2>4. CASE Exists(cache) /\ ~Same(cache) /\ Goto("update")
    BY <2>1, <2>4 DEF Goto, RestInv, Chained, apiVars, Same, Covers, TheRule, Exists
  <2>5. QED
    BY <1>2, <2>2, <2>3, <2>4 DEF GetExisting
<1>3. CASE CreateOperand
  <2>1. UNCHANGED <<seen, cache, kind, required>> /\ pc = "create"
    BY <1>3 DEF CreateOperand, envVars
  <2>2. CASE Return("error") /\ UNCHANGED apiVars
    BY <2>1, <2>2 DEF Return, RestInv, Chained, apiVars
  <2>3. CASE Created /\ Return("updated")
    <3>3. Chained' /\ watch' # << >>
      BY <1>0, <2>1, <2>3, CreatedChains
    <3>4. QED
      BY <2>3, <3>3 DEF Return, RestInv
  <2>4. QED
    BY <1>3, <2>2, <2>3 DEF CreateOperand
<1>4. CASE UpdateOperand
  <2>1. UNCHANGED <<seen, cache, kind, required>> /\ pc = "update"
    BY <1>4 DEF UpdateOperand, envVars
  <2>2. CASE Exists(obj) /\ Accepts(ToWrite) /\ Replace(ToWrite, "operator") /\ Return("updated")
    <3>1. ToWrite \in Object /\ ToWrite # obj
      BY <1>0, <2>1, <2>2, ToWriteKeeps, WriteChanges DEF RestInv, CopiesAgree, Rest
    <3>2. Chained' /\ watch' # << >>
      BY <1>0, <2>1, <2>2, <3>1, ReplaceChains DEF RestInv
    <3>3. QED
      BY <2>2, <3>2 DEF Return, RestInv
  <2>3. CASE Return("error") /\ UNCHANGED apiVars
    BY <2>1, <2>3 DEF Return, RestInv, Chained, apiVars
  <2>4. QED
    BY <1>4, <2>2, <2>3 DEF UpdateOperand
<1>5. CASE CallFails
  BY <1>5 DEF CallFails, Return, RestInv, Chained, apiVars
<1>6. CASE DeliverOperand
  <2>1. /\ watch # << >> /\ cache' = Head(watch) /\ watch' = Tail(watch) /\ queued'
        /\ UNCHANGED <<obj, pc, seen, kind, required>>
    BY <1>6 DEF DeliverOperand
  <2>2. watch' = << >> => Head(watch) = watch[Len(watch)]
    <3>1. /\ Len(watch) \in Nat \ {0} /\ Head(watch) = watch[1]
          /\ Len(Tail(watch)) = Len(watch) - 1
      BY <1>0, <2>1
    <3>2. Len(<< >>) = 0
      OBVIOUS
    <3>3. QED
      BY <2>1, <3>1, <3>2
  <2>3. watch' # << >> => watch'[Len(watch')] = watch[Len(watch)]
    BY <1>0, <2>1
  <2>4. Chained'
    BY <2>1, <2>2, <2>3 DEF RestInv, Chained
  <2>5. QED
    BY <2>1, <2>4, SameStays DEF RestInv
<1>7. CASE OthersEdit
  <2>1. UNCHANGED <<queued, pc, seen, result, kind, cache, required>>
    BY <1>7 DEF OthersEdit, opVars
  <2>2. Chained' /\ (watch' # << >> \/ UNCHANGED apiVars)
    BY <1>0, <1>7, <2>1, EditsReplace, ReplaceChains, AnnounceChains DEF RestInv
  <2>3. QED
    BY <2>1, <2>2, SameStays DEF RestInv, apiVars
<1>8. CASE Crash \/ Upgrade
  BY <1>8 DEF Crash, Upgrade, Restart, RestInv, Chained
<1>9. CASE UNCHANGED vars
  BY <1>9 DEF vars, apiVars, opVars, envVars, RestInv, Chained, Same, Covers, TheRule
<1>10. CASE OtherRequest
  BY <1>10 DEF OtherRequest, RestInv, Chained, apiVars, envVars, Same, Covers, TheRule
<1>11. CASE AnswerLost
  <2>1. UNCHANGED <<kind, cache, seen, required>> /\ Return("error")
    BY <1>11 DEF AnswerLost
  <2>2. ToWrite \in Object
    BY <1>0, ToWriteKeeps DEF CopyInv, CopiesAgree, Rest
  <2>3. Chained'
    BY <1>0, <1>11, <2>1, <2>2, CreatedChains, ReplaceChains DEF AnswerLost, RestInv
  <2>4. QED
    BY <2>1, <2>3 DEF Return, RestInv
<1>12. QED
  BY <1>1, <1>2, <1>3, <1>4, <1>5, <1>6, <1>7, <1>8, <1>9, <1>10, <1>11 DEF Next, Operator

(* The invariant of coming to rest holds.                                  *)
LEMMA RestInvariant == Spec => []RestInv
<1>1. Init => RestInv
  BY DEF Init, RestInv, Chained
<1>2. CopyInv /\ RestInv /\ [Next]_vars => RestInv'
  BY RestStays
<1>3. QED
  BY <1>1, <1>2, CopiesAlwaysAgree, PTL DEF Spec

(* With nothing under way an operand of any kind is as the running release *)
(* ships it, for any contents, lag, edits, conflicts, failures, restarts   *)
(* and upgrades: no request ends without a look at a copy that the API     *)
(* server still has, or an event to come.                                  *)
THEOREM HeldAtRestHolds == Spec => []HeldAtRest
<1>1. ASSUME CopyInv, RestInv, AtRest PROVE result = "unchanged" /\ Exists(obj) /\ Held(obj)
  <2>1. result = "unchanged" /\ Exists(obj) /\ Same(obj)
    BY <1>1 DEF AtRest, RestInv, Chained
  <2>2. TheRule.writes \ {"ports"} \subseteq TheRule.compares
    BY <1>1, RulesAreConsistent DEF CopyInv, Rest, Consistent
  <2>3. QED
    BY <2>1, <2>2 DEF Same, Held
<1>2. CopyInv /\ RestInv => HeldAtRest
  BY <1>1 DEF HeldAtRest
<1>3. QED
  BY <1>2, CopiesAlwaysAgree, RestInvariant, PTL

-----------------------------------------------------------------------------
(* OperandApply implements AtomicOperand *)

(* A step of the abstract operand, or none.                                *)
AtomicStep == [Atomic!Next]_<<TheRule, required, Contents>>

(* A step that leaves what is stored alone is none.                        *)
LEMMA NothingStored ==
    ASSUME UNCHANGED <<kind, obj, required>> PROVE AtomicStep
BY DEF AtomicStep, TheRule, Contents, Exists

(* What is stored once a write of new is accepted.                         *)
LEMMA ReplaceStores ==
    ASSUME CopiesAgree, Exists(obj), NEW new \in Object, NEW by, Replace(new, by), Exists(new)
    PROVE  /\ Contents # << >>
           /\ Contents' = [label |-> new.label, extra |-> new.extra, f |-> new.f]
<1>1. obj \in Object /\ latest \in Nat
  BY BoundsAssumption DEF CopiesAgree
<1>2. Contents # << >>
  <2>1. Contents = [label |-> obj.label, extra |-> obj.extra, f |-> obj.f]
    BY DEF Contents
  <2>2. DOMAIN Contents = {"label", "extra", "f"} /\ DOMAIN << >> = {}
    BY <2>1
  <2>3. QED
    BY <2>2
<1>3. CASE obj' = obj /\ new = obj
  BY <1>3 DEF Contents, Exists
<1>4. CASE obj' = [new EXCEPT !.rv = latest + 1]
  <2>1. /\ obj'.rv = latest + 1 /\ obj'.label = new.label /\ obj'.extra = new.extra
        /\ obj'.f = new.f
    BY <1>4 DEF Object
  <2>2. Exists(obj)'
    BY <1>1, <2>1 DEF Exists
  <2>3. QED
    BY <1>2, <2>1, <2>2 DEF Contents
<1>5. QED
  BY <1>2, <1>3, <1>4 DEF Replace, Announce, apiVars

(* The creation of an operand.                                             *)
LEMMA CreateIsAtomic ==
    ASSUME CopyInv, ~Exists(obj), Created, UNCHANGED <<kind, required>> PROVE AtomicStep
<1>1. /\ latest \in Nat
      /\ obj' = [rv |-> latest + 1, label |-> TRUE, extra |-> FALSE, f |-> required]
  BY BoundsAssumption DEF CopyInv, CopiesAgree, Created, Announce
<1>2. obj'.rv # 0 /\ obj'.label = TRUE /\ obj'.extra = FALSE /\ obj'.f = required
  BY <1>1
<1>3. Contents = << >> /\ Contents' = [label |-> TRUE, extra |-> FALSE, f |-> required]
  BY <1>2 DEF Contents, Exists
<1>4. TheRule' = TheRule
  BY DEF TheRule
<1>5. QED
  BY <1>3, <1>4 DEF AtomicStep, Atomic!Next, Atomic!Create, Atomic!None, Atomic!Holding

(* The update of an operand: the copy it was computed from is what is      *)
(* stored, and was seen to differ from the release.                        *)
LEMMA UpdateIsAtomic ==
    ASSUME CopyInv, RestInv, pc = "update", Exists(obj), Accepts(ToWrite),
           Replace(ToWrite, "operator"), UNCHANGED <<kind, required>>
    PROVE  AtomicStep
<1>0. CopiesAgree /\ seen \in Object /\ required \in Release /\ kind \in Kinds
  BY DEF CopyInv, CopiesAgree, Rest
<1>1. ToWrite \in Object /\ ToWrite.rv = seen.rv /\ ToWrite.extra = seen.extra
  BY <1>0, ToWriteKeeps
<1>2. seen = obj /\ ~Same(obj)
  BY <1>1 DEF RestInv, CopyInv, CopiesAgree, Agrees, Accepts, Exists
<1> DEFINE g == [x \in Fields |-> IF x \in TheRule.writes \cup TheRule.clears
                                  THEN required[x] ELSE seen.f[x]]
<1>3. ToWrite.label = TRUE /\ ToWrite.f = g
  <2> HIDE DEF g
  <2>1. /\ [seen EXCEPT !.label = TRUE, !.f = g].label = TRUE
        /\ [seen EXCEPT !.label = TRUE, !.f = g].f = g
    BY <1>0 DEF Object
  <2>2. QED
    BY <2>1 DEF ToWrite, g
<1>4. /\ Contents # << >>
      /\ Contents' = [label |-> TRUE, extra |-> obj.extra, f |-> g]
  <2>1. Exists(ToWrite)
    BY <1>1, <1>2 DEF Exists
  <2>2. /\ Contents # << >>
        /\ Contents' = [label |-> ToWrite.label, extra |-> ToWrite.extra, f |-> ToWrite.f]
    BY <1>0, <1>1, <2>1, ReplaceStores
  <2>3. QED
    BY <1>1, <1>2, <1>3, <2>2
<1>5. Contents = [label |-> obj.label, extra |-> obj.extra, f |-> obj.f]
  BY DEF Contents
<1>6. Contents.label = obj.label /\ Contents.extra = obj.extra /\ Contents.f = obj.f
  BY <1>5
<1>7. ~Atomic!UpToDate
  BY <1>2, <1>6 DEF Atomic!UpToDate, Atomic!Begins, Same, Covers, DeepDerivative
<1>8. Atomic!Merged = g
  <2>1. DOMAIN required = Fields
    BY <1>0 DEF Release
  <2>2. QED
    BY <1>2, <1>6, <2>1 DEF Atomic!Merged
<1>9. \A x \in TheRule.immutable : Contents.f[x] = required[x]
  <2>1. TheRule.immutable \subseteq TheRule.writes /\ TheRule.writes \subseteq Fields
    BY <1>0, RulesAreConsistent DEF Consistent, Fields
  <2>2. \A x \in TheRule.immutable : g[x] = required[x]
    BY <2>1
  <2>3. QED
    BY <1>3, <1>6, <2>2 DEF Accepts
<1>10. TheRule' = TheRule
  BY DEF TheRule
<1> HIDE DEF g
<1>11. Atomic!Merge
  BY <1>4, <1>6, <1>7, <1>8, <1>9, <1>10 DEF Atomic!Merge, Atomic!None, Atomic!Holding
<1>12. QED
  BY <1>11 DEF AtomicStep, Atomic!Next

(* What others do.                                                         *)
LEMMA EditIsAtomic ==
    ASSUME CopyInv, OthersEdit PROVE AtomicStep
<1>1. /\ UNCHANGED <<kind, required>> /\ TheRule' = TheRule /\ Exists(obj) /\ obj \in Object
      /\ CopiesAgree
  BY DEF CopyInv, CopiesAgree, OthersEdit, TheRule
<1>2. Contents = [label |-> obj.label, extra |-> obj.extra, f |-> obj.f] /\ Contents # << >>
  <2>1. Contents = [label |-> obj.label, extra |-> obj.extra, f |-> obj.f]
    BY <1>1 DEF Contents
  <2>2. DOMAIN Contents = {"label", "extra", "f"} /\ DOMAIN << >> = {}
    BY <2>1
  <2>3. QED
    BY <2>1, <2>2
<1>3. ASSUME NEW x \in Fields \ TheRule.immutable, NEW v \in Values,
             Replace([obj EXCEPT !.f[x] = v], "others")
      PROVE  AtomicStep
  <2> DEFINE g == [obj.f EXCEPT ![x] = v]
             new == [obj EXCEPT !.f[x] = v]
  <2>1. g \in [Fields -> Values \cup {Unset}] /\ DOMAIN obj.f = Fields
    BY <1>1 DEF Object
  <2>2. /\ new \in Object /\ new.rv = obj.rv /\ new.label = obj.label
        /\ new.extra = obj.extra /\ new.f = g
    BY <1>1, <2>1 DEF Object
  <2>3. Contents' = [label |-> obj.label, extra |-> obj.extra, f |-> g]
    <3> HIDE DEF new, g
    <3>1. Replace(new, "others") /\ Exists(new)
      BY <1>1, <1>3, <2>2 DEF new, Exists
    <3>2. QED
      BY <1>1, <2>2, <3>1, ReplaceStores
  <2>4. Contents.label = obj.label /\ Contents.extra = obj.extra /\ Contents.f = obj.f
    BY <1>2
  <2>5. Atomic!Edit
    BY <1>1, <1>2, <2>1, <2>3, <2>4 DEF Atomic!Edit, Atomic!None, Atomic!Holding
  <2>6. QED
    BY <2>5 DEF AtomicStep, Atomic!Next
<1>4. ASSUME Replace([obj EXCEPT !.label = FALSE], "others") PROVE AtomicStep
  <2> DEFINE new == [obj EXCEPT !.label = FALSE]
  <2>1. /\ new \in Object /\ new.rv = obj.rv /\ new.label = FALSE
        /\ new.extra = obj.extra /\ new.f = obj.f
    BY <1>1 DEF Object
  <2>2. Contents' = [label |-> FALSE, extra |-> obj.extra, f |-> obj.f]
    <3> HIDE DEF new
    <3>1. Replace(new, "others") /\ Exists(new)
      BY <1>1, <1>4, <2>1 DEF new, Exists
    <3>2. QED
      BY <1>1, <2>1, <3>1, ReplaceStores
  <2>3. Contents.label = obj.label /\ Contents.extra = obj.extra /\ Contents.f = obj.f
    BY <1>2
  <2>4. QED
    BY <1>1, <1>2, <2>2, <2>3 DEF Atomic!Holding, AtomicStep, Atomic!Next, Atomic!Edit, Atomic!None
<1>5. ASSUME Replace([obj EXCEPT !.extra = TRUE], "others") PROVE AtomicStep
  <2> DEFINE new == [obj EXCEPT !.extra = TRUE]
  <2>1. /\ new \in Object /\ new.rv = obj.rv /\ new.label = obj.label
        /\ new.extra = TRUE /\ new.f = obj.f
    BY <1>1 DEF Object
  <2>2. Contents' = [label |-> obj.label, extra |-> TRUE, f |-> obj.f]
    <3> HIDE DEF new
    <3>1. Replace(new, "others") /\ Exists(new)
      BY <1>1, <1>5, <2>1 DEF new, Exists
    <3>2. QED
      BY <1>1, <2>1, <3>1, ReplaceStores
  <2>3. Contents.label = obj.label /\ Contents.extra = obj.extra /\ Contents.f = obj.f
    BY <1>2
  <2>4. QED
    BY <1>1, <1>2, <2>2, <2>3 DEF Atomic!Holding, AtomicStep, Atomic!Next, Atomic!Edit, Atomic!None
<1>6. ASSUME Announce([obj EXCEPT !.rv = 0, !.extra = FALSE], "others") PROVE AtomicStep
  <2>1. obj' = [obj EXCEPT !.rv = 0, !.extra = FALSE]
    BY <1>6 DEF Announce
  <2>2. obj'.rv = 0
    BY <1>1, <2>1 DEF Object
  <2>3. Contents' = << >>
    BY <2>2 DEF Contents, Exists
  <2>4. QED
    BY <1>1, <1>2, <2>3 DEF AtomicStep, Atomic!Next, Atomic!Delete, Atomic!None
<1>7. QED
  BY <1>3, <1>4, <1>5, <1>6 DEF OthersEdit

(* Every step is a step of AtomicOperand, or stores nothing.               *)
LEMMA NextIsAtomic == CopyInv /\ RestInv /\ [Next]_vars => AtomicStep
<1> SUFFICES ASSUME CopyInv, RestInv, [Next]_vars PROVE AtomicStep
  OBVIOUS
<1>1. CASE CreateOperand \/ UpdateOperand \/ AnswerLost
  <2>1. UNCHANGED <<kind, required>>
    BY <1>1 DEF CreateOperand, UpdateOperand, AnswerLost, envVars
  <2>2. CASE UNCHANGED apiVars
    BY <2>1, <2>2, NothingStored DEF apiVars
  <2>3. QED
    BY <1>1, <2>1, <2>2, CreateIsAtomic, UpdateIsAtomic
    DEF CreateOperand, UpdateOperand, AnswerLost
<1>2. CASE StartApply \/ GetExisting \/ CallFails \/ DeliverOperand \/ OtherRequest \/ Crash
  <2>1. UNCHANGED <<kind, obj, required>>
    BY <1>2 DEF StartApply, GetExisting, CallFails, DeliverOperand, OtherRequest, Crash, Restart,
                apiVars, envVars
  <2>2. QED
    BY <2>1, NothingStored
<1>3. CASE Upgrade
  <2>1. UNCHANGED <<TheRule, Contents>> /\ required' # required
    BY <1>3 DEF Upgrade, Restart, TheRule, Contents, Exists
  <2>2. QED
    BY <2>1 DEF AtomicStep, Atomic!Next, Atomic!Upgrade
<1>4. CASE UNCHANGED vars
  BY <1>4, NothingStored DEF vars, apiVars, envVars
<1>5. QED
  BY <1>1, <1>2, <1>3, <1>4, EditIsAtomic DEF Next, Operator

(* An apply call of any kind amounts to one write on the operand as it is  *)
(* when the API server accepts the write, however old the copy was that    *)
(* ApplyResource decided on: the release is merged into what is stored,    *)
(* foreign metadata stay, and an operand that is up to date is not written.*)
THEOREM WritesAreAlwaysAtomic == Spec => WritesAreAtomic
<1>1. Init => Atomic!Init
  <2> SUFFICES ASSUME Init PROVE Atomic!Init
    OBVIOUS
  <2>1. obj.rv = 0
    BY DEF Init, Absent
  <2>2. QED
    BY <2>1 DEF Atomic!Init, Atomic!None, Contents, Exists
<1>2. QED
  BY <1>1, CopiesAlwaysAgree, RestInvariant, NextIsAtomic, PTL
  DEF Spec, WritesAreAtomic, Atomic!Spec, AtomicStep

-----------------------------------------------------------------------------
(* An apply call is one step *)

Applied == Exists(obj) /\ Held(obj)

Due == queued \/ watch # << >>

Outcome == IF pc = "idle" THEN result ELSE "running"

Call == INSTANCE ApplyCall WITH held <- Applied, due <- Due, outcome <- Outcome

(* While nobody else has written, what the informer has still to receive   *)
(* was written by this process.                                            *)
OwnWrites == ~foreign => watch = << >> \/ Applied

CallStep == [Call!Next]_<<Applied, foreign, Due, Outcome>>

(* What the code compares before it skips is what the release ships.       *)
LEMMA SameIsHeld ==
    ASSUME kind \in Kinds, NEW o, Same(o) PROVE Held(o)
BY RulesAreConsistent DEF Consistent, Same, Held

(* Whether the operand is applied depends on the operand and the release.  *)
LEMMA AppliedStays ==
    ASSUME UNCHANGED <<kind, obj, required>> PROVE Applied' = Applied
BY DEF Applied, Exists, Held, Covers, TheRule

(* A creation leaves the operand applied.                                  *)
LEMMA CreationApplies ==
    ASSUME CopyInv, UNCHANGED <<kind, required>>, Created PROVE Applied' /\ foreign' = FALSE
<1>1. required \in Release /\ latest \in Nat /\ TheRule' = TheRule
  BY BoundsAssumption DEF CopyInv, CopiesAgree, Rest, TheRule
<1>2. /\ obj' = [rv |-> latest + 1, label |-> TRUE, extra |-> FALSE, f |-> required]
      /\ foreign' = FALSE
  BY DEF Created, Announce
<1>3. obj'.rv # 0 /\ obj'.label = TRUE /\ obj'.f = required
  BY <1>1, <1>2
<1>4. \A x \in TheRule.writes : Covers(x, required[x])'
  BY <1>1, RequiredCovers DEF Covers
<1>5. QED
  BY <1>1, <1>2, <1>3, <1>4 DEF Applied, Exists, Held

(* So does an update that is accepted.                                     *)
LEMMA UpdateApplies ==
    ASSUME CopyInv, RestInv, UNCHANGED <<kind, required>>, pc = "update", Exists(obj),
           Accepts(ToWrite), Replace(ToWrite, "operator")
    PROVE  Applied' /\ foreign' = FALSE
<1>0. /\ seen \in Object /\ required \in Release /\ kind \in Kinds /\ latest \in Nat
      /\ TheRule' = TheRule
  BY BoundsAssumption DEF CopyInv, CopiesAgree, Rest, TheRule
<1> DEFINE g == [x \in Fields |-> IF x \in TheRule.writes \cup TheRule.clears
                                  THEN required[x] ELSE seen.f[x]]
<1>1. ToWrite \in Object /\ ToWrite # obj
  BY <1>0, ToWriteKeeps, WriteChanges DEF RestInv
<1>2. ToWrite.label = TRUE /\ ToWrite.f = g
  <2> HIDE DEF g
  <2>1. /\ [seen EXCEPT !.label = TRUE, !.f = g].label = TRUE
        /\ [seen EXCEPT !.label = TRUE, !.f = g].f = g
    BY <1>0 DEF Object
  <2>2. QED
    BY <2>1 DEF ToWrite, g
<1>3. obj' = [ToWrite EXCEPT !.rv = latest + 1] /\ foreign' = FALSE
  BY <1>1 DEF Replace, Announce
<1>4. obj'.rv = latest + 1 /\ obj'.label = TRUE /\ obj'.f = g
  <2> HIDE DEF g
  <2>1. QED
    BY <1>1, <1>2, <1>3 DEF Object
<1>5. \A x \in TheRule.writes : obj'.f[x] = required[x]
  BY <1>4 DEF Fields
<1>6. \A x \in TheRule.writes : Covers(x, required[x])'
  BY <1>0, RequiredCovers DEF Covers
<1>7. Exists(obj)'
  BY <1>0, <1>4 DEF Exists
<1>8. QED
  BY <1>0, <1>3, <1>4, <1>5, <1>6, <1>7 DEF Applied, Held, Covers

(* The steps of a call end in success, in an error, or are none.           *)
LEMMA ApplySteps ==
    ASSUME CopyInv, RestInv, OwnWrites, Operator \/ CallFails \/ AnswerLost
    PROVE  CallStep /\ OwnWrites'
<1>1. UNCHANGED <<kind, required>> /\ kind \in Kinds /\ queued \in BOOLEAN
  BY DEF CopyInv, Rest, Operator, StartApply, GetExisting, CreateOperand, UpdateOperand,
         CallFails, AnswerLost, envVars
<1>2. obj' = obj => Applied' = Applied
  BY <1>1, AppliedStays
<1>3. CASE StartApply
  <2>1. pc = "idle" /\ pc' = "get" /\ UNCHANGED apiVars /\ result # "running"
    BY <1>3 DEF StartApply, CopyInv, Rest
  <2>2. QED
    BY <1>2, <2>1 DEF CallStep, Call!Next, Call!Begin, Outcome, OwnWrites, apiVars
<1>4. CASE GetExisting
  <2>1. pc = "get" /\ UNCHANGED apiVars
    BY <1>4 DEF GetExisting
  <2>2. OwnWrites'
    BY <1>2, <2>1 DEF OwnWrites, apiVars
  <2>3. CASE pc' \in {"create", "update"} /\ UNCHANGED queued
    BY <1>2, <2>1, <2>2, <2>3 DEF CallStep, Outcome, Due, apiVars
  <2>4. CASE Exists(cache) /\ Same(cache) /\ Return("unchanged")
    <3>1. Applied \/ (foreign /\ Due)
      BY <1>1, <2>4, SameIsHeld DEF OwnWrites, RestInv, Chained, Applied, Due
    <3>2. UNCHANGED <<Applied, foreign, Due>> /\ Outcome = "running" /\ Outcome' = "unchanged"
      BY <1>1, <1>2, <2>1, <2>4 DEF Return, Due, Outcome, apiVars
    <3>3. QED
      BY <2>2, <3>1, <3>2 DEF CallStep, Call!Next, Call!Unchanged
  <2>5. QED
    BY <1>4, <2>3, <2>4 DEF GetExisting, Goto
<1>5. ASSUME pc \in {"get", "create", "update"}, Return("error"),
             UNCHANGED apiVars \/ (Applied' /\ foreign' = FALSE)
      PROVE  CallStep /\ OwnWrites'
  <2>1. Due' /\ Outcome = "running" /\ Outcome' = "error"
    BY <1>5 DEF Return, Due, Outcome
  <2>2. OwnWrites'
    BY <1>2, <1>5 DEF OwnWrites, apiVars
  <2>3. QED
    BY <1>2, <1>5, <2>1, <2>2 DEF CallStep, Call!Next, Call!Fail, apiVars
<1>6. ASSUME pc \in {"create", "update"}, Return("updated"), Applied', foreign' = FALSE
      PROVE  CallStep /\ OwnWrites'
  BY <1>6 DEF CallStep, Call!Next, Call!Updated, Outcome, OwnWrites, Return
<1>7. CASE CreateOperand
  BY <1>1, <1>5, <1>6, <1>7, CreationApplies DEF CreateOperand
<1>8. CASE UpdateOperand
  BY <1>1, <1>5, <1>6, <1>8, UpdateApplies DEF UpdateOperand
<1>9. CASE CallFails
  BY <1>5, <1>9 DEF CallFails
<1>10. CASE AnswerLost
  BY <1>1, <1>5, <1>10, CreationApplies, UpdateApplies DEF AnswerLost
<1>11. QED
  BY <1>3, <1>4, <1>7, <1>8, <1>9, <1>10 DEF Operator

(* What others do is followed by a call.                                   *)
LEMMA EnvironmentSteps ==
    ASSUME CopyInv, OwnWrites, DeliverOperand \/ OthersEdit \/ OtherRequest
    PROVE  CallStep /\ OwnWrites'
<1>1. UNCHANGED <<kind, required, pc, result>> /\ watch \in Seq(Object) /\ obj \in Object
  BY DEF DeliverOperand, OthersEdit, OtherRequest, opVars, envVars, CopyInv, CopiesAgree
<1>2. Outcome' = Outcome /\ (obj' = obj => Applied' = Applied)
  BY <1>1, AppliedStays DEF Outcome
<1>3. ASSUME UNCHANGED <<obj, foreign>>, queued' = TRUE, watch' = << >> \/ watch # << >>
      PROVE  CallStep /\ OwnWrites'
  <2>1. Due' /\ OwnWrites'
    BY <1>2, <1>3 DEF Due, OwnWrites
  <2>2. QED
    BY <1>2, <1>3, <2>1 DEF CallStep, Call!Next, Call!Ask
<1>4. CASE DeliverOperand
  BY <1>3, <1>4 DEF DeliverOperand
<1>5. CASE OtherRequest
  BY <1>3, <1>5 DEF OtherRequest, apiVars
<1>6. ASSUME NEW o \in Object, Announce(o, "others") PROVE CallStep /\ OwnWrites'
  <2>1. foreign' = TRUE /\ watch' # << >>
    BY <1>1, <1>6, AnnounceChains DEF Announce
  <2>2. QED
    BY <1>2, <2>1 DEF CallStep, Call!Next, Call!Disturb, OwnWrites, Due
<1>7. CASE OthersEdit
  <2>1. ASSUME UNCHANGED apiVars PROVE CallStep /\ OwnWrites'
    BY <1>2, <1>7, <2>1 DEF CallStep, OwnWrites, Due, OthersEdit, opVars, apiVars
  <2>2. ASSUME NEW new \in Object, Replace(new, "others") PROVE CallStep /\ OwnWrites'
    <3>1. latest + 1 \in Nat
      BY BoundsAssumption DEF CopyInv, CopiesAgree
    <3>2. [new EXCEPT !.rv = latest + 1] \in Object
      BY <3>1 DEF Object
    <3>3. QED
      BY <1>6, <2>1, <2>2, <3>2 DEF Replace
  <2>3. QED
    BY <1>6, <1>7, <2>2, EditsReplace
<1>8. QED
  BY <1>4, <1>5, <1>7

(* A call of ApplyResource is the one step StatusSync and OperandWatch     *)
(* take for it, for every kind and any releases, edits, deletions,         *)
(* failures and versions the cache lags behind: without an error it leaves *)
(* what the running release ships, unless the cache misses a change by     *)
(* others, and then another call is due.                                   *)
THEOREM OperandCallIsOneStep == Spec => Call!Spec
<1>1. Init => Call!Init /\ OwnWrites
  <2> SUFFICES ASSUME Init PROVE Call!Init /\ OwnWrites
    OBVIOUS
  <2>1. /\ obj = Absent /\ watch = << >> /\ foreign = FALSE /\ queued = TRUE
        /\ pc = "idle" /\ result = "none"
    BY DEF Init
  <2>2. Applied = FALSE
    BY <2>1 DEF Applied, Exists, Absent
  <2>3. QED
    BY <2>1, <2>2 DEF Call!Init, OwnWrites, Outcome, Due
<1>2. CopyInv /\ RestInv /\ OwnWrites /\ [Next]_vars => CallStep /\ OwnWrites'
  <2> SUFFICES ASSUME CopyInv, RestInv, OwnWrites, [Next]_vars PROVE CallStep /\ OwnWrites'
    OBVIOUS
  <2>1. CASE UNCHANGED vars
    <3>1. UNCHANGED <<kind, required, apiVars, pc, result, queued>>
      BY <2>1 DEF vars, opVars, envVars
    <3>2. QED
      BY <3>1, AppliedStays DEF CallStep, OwnWrites, Due, Outcome, apiVars
  <2>2. CASE Crash \/ Upgrade
    BY <2>2 DEF Crash, Upgrade, Restart, CallStep, Call!Next, Call!Restart, Outcome, OwnWrites, Due
  <2>3. QED
    BY <2>1, <2>2, ApplySteps, EnvironmentSteps DEF Next
<1>3. QED
  BY <1>1, <1>2, CopiesAlwaysAgree, RestInvariant, PTL DEF Spec, Call!Spec, CallStep
=============================================================================

---------------------------- MODULE OperandWatch ----------------------------
(***************************************************************************)
(* How the operator notices that an operand changed: the loop of           *)
(* applyResources (pkg/controllers/clusteroperator_controller.go), which   *)
(* applies the operands one by one and asks the ObjectWatcher to watch     *)
(* each, and the ObjectWatcher (cache.go), which turns informer events of  *)
(* the watched operands into requests for the controller.                  *)
(*                                                                         *)
(* An operand is abstracted to whether it is absent, as required, or       *)
(* edited; WorkloadApply and OperandApply model a single apply call.       *)
(***************************************************************************)
EXTENDS Integers, Sequences

CONSTANTS
    N,             \* number of operands of the platform
    FaultKinds,    \* "edit", "delete", "relist", "informer", "crash"
    MaxFaults,     \* bound on what others and failures do
    MaxLag,        \* bound on the versions a watch has not delivered
    MaxHandlers    \* bound on the event handlers of one operand

ASSUME BoundsAssumption ==
    N \in Nat \ {0} /\ MaxFaults \in Nat /\ MaxLag \in Nat /\ MaxHandlers \in Nat \ {0}

Operand == 1..N

Content == {"absent", "required", "edited"}

VARIABLES
    stored,       \* the operands in the API server
    watch,        \* versions the informers have not received yet
    cached,       \* the informers' copies
    handlers,     \* event handlers added to the informer for an operand
    watched,      \* watchedResources
    channel,      \* operands with an event on its way to the controller
    queued,       \* the controller has a pending request
    missed,       \* history: a change that no event follows
    pc,           \* "idle", "apply" or "watch"
    next,         \* the operand the loop is at
    updated,      \* the loop's variable of that name
    progressing,  \* the last pass ended by setting Progressing
    faults        \* edits by others and failures so far

apiVars == <<stored, watch>>
informerVars == <<cached, handlers, watched>>
opVars == <<pc, next, updated, progressing>>
vars == <<apiVars, informerVars, channel, queued, missed, opVars, faults>>

TypeOK ==
    /\ stored \in [Operand -> Content] /\ cached \in [Operand -> Content]
    /\ \A r \in Operand : watch[r] \in Seq(Content) /\ Len(watch[r]) <= MaxLag
    /\ handlers \in [Operand -> 0..MaxHandlers]
    /\ watched \subseteq Operand /\ channel \subseteq Operand
    /\ queued \in BOOLEAN /\ missed \in BOOLEAN
    /\ pc \in {"idle", "apply", "watch"} /\ next \in Operand
    /\ updated \in BOOLEAN /\ progressing \in BOOLEAN
    /\ faults \in 0..MaxFaults

Init ==
    /\ stored \in [Operand -> Content]
    /\ cached = stored
    /\ watch = [r \in Operand |-> << >>]
    /\ handlers = [r \in Operand |-> 0] /\ watched = {} /\ channel = {}
    /\ queued = TRUE /\ missed = FALSE
    /\ pc = "idle" /\ next = 1
    /\ updated = FALSE /\ progressing = FALSE
    /\ faults = 0

Fault(kind) ==
    /\ kind \in FaultKinds /\ faults < MaxFaults
    /\ faults' = faults + 1

Store(r, content) ==
    /\ Len(watch[r]) < MaxLag
    /\ stored' = [stored EXCEPT ![r] = content]
    /\ watch' = [watch EXCEPT ![r] = Append(@, content)]

-----------------------------------------------------------------------------
(* The pass of the operator over its operands.                             *)

StartSync ==
    /\ pc = "idle" /\ queued
    /\ queued' = FALSE
    /\ pc' = "apply" /\ next' = 1 /\ updated' = FALSE
    /\ UNCHANGED <<apiVars, informerVars, channel, missed, progressing, faults>>

(* A create is refused when the object exists, an update when the copy     *)
(* read is not the stored version.                                         *)
Refused(r) ==
    IF cached[r] = "absent" THEN stored[r] # "absent" ELSE watch[r] # << >>

(* The bug of logging the error of an apply and going on.                  *)
ApplyOperandLenient ==
    /\ pc = "apply"
    /\ \/ /\ cached[next] = "required" \/ Refused(next)
          /\ updated' = FALSE
          /\ UNCHANGED apiVars
       \/ /\ cached[next] # "required" /\ ~Refused(next)
          /\ Store(next, "required")
          /\ updated' = TRUE
    /\ pc' = "watch"
    /\ UNCHANGED <<informerVars, channel, queued, missed, next, progressing, faults>>

(* ApplyResource on the operand the loop is at.                            *)
ApplyOperand ==
    /\ pc = "apply"
    /\ \/ /\ cached[next] = "required"
          /\ updated' = FALSE /\ pc' = "watch"
          /\ UNCHANGED <<apiVars, queued>>
       \/ /\ cached[next] # "required" /\ ~Refused(next)
          /\ Store(next, "required")
          /\ updated' = TRUE /\ pc' = "watch"
          /\ UNCHANGED queued
       \/ /\ cached[next] # "required" /\ Refused(next)
          /\ pc' = "idle" /\ queued' = TRUE
          /\ UNCHANGED <<apiVars, updated>>
    /\ UNCHANGED <<informerVars, channel, missed, next, progressing, faults>>

(* The end of the loop's body, and of the pass after the last operand:     *)
(* what sync makes of the loop's last value of updated.                    *)
Advance ==
    IF next < N
    THEN pc' = "apply" /\ next' = next + 1 /\ UNCHANGED progressing
    ELSE pc' = "idle" /\ next' = 1 /\ progressing' = updated

(* The bug of watching again what is watched.                              *)
WatchUnmarked(r) ==
    /\ handlers' = [handlers EXCEPT ![r] = IF @ < MaxHandlers THEN @ + 1 ELSE @]
    /\ channel' = IF cached[r] # "absent" THEN channel \cup {r} ELSE channel
    /\ UNCHANGED watched

(* A handler is added to the informer, which replays the object it holds,  *)
(* and the key is marked.                                                  *)
Watch(r) ==
    IF r \in watched
    THEN UNCHANGED <<handlers, channel, watched>>
    ELSE /\ handlers' = [handlers EXCEPT ![r] = @ + 1]
         /\ channel' = IF cached[r] # "absent" THEN channel \cup {r} ELSE channel
         /\ watched' = watched \cup {r}

(* Of an operand deleted before its first watch nothing is replayed.     *)
DeletedUnwatched(r) == r \notin watched /\ cached[r] = "absent" /\ watch[r] = << >>

WatchOperand ==
    /\ pc = "watch"
    /\ Watch(next)
    /\ missed' = (missed \/ DeletedUnwatched(next))
    /\ Advance
    /\ UNCHANGED <<apiVars, cached, queued, updated, faults>>

(* GetInformer fails: Watch returns nil and the loop goes on.              *)
GetInformerFails ==
    /\ pc = "watch" /\ next \notin watched
    /\ Fault("informer")
    /\ missed' = TRUE
    /\ Advance
    /\ UNCHANGED <<apiVars, informerVars, channel, queued, updated>>

Operator == StartSync \/ ApplyOperand \/ WatchOperand

-----------------------------------------------------------------------------
(* Informer events.                                                        *)

(* The bug of forwarding additions and updates only.                       *)
queueEventForLiving(r, new) ==
    channel' = IF handlers[r] > 0 /\ new # cached[r] /\ new # "absent"
               THEN channel \cup {r} ELSE channel

(* The handler sends an event unless the object is content-wise unchanged. *)
queueEventForObject(r, new) ==
    channel' = IF handlers[r] > 0 /\ new # cached[r] THEN channel \cup {r} ELSE channel

Deliver(r) ==
    /\ watch[r] # << >>
    /\ queueEventForObject(r, Head(watch[r]))
    /\ cached' = [cached EXCEPT ![r] = Head(watch[r])]
    /\ watch' = [watch EXCEPT ![r] = Tail(@)]
    /\ UNCHANGED <<stored, handlers, watched, queued, missed, opVars, faults>>

(* The watch breaks, and the informer lists again.  A deletion it missed   *)
(* comes as a tombstone, which is no client.Object: the handler drops it.  *)
(* Of an operand that was changed and changed back nothing is seen at all. *)
Relist(r) ==
    /\ watch[r] # << >>
    /\ Fault("relist")
    /\ IF stored[r] = "absent"
       THEN UNCHANGED channel
       ELSE queueEventForObject(r, stored[r])
    /\ missed' = (missed \/ stored[r] \in {"absent", cached[r]})
    /\ cached' = [cached EXCEPT ![r] = stored[r]]
    /\ watch' = [watch EXCEPT ![r] = << >>]
    /\ UNCHANGED <<stored, handlers, watched, queued, opVars>>

(* The controller's channel source maps the event to its one request.      *)
ReceiveEvent ==
    /\ \E r \in channel : channel' = channel \ {r}
    /\ queued' = TRUE
    /\ UNCHANGED <<apiVars, informerVars, missed, opVars, faults>>

(* The periodic resync of the ClusterOperator informer.                    *)
Resync ==
    /\ ~queued
    /\ queued' = TRUE
    /\ UNCHANGED <<apiVars, informerVars, channel, missed, opVars, faults>>

-----------------------------------------------------------------------------
OthersEdit(r) ==
    /\ stored[r] # "absent"
    /\ \/ Fault("edit") /\ Store(r, "edited")
       \/ Fault("delete") /\ Store(r, "absent")
    /\ UNCHANGED <<informerVars, channel, queued, missed, opVars>>

Crash ==
    /\ Fault("crash")
    /\ cached' = stored /\ watch' = [r \in Operand |-> << >>]
    /\ handlers' = [r \in Operand |-> 0] /\ watched' = {} /\ channel' = {}
    /\ queued' = TRUE
    /\ pc' = "idle" /\ next' = 1
    /\ UNCHANGED <<stored, missed, updated, progressing>>

Next ==
    \/ Operator
    \/ GetInformerFails
    \/ \E r \in Operand : Deliver(r) \/ Relist(r) \/ OthersEdit(r)
    \/ ReceiveEvent
    \/ Resync
    \/ Crash

Spec == Init /\ [][Next]_vars

Fairness ==
    /\ WF_vars(Operator)
    /\ \A r \in Operand : WF_vars(Deliver(r))
    /\ WF_vars(ReceiveEvent)

FairSpec == Spec /\ Fairness

-----------------------------------------------------------------------------
(* A process adds at most one handler to the informer for an operand,      *)
(* however many passes it makes: handlers are never removed.               *)
OneHandler == \A r \in Operand : handlers[r] <= 1

AllRequired == \A r \in Operand : stored[r] = "required"

(* Nothing is under way: no event, no request, no pass.                    *)
AtRest ==
    /\ pc = "idle" /\ ~queued /\ channel = {}
    /\ \A r \in Operand : watch[r] = << >>

(* With nothing under way every operand is as required, unless a change    *)
(* had no event: no edit or deletion slips through between the pass, the   *)
(* first watch of an operand, the informer and the queue.                  *)
UndoneAtRest == AtRest /\ ~missed => AllRequired

(* What others do to the operands is undone: the event of a change is not  *)
(* lost between the informer, the ObjectWatcher and the queue, also when   *)
(* it comes while a pass is under way.  Events alone achieve it unless a   *)
(* change has no event; then the 10-minute resync has to recur.            *)
Reverted == (<>missed => WF_vars(Resync)) => <>[]AllRequired

=============================================================================

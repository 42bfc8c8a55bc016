------------------------- MODULE OperandWatchProofs -------------------------
(***************************************************************************)
(* Theorems on OperandWatch, for any number of operands, any lag of the    *)
(* informers and any number of edits, failures and restarts: the types,    *)
(* that no pass adds a second handler for an operand, and that no change   *)
(* is left standing with nothing under way to undo it.                     *)
(***************************************************************************)
EXTENDS OperandWatch, TLAPS

(* What a watch has not delivered is bounded, and the loop's counter stays *)
(* on an operand.                                                          *)
Bounded == \A r \in Operand : watch[r] \in Seq(Content) /\ Len(watch[r]) <= MaxLag

Typed == TypeOK /\ watch \in [Operand -> Seq(Content)]

(* OneHandler is not inductive: whether Watch adds a handler depends on    *)
(* the mark, so the two have to agree.                                     *)
Marked == \A r \in Operand : handlers[r] = IF r \in watched THEN 1 ELSE 0

HandlerInv == Typed /\ Marked

(* The handlers and the marks agree initially.                             *)
LEMMA InitTyped == Init => HandlerInv
<1> SUFFICES ASSUME Init PROVE HandlerInv
  OBVIOUS
<1>1. watch \in [Operand -> Seq(Content)] /\ Bounded
  BY BoundsAssumption DEF Init, Bounded
<1>2. 1 \in Operand
  BY BoundsAssumption DEF Operand
<1>3. handlers \in [Operand -> 0..MaxHandlers] /\ Marked
  BY BoundsAssumption DEF Init, Marked
<1>4. 0 \in 0..MaxFaults
  BY BoundsAssumption
<1>5. QED
  BY <1>1, <1>2, <1>3, <1>4 DEF Init, HandlerInv, Typed, TypeOK, Bounded

(* Storing a version keeps the types: the guard is the bound on the lag.   *)
LEMMA StoreTyped ==
    ASSUME Typed, NEW r \in Operand, NEW content \in Content, Store(r, content)
    PROVE  /\ stored' \in [Operand -> Content]
           /\ watch' \in [Operand -> Seq(Content)]
           /\ Bounded'
<1>1. stored' \in [Operand -> Content]
  BY DEF Typed, TypeOK, Store
<1>2. Append(watch[r], content) \in Seq(Content)
      /\ Len(Append(watch[r], content)) <= MaxLag
  BY BoundsAssumption DEF Typed, TypeOK, Store
<1>3. watch' = [watch EXCEPT ![r] = Append(watch[r], content)]
  BY DEF Store
<1>4. QED
  BY <1>1, <1>2, <1>3 DEF Typed, TypeOK, Bounded

(* The loop's counter after the end of its body.                           *)
LEMMA AdvanceTyped ==
    ASSUME Typed, Advance
    PROVE  next' \in Operand /\ pc' \in {"idle", "apply"} /\ progressing' \in BOOLEAN
BY BoundsAssumption DEF Typed, TypeOK, Advance, Operand

(* Every step keeps them in agreement.                                     *)
LEMMA StepTyped == HandlerInv /\ [Next]_vars => HandlerInv'
<1> SUFFICES ASSUME HandlerInv, [Next]_vars PROVE HandlerInv'
  OBVIOUS
<1> USE DEF HandlerInv
<1>1. CASE StartSync
  <2>1. 1 \in Operand
    BY BoundsAssumption DEF Operand
  <2>2. QED
    BY <1>1, <2>1 DEF StartSync, Typed, TypeOK, Marked, apiVars, informerVars
<1>2. CASE ApplyOperand
  <2>1. next \in Operand /\ "required" \in Content
    BY DEF Typed, TypeOK, Content
  <2>2. UNCHANGED <<informerVars, channel, missed, next, progressing, faults>>
    BY <1>2 DEF ApplyOperand
  <2>3. /\ stored' \in [Operand -> Content]
        /\ watch' \in [Operand -> Seq(Content)]
        /\ Bounded'
    BY <1>2, <2>1, StoreTyped DEF ApplyOperand, Typed, TypeOK, apiVars, Bounded
  <2>4. updated' \in BOOLEAN /\ queued' \in BOOLEAN /\ pc' \in {"idle", "apply", "watch"}
    BY <1>2 DEF ApplyOperand, Typed, TypeOK
  <2>5. QED
    BY <2>2, <2>3, <2>4 DEF Typed, TypeOK, Marked, Bounded, informerVars
<1>3. CASE WatchOperand
  <2>1. next \in Operand
    BY DEF Typed, TypeOK
  <2>2. /\ handlers' \in [Operand -> 0..MaxHandlers]
        /\ watched' \subseteq Operand /\ channel' \subseteq Operand
        /\ Marked'
    BY <1>3, <2>1, BoundsAssumption DEF WatchOperand, Watch, Typed, TypeOK, Marked
  <2>3. missed' \in BOOLEAN
    BY <1>3, Zenon DEF WatchOperand, Typed, TypeOK, DeletedUnwatched
  <2>4. QED
    BY <1>3, <2>2, <2>3, AdvanceTyped DEF WatchOperand, Typed, TypeOK, apiVars
<1>4. CASE GetInformerFails
  BY <1>4, AdvanceTyped, BoundsAssumption
  DEF GetInformerFails, Fault, Typed, TypeOK, Marked, apiVars, informerVars
<1>5. ASSUME NEW r \in Operand, Deliver(r) PROVE HandlerInv'
  <2>1. Head(watch[r]) \in Content /\ Tail(watch[r]) \in Seq(Content)
        /\ Len(Tail(watch[r])) <= MaxLag
    BY <1>5, BoundsAssumption DEF Deliver, Typed, TypeOK
  <2>2. channel' \subseteq Operand
    BY <1>5 DEF Deliver, queueEventForObject, Typed, TypeOK
  <2>3. QED
    BY <1>5, <2>1, <2>2 DEF Deliver, Typed, TypeOK, Marked, opVars
<1>6. ASSUME NEW r \in Operand, Relist(r) PROVE HandlerInv'
  <2>1. channel' \subseteq Operand
    BY <1>6 DEF Relist, queueEventForObject, Typed, TypeOK
  <2>2. missed' \in BOOLEAN
    BY <1>6, Zenon DEF Relist, Typed, TypeOK
  <2>3. << >> \in Seq(Content) /\ Len(<< >>) <= MaxLag
    BY BoundsAssumption
  <2>4. QED
    BY <1>6, <2>1, <2>2, <2>3, BoundsAssumption DEF Relist, Fault, Typed, TypeOK, Marked, opVars
<1>7. ASSUME NEW r \in Operand, OthersEdit(r) PROVE HandlerInv'
  <2>1. {"edited", "absent"} \subseteq Content
    BY DEF Content
  <2>2. /\ stored' \in [Operand -> Content]
        /\ watch' \in [Operand -> Seq(Content)]
        /\ Bounded'
    BY <1>7, <2>1, StoreTyped DEF OthersEdit
  <2>3. faults' \in 0..MaxFaults
    BY <1>7, BoundsAssumption DEF OthersEdit, Fault, Typed, TypeOK
  <2>4. QED
    BY <1>7, <2>2, <2>3 DEF OthersEdit, Typed, TypeOK, Marked, Bounded, informerVars, opVars
<1>8. CASE ReceiveEvent
  BY <1>8 DEF ReceiveEvent, Typed, TypeOK, Marked, apiVars, informerVars, opVars
<1>9. CASE Resync
  BY <1>9 DEF Resync, Typed, TypeOK, Marked, apiVars, informerVars, opVars
<1>10. CASE Crash
  <2>1. 1 \in Operand /\ 0 \in 0..MaxHandlers
    BY BoundsAssumption DEF Operand
  <2>2. watch' \in [Operand -> Seq(Content)] /\ Bounded'
    BY <1>10, BoundsAssumption DEF Crash, Bounded
  <2>3. handlers' \in [Operand -> 0..MaxHandlers] /\ Marked'
    BY <1>10, <2>1 DEF Crash, Marked
  <2>4. faults' \in 0..MaxFaults
    BY <1>10, BoundsAssumption DEF Crash, Fault, Typed, TypeOK
  <2>5. QED
    BY <1>10, <2>1, <2>2, <2>3, <2>4 DEF Crash, Typed, TypeOK, Bounded
<1>11. CASE UNCHANGED vars
  BY <1>11 DEF vars, apiVars, informerVars, opVars, Typed, TypeOK, Marked
<1>12. QED
  BY <1>1, <1>2, <1>3, <1>4, <1>5, <1>6, <1>7, <1>8, <1>9, <1>10, <1>11 DEF Next, Operator

(* The types of OperandWatch: the loop of applyResources stays on the      *)
(* operands, the handlers and the undelivered versions within their bounds.*)
THEOREM WatchTypes == Spec => []TypeOK
<1>1. HandlerInv => TypeOK
  BY DEF HandlerInv, Typed
<1>2. QED
  BY <1>1, InitTyped, StepTyped, PTL DEF Spec

(* Watch adds a handler for an operand once, in however many passes: it    *)
(* goes by watchedResources, and the mark is set with the handler.         *)
THEOREM HandlersAreAddedOnce == Spec => []OneHandler
<1>1. HandlerInv => OneHandler
  BY DEF HandlerInv, Marked, OneHandler
<1>2. QED
  BY <1>1, InitTyped, StepTyped, PTL DEF Spec

-----------------------------------------------------------------------------
(* Nothing slips through *)

(* The informer's copy and what it has not received end with what is       *)
(* stored.                                                                 *)
Chained(r) ==
    /\ watch[r] = << >> => cached[r] = stored[r]
    /\ watch[r] # << >> => watch[r][Len(watch[r])] = stored[r]

(* Only the operator creates an operand that was deleted.                  *)
Recreated(r) ==
    /\ watch[r] # << >> /\ cached[r] = "absent" => watch[r][1] = "required"
    /\ \A i \in 1 .. Len(watch[r]) :
          i # Len(watch[r]) /\ watch[r][i] = "absent" => watch[r][i + 1] = "required"

(* The pass has still to apply the operand.                                *)
Ahead(r) == pc # "idle" /\ (next < r \/ (next = r /\ pc = "apply"))

(* The operator's own write is still to be received.                       *)
Written(r) == \E i \in 1 .. Len(watch[r]) : watch[r][i] = "required"

(* An operand is unwatched only until the pass gets to it; the copy of one *)
(* that is watched is not as required only until an event, a request, the  *)
(* pass or the operator's own write comes.                                 *)
Noticed(r) ==
    ~missed =>
      /\ r \notin watched => queued \/ (pc # "idle" /\ next <= r)
      /\ r \in watched /\ cached[r] # "required" =>
            r \in channel \/ queued \/ Ahead(r) \/ Written(r)

Known(r) == Chained(r) /\ Recreated(r) /\ Noticed(r)

NoticeInv == \A r \in Operand : Known(r)

(* What an appended version leaves of a watch.                             *)
LEMMA AppendIs ==
    ASSUME NEW w \in Seq(Content), NEW v \in Content
    PROVE  /\ Append(w, v) \in Seq(Content) /\ Append(w, v) # << >>
           /\ Len(Append(w, v)) = Len(w) + 1 /\ Len(w) \in Nat
           /\ Append(w, v)[Len(w) + 1] = v
           /\ \A i \in 1 .. Len(w) : Append(w, v)[i] = w[i]
           /\ w = << >> <=> Len(w) = 0
OBVIOUS

(* What is left of a watch when a version was delivered.                   *)
LEMMA TailIs ==
    ASSUME NEW w \in Seq(Content), w # << >>
    PROVE  /\ Tail(w) \in Seq(Content) /\ Len(w) \in Nat \ {0} /\ Len(Tail(w)) = Len(w) - 1
           /\ Head(w) = w[1]
           /\ \A i \in 1 .. Len(w) - 1 : Tail(w)[i] = w[i + 1]
           /\ Tail(w) = << >> <=> Len(w) = 1
<1>1. /\ Tail(w) \in Seq(Content) /\ Len(w) \in Nat \ {0} /\ Len(Tail(w)) = Len(w) - 1
      /\ Head(w) = w[1]
      /\ \A i \in 1 .. Len(w) - 1 : Tail(w)[i] = w[i + 1]
  OBVIOUS
<1>2. ASSUME NEW v \in Seq(Content) PROVE v = << >> <=> Len(v) = 0
  OBVIOUS
<1>3. Tail(w) = << >> <=> Len(Tail(w)) = 0
  BY <1>1, <1>2
<1>4. QED
  BY <1>1, <1>3

(* Storing a version, unless it is an edit of what is absent.              *)
LEMMA StoreKnown ==
    ASSUME Typed, NEW r \in Operand, NEW content \in Content, Store(r, content), UNCHANGED cached,
           NEW q \in Operand, Chained(q), Recreated(q),
           content = "required" \/ stored[r] # "absent"
    PROVE  /\ Chained(q)' /\ Recreated(q)' /\ (Written(q) => Written(q)')
           /\ q = r /\ content = "required" => Written(q)'
<1>1. CASE q # r
  <2>1. watch'[q] = watch[q] /\ stored'[q] = stored[q]
    BY <1>1 DEF Store, Typed, TypeOK
  <2>2. QED
    BY <1>1, <2>1 DEF Chained, Recreated, Written
<1>2. CASE q = r
  <2> DEFINE w == watch[q]
             w2 == Append(w, content)
             n == Len(w)
  <2>1. watch'[q] = w2 /\ stored'[q] = content /\ w \in Seq(Content)
    BY <1>2 DEF Store, Typed, TypeOK
  <2>2. /\ w2 # << >> /\ Len(w2) = n + 1 /\ n \in Nat /\ w2[n + 1] = content
        /\ \A i \in 1 .. n : w2[i] = w[i]
        /\ w = << >> <=> n = 0
    BY <2>1, AppendIs
  <2>3. /\ w = << >> => cached[q] = stored[q]
        /\ w # << >> => w[n] = stored[q]
        /\ w # << >> /\ cached[q] = "absent" => w[1] = "required"
        /\ \A i \in 1 .. n : i # n /\ w[i] = "absent" => w[i + 1] = "required"
    BY DEF Chained, Recreated
  <2> HIDE DEF w, w2, n
  <2>4. /\ cached[q] = "absent" => w2[1] = "required"
        /\ \A i \in 1 .. n + 1 : i # n + 1 /\ w2[i] = "absent" => w2[i + 1] = "required"
    BY <1>2, <2>2, <2>3
  <2>5. Chained(q)' /\ Recreated(q)'
    BY <2>1, <2>2, <2>4 DEF Chained, Recreated
  <2>6. /\ Written(q) => Written(q)'
        /\ content = "required" => Written(q)'
    BY <2>1, <2>2 DEF Written, w, n
  <2>7. QED
    BY <2>5, <2>6
<1>3. QED
  BY <1>1, <1>2

(* Receiving a version: what is not as required has an event, or another   *)
(* version is to come.                                                     *)
LEMMA DeliverKnown ==
    ASSUME Typed, Marked, NEW r \in Operand, Deliver(r), NEW q \in Operand, Known(q)
    PROVE  Known(q)'
<1>0. UNCHANGED <<stored, handlers, watched, queued, missed, pc, next>> /\ channel \subseteq channel'
  BY DEF Deliver, opVars, queueEventForObject
<1>1. CASE q # r
  <2>1. watch'[q] = watch[q] /\ cached'[q] = cached[q]
    BY <1>1 DEF Deliver, Typed, TypeOK
  <2>2. QED
    BY <1>0, <1>1, <2>1 DEF Known, Chained, Recreated, Noticed, Written, Ahead
<1>2. CASE q = r
  <2> DEFINE w == watch[q]
             w2 == Tail(w)
             n == Len(w)
  <2>1. watch'[q] = w2 /\ cached'[q] = Head(w) /\ w \in Seq(Content) /\ w # << >>
    BY <1>2 DEF Deliver, Typed, TypeOK
  <2>2. /\ n \in Nat \ {0} /\ Len(w2) = n - 1 /\ Head(w) = w[1]
        /\ \A i \in 1 .. n - 1 : w2[i] = w[i + 1]
        /\ w2 = << >> <=> n = 1
    BY <2>1, TailIs
  <2>3. /\ w[n] = stored[q]
        /\ \A i \in 1 .. n : i # n /\ w[i] = "absent" => w[i + 1] = "required"
    BY <2>1 DEF Known, Chained, Recreated
  <2>4. Head(w) # cached[q] /\ q \in watched => q \in channel'
    BY <1>2 DEF Deliver, queueEventForObject, Marked
  <2> HIDE DEF w, w2, n
  <2>5. Chained(q)' /\ Recreated(q)'
    <3>1. /\ w2 = << >> => Head(w) = stored[q]
          /\ w2 # << >> => w2[Len(w2)] = stored[q]
      BY <2>2, <2>3
    <3>2. w2 # << >> /\ Head(w) = "absent" => w2[1] = "required"
      BY <2>2, <2>3
    <3>3. ASSUME NEW i \in 1 .. Len(w2), i # Len(w2), w2[i] = "absent" PROVE w2[i + 1] = "required"
      BY <2>2, <2>3, <3>3
    <3>4. QED
      BY <1>0, <2>1, <3>1, <3>2, <3>3 DEF Chained, Recreated
  <2>6. Head(w) # "required" /\ Written(q) => Written(q)'
    <3>1. ASSUME NEW i \in 1 .. n, w[i] = "required", w[1] # "required"
          PROVE  i - 1 \in 1 .. n - 1 /\ w2[i - 1] = "required"
      BY <2>2, <3>1
    <3>2. QED
      BY <2>1, <2>2, <3>1 DEF Written, w, n
  <2>7. Noticed(q)'
    <3>1. Ahead(q)' <=> Ahead(q)
      BY <1>0 DEF Ahead
    <3>2. QED
      BY <1>0, <2>1, <2>4, <2>6, <3>1 DEF Known, Noticed
  <2>8. QED
    BY <2>5, <2>7 DEF Known
<1>3. QED
  BY <1>1, <1>2

(* A relist keeps what is known of each operand.                           *)
LEMMA RelistKnown ==
    ASSUME Typed, Marked, NEW r \in Operand, Relist(r), NEW q \in Operand, Known(q)
    PROVE  Known(q)'
<1>0. /\ UNCHANGED <<stored, handlers, watched, queued, pc, next>> /\ channel \subseteq channel'
      /\ ~missed' => ~missed
  BY DEF Relist, opVars, queueEventForObject
<1>1. CASE q # r
  <2>1. watch'[q] = watch[q] /\ cached'[q] = cached[q]
    BY <1>1 DEF Relist, Typed, TypeOK
  <2>2. QED
    BY <1>0, <1>1, <2>1 DEF Known, Chained, Recreated, Noticed, Written, Ahead
<1>2. CASE q = r
  <2>1. watch'[q] = << >> /\ cached'[q] = stored[q]
    BY <1>2 DEF Relist, Typed, TypeOK
  <2>2. ~missed' => stored[q] # "absent" /\ stored[q] # cached[q]
    BY <1>2 DEF Relist
  <2>3. ~missed' /\ q \in watched => q \in channel'
    BY <1>2, <2>2 DEF Relist, queueEventForObject, Marked
  <2>4. Chained(q)' /\ Recreated(q)'
    BY <1>0, <2>1 DEF Chained, Recreated
  <2>5. Noticed(q)'
    BY <1>0, <2>3 DEF Known, Noticed
  <2>6. QED
    BY <2>4, <2>5 DEF Known
<1>3. QED
  BY <1>1, <1>2

(* The pass: what is behind it is watched.                                 *)
LEMMA ApplyKnown ==
    ASSUME Typed, ApplyOperand, NEW q \in Operand, Known(q) PROVE Known(q)'
<1>0. UNCHANGED <<informerVars, channel, missed, next>> /\ pc = "apply" /\ next \in Operand
  BY DEF ApplyOperand, Typed, TypeOK
<1>1. CASE cached[next] = "required" /\ UNCHANGED <<apiVars, queued>> /\ pc' = "watch"
  BY <1>0, <1>1 DEF Known, Chained, Recreated, Noticed, Written, Ahead, apiVars, informerVars, Operand
<1>2. CASE Store(next, "required") /\ pc' = "watch" /\ UNCHANGED queued
  <2>1. /\ Chained(q)' /\ Recreated(q)' /\ (Written(q) => Written(q)')
        /\ q = next => Written(q)'
    BY <1>0, <1>2, StoreKnown DEF Known, informerVars, Content
  <2>2. Ahead(q) => Ahead(q)' \/ q = next
    BY <1>0, <1>2 DEF Ahead, Operand
  <2>3. Noticed(q)'
    BY <1>0, <1>2, <2>1, <2>2 DEF Known, Noticed, informerVars
  <2>4. QED
    BY <2>1, <2>3 DEF Known
<1>3. CASE queued' = TRUE /\ UNCHANGED apiVars
  BY <1>0, <1>3 DEF Known, Chained, Recreated, Noticed, apiVars, informerVars
<1>4. QED
  BY <1>1, <1>2, <1>3 DEF ApplyOperand

(* So does Watch, whether it adds a handler or fails.                      *)
LEMMA WatchKnown ==
    ASSUME Typed, WatchOperand, NEW q \in Operand, Known(q) PROVE Known(q)'
<1>0. /\ UNCHANGED <<stored, watch, cached, queued>> /\ pc = "watch" /\ next \in Operand
      /\ ~missed' => ~missed /\ ~DeletedUnwatched(next)
      /\ channel \subseteq channel' /\ watched' = watched \cup {next}
      /\ next \notin watched /\ cached[next] # "absent" => next \in channel'
  BY DEF WatchOperand, Watch, apiVars, Typed, TypeOK
<1>1. /\ next < q => pc' = "apply" /\ next' <= q
      /\ Ahead(q) => Ahead(q)'
  BY <1>0, BoundsAssumption DEF WatchOperand, Advance, Ahead, Operand
<1>2. Chained(q)' /\ Recreated(q)'
  BY <1>0 DEF Known, Chained, Recreated
<1>3. Written(q)' <=> Written(q)
  BY <1>0 DEF Written
<1>4. Noticed(q)'
  <2> SUFFICES ASSUME ~missed' PROVE Noticed(q)'
    BY DEF Noticed
  <2>1. q \notin watched' => queued' \/ (pc' # "idle" /\ next' <= q)
    <3>1. q \notin watched' => q \notin watched /\ q # next
      BY <1>0
    <3>2. q \notin watched' => queued \/ next < q
      BY <1>0, <3>1 DEF Known, Noticed, Operand
    <3>3. QED
      BY <1>0, <1>1, <3>2
  <2>2. ASSUME q = next, q \notin watched, cached[q] = "absent" PROVE Written(q)
    <3>1. watch[q] # << >> /\ watch[q] \in Seq(Content)
      BY <1>0, <2>2 DEF DeletedUnwatched, Typed, TypeOK
    <3>2. watch[q][1] = "required"
      BY <2>2, <3>1 DEF Known, Recreated
    <3>3. 1 \in 1 .. Len(watch[q])
      BY <3>1
    <3>4. QED
      BY <3>2, <3>3 DEF Written
  <2>3. q \in watched' /\ cached'[q] # "required" =>
          q \in channel' \/ queued' \/ Ahead(q)' \/ Written(q)'
    BY <1>0, <1>1, <1>3, <2>2 DEF Known, Noticed
  <2>4. QED
    BY <2>1, <2>3 DEF Noticed
<1>5. QED
  BY <1>2, <1>4 DEF Known

(* So does every step.                                                     *)
LEMMA NoticeStep ==
    ASSUME HandlerInv, NoticeInv, [Next]_vars PROVE NoticeInv'
<1> SUFFICES ASSUME NEW q \in Operand PROVE Known(q)'
  BY DEF NoticeInv
<1>0. Typed /\ Marked /\ Known(q)
  BY DEF HandlerInv, NoticeInv
<1>1. CASE StartSync
  BY <1>0, <1>1 DEF StartSync, Known, Chained, Recreated, Noticed, Ahead, Written, Operand,
                    apiVars, informerVars
<1>2. CASE ApplyOperand
  BY <1>0, <1>2, ApplyKnown
<1>3. CASE WatchOperand
  BY <1>0, <1>3, WatchKnown
<1>4. CASE GetInformerFails
  BY <1>0, <1>4 DEF GetInformerFails, Known, Chained, Recreated, Noticed, apiVars, informerVars
<1>5. ASSUME NEW r \in Operand, Deliver(r) PROVE Known(q)'
  BY <1>0, <1>5, DeliverKnown
<1>6. ASSUME NEW r \in Operand, Relist(r) PROVE Known(q)'
  BY <1>0, <1>6, RelistKnown
<1>7. ASSUME NEW r \in Operand, OthersEdit(r) PROVE Known(q)'
  <2>1. /\ UNCHANGED <<cached, watched, channel, queued, missed, pc, next>>
        /\ stored[r] # "absent" /\ \E content \in Content : Store(r, content)
    BY <1>7 DEF OthersEdit, informerVars, opVars, Content
  <2>2. Chained(q)' /\ Recreated(q)' /\ (Written(q) => Written(q)')
    BY <1>0, <2>1, StoreKnown DEF Known
  <2>3. Ahead(q)' <=> Ahead(q)
    BY <2>1 DEF Ahead
  <2>4. QED
    BY <1>0, <2>1, <2>2, <2>3 DEF Known, Noticed
<1>8. CASE ReceiveEvent
  BY <1>0, <1>8 DEF ReceiveEvent, Known, Chained, Recreated, Noticed, apiVars, informerVars, opVars
<1>9. CASE Resync
  BY <1>0, <1>9 DEF Resync, Known, Chained, Recreated, Noticed, apiVars, informerVars, opVars
<1>10. CASE Crash
  <2>1. watch'[q] = << >> /\ cached'[q] = stored'[q] /\ queued'
    BY <1>10 DEF Crash
  <2>2. QED
    BY <2>1 DEF Known, Chained, Recreated, Noticed
<1>11. CASE UNCHANGED vars
  BY <1>0, <1>11 DEF vars, Known, Chained, Recreated, Noticed, Ahead, Written, apiVars, informerVars,
                     opVars
<1>12. QED
  BY <1>1, <1>2, <1>3, <1>4, <1>5, <1>6, <1>7, <1>8, <1>9, <1>10, <1>11 DEF Next, Operator

(* With nothing under way every operand is as required, unless a change    *)
(* had no event: for any number of operands, edits, deletions, relists and *)
(* restarts, whatever the pass and the informers were doing.               *)
THEOREM UndoneAtRestHolds == Spec => []UndoneAtRest
<1>1. Init => NoticeInv
  BY DEF Init, NoticeInv, Known, Chained, Recreated, Noticed
<1>2. HandlerInv /\ NoticeInv /\ [Next]_vars => NoticeInv'
  BY NoticeStep
<1>3. ASSUME HandlerInv, NoticeInv PROVE UndoneAtRest
  <2> SUFFICES ASSUME AtRest, ~missed, NEW r \in Operand PROVE stored[r] = "required"
    BY DEF UndoneAtRest, AllRequired
  <2>1. pc = "idle" /\ ~queued /\ channel = {} /\ watch[r] = << >>
    BY DEF AtRest
  <2>2. Chained(r) /\ Noticed(r)
    BY <1>3 DEF NoticeInv, Known
  <2>3. r \in watched
    BY <2>1, <2>2 DEF Noticed
  <2>4. ~Ahead(r) /\ ~Written(r)
    BY <2>1 DEF Ahead, Written
  <2>5. cached[r] = "required"
    BY <2>1, <2>2, <2>3, <2>4 DEF Noticed
  <2>6. QED
    BY <2>1, <2>2, <2>5 DEF Chained
<1>4. QED
  BY <1>1, <1>2, <1>3, InitTyped, StepTyped, PTL DEF Spec

=============================================================================

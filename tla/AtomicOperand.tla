--------------------------- MODULE AtomicOperand ---------------------------
(***************************************************************************)
(* What the apply functions promise about an operand: it is created as the *)
(* release ships it, or the release is merged, in one step, into what is   *)
(* stored at that moment, and only where that differs from the release in  *)
(* a field the kind's rule compares.  No decision taken on an old copy     *)
(* shows, and all else that changes an operand is done by others.          *)
(***************************************************************************)
EXTENDS Naturals, Sequences

CONSTANT Values

VARIABLES
    rule,        \* what the kind compares, writes, clears and cannot change
    required,    \* the contents the running release ships
    operand      \* what is stored, None when there is nothing

None == << >>

Holding(label, extra, f) == [label |-> label, extra |-> extra, f |-> f]

Begins(s, t) == Len(s) <= Len(t) /\ \A i \in 1..Len(s) : s[i] = t[i]

UpToDate ==
    /\ operand.label
    /\ \A x \in rule.compares : IF x \in rule.derived THEN Begins(required[x], operand.f[x])
                                                      ELSE operand.f[x] = required[x]

Merged ==
    [x \in DOMAIN required |->
        IF x \in rule.writes \cup rule.clears THEN required[x] ELSE operand.f[x]]

Init == operand = None

Create ==
    /\ operand = None
    /\ operand' = Holding(TRUE, FALSE, required)
    /\ UNCHANGED <<rule, required>>

Merge ==
    /\ operand # None /\ ~UpToDate
    /\ \A x \in rule.immutable : operand.f[x] = required[x]
    /\ operand' = Holding(TRUE, operand.extra, Merged)
    /\ UNCHANGED <<rule, required>>

Edit ==
    /\ operand # None
    /\ \/ \E x \in DOMAIN operand.f \ rule.immutable, v \in Values :
             operand' = Holding(operand.label, operand.extra, [operand.f EXCEPT ![x] = v])
       \/ operand' = Holding(FALSE, operand.extra, operand.f)
       \/ operand' = Holding(operand.label, TRUE, operand.f)
    /\ UNCHANGED <<rule, required>>

Delete ==
    /\ operand # None
    /\ operand' = None
    /\ UNCHANGED <<rule, required>>

Upgrade ==
    /\ required' # required
    /\ UNCHANGED <<rule, operand>>

Next == Create \/ Merge \/ Edit \/ Delete \/ Upgrade

Spec == Init /\ [][Next]_<<rule, required, operand>>
=============================================================================

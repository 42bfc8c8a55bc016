----------------------------- MODULE ApplyCall -----------------------------
(***************************************************************************)
(* An apply call as StatusSync and OperandWatch take it: one step, after   *)
(* which the operand is as the running release ships it, or which failed.  *)
(* Others may change the operand at any time.  A call that returns without *)
(* an error may then leave a change it could not see, but not for good:    *)
(* another call is due.                                                    *)
(***************************************************************************)
VARIABLES
    held,        \* the stored operand is as the running release ships it
    foreign,     \* it is neither as this process found it nor as it wrote it
    due,         \* another call will follow
    outcome      \* what the last call returned; "running" while there is one

Init == held = FALSE /\ foreign = FALSE /\ due = TRUE /\ outcome = "none"

Begin ==
    /\ outcome # "running"
    /\ outcome' = "running"
    /\ UNCHANGED <<held, foreign>>

Unchanged ==
    /\ outcome = "running"
    /\ outcome' = "unchanged"
    /\ held \/ (foreign /\ due)
    /\ UNCHANGED <<held, foreign, due>>

Updated ==
    /\ outcome = "running"
    /\ outcome' = "updated"
    /\ held' /\ foreign' \in {foreign, FALSE}

(* The write of a failed call may have been made, or the deletion before a *)
(* creation.                                                               *)
Fail ==
    /\ outcome = "running"
    /\ outcome' = "error" /\ due'
    /\ \/ UNCHANGED <<held, foreign>>
       \/ held' /\ foreign' = FALSE
       \/ ~held' /\ foreign' = TRUE

(* Others edit or delete the operand, or the call deletes it to create it. *)
Disturb == foreign' = TRUE /\ due' /\ UNCHANGED outcome

Ask == due' /\ UNCHANGED <<held, foreign, outcome>>

(* A new process, which may be of another release.                         *)
Restart == outcome' = "none" /\ due' /\ foreign' = FALSE

Next == Begin \/ Unchanged \/ Updated \/ Fail \/ Disturb \/ Ask \/ Restart

Spec == Init /\ [][Next]_<<held, foreign, due, outcome>>
=============================================================================

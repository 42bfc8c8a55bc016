-------------------------- MODULE MCWorkloadApply --------------------------
(* Workloads and their releases for TLC.                                   *)
EXTENDS WorkloadApply

Ships(t, s, l, v) == [template |-> t, selector |-> s, labels |-> l, valid |-> v]

(* The template changes, then the selector; others change everything.      *)
MCDeployment ==
    [kind |-> "Deployment", changes |-> ChangeKind,
     assets |-> << Ships("t1", "s1", "l1", TRUE), Ships("t2", "s1", "l1", TRUE),
                   Ships("t2", "s2", "l1", TRUE) >>]

(* The selector changes, first to a workload the API server refuses.       *)
MCDaemonSet ==
    [kind |-> "DaemonSet", changes |-> {"delete", "config", "upgrade"},
     assets |-> << Ships("t1", "s1", "l1", TRUE), Ships("t2", "s2", "l1", FALSE),
                   Ships("t1", "s2", "l2", TRUE) >>]

(* A DaemonSet of one release, whose template and labels others edit.      *)
MCEdited ==
    [kind |-> "DaemonSet", changes |-> {"template", "label"},
     assets |-> << Ships("t1", "s1", "l1", TRUE) >>]

MCBoth == {MCDeployment, MCDaemonSet}
MCDrift == {MCEdited}
=============================================================================

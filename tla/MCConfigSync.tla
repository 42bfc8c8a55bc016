---------------------------- MODULE MCConfigSync ----------------------------
(* Platforms and ConfigMaps for TLC.                                       *)
EXTENDS ConfigSync

ConfigMap(conf, keyed, ca, imm) ==
    [exists |-> TRUE, conf |-> conf, keyed |-> keyed, ca |-> ca, imm |-> imm]

InfraOf(managed, transforms, named, keyed) ==
    [sync |-> TRUE, managed |-> managed, transforms |-> transforms,
     named |-> named, keyed |-> keyed]

(* A ConfigMap with cloud.conf and a CA, one with the value under the      *)
(* user's key and another CA, and one the transformer refuses.             *)
Plain == ConfigMap(<<"a">>, Missing, "caA", FALSE)
Keyed == ConfigMap(Missing, <<"b">>, "caB", FALSE)
Broken == ConfigMap(<<"broken">>, Missing, "bad", FALSE)

MCSources == {Plain, Keyed, Broken}

StartWith(m, u, p) ==
    [managed |-> m, user |-> u, network |-> "net1", proxy |-> p, userCA |-> "caA",
     features |-> "gateOff"]

MCStarts == {StartWith(NotFound, Keyed, "userCA")}

(* A platform with a managed ConfigMap, a transformer and the user's own   *)
(* key; one that copies the user's ConfigMap; one without cloud config.    *)
MCInfras == {InfraOf(TRUE, TRUE, TRUE, TRUE), InfraOf(FALSE, FALSE, TRUE, FALSE),
             [InfraOf(FALSE, FALSE, FALSE, FALSE) EXCEPT !.sync = FALSE]}
=============================================================================

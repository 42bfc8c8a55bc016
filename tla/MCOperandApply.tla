--------------------------- MODULE MCOperandApply ---------------------------
(* The kinds of operand for TLC.                                           *)
EXTENDS OperandApply

AllKinds == DOMAIN ApplyResource

(* Two contents, of which one goes on where the other ends.                *)
MCValues == {<<"a">>, <<"a", "b">>}
MCFirst == <<"a">>

=============================================================================

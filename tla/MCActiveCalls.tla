---------------------------- MODULE MCActiveCalls ----------------------------
(* Instances of ActiveCalls for TLC. *)
EXTENDS ActiveCalls

CONSTANTS c1, c2

MCOne == {c1}
MCTwo == {c1, c2}

=============================================================================

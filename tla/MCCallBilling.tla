---------------------------- MODULE MCCallBilling ----------------------------
(* Two calls, of which the second one has a carrier or is left to an       *)
(* external rater.                                                         *)
EXTENDS CallBilling

CONSTANTS c1, c2

MCNone   == {}
MCFirst  == {c1}
MCSecond == {c2}
MCBoth   == {c1, c2}
=============================================================================

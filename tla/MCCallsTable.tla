---------------------------- MODULE MCCallsTable ----------------------------
(* Instances of CallsTable for TLC. *)
EXTENDS CallsTable

CONSTANTS c1

MCOne == {c1}

=============================================================================

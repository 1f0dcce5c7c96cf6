----------------------------- MODULE MCInvoicing -----------------------------
(* Two days with one call each, and periods of one day or of both; or only *)
(* nested periods, which overlap as soon as there are two.                 *)
EXTENDS Invoicing

CONSTANTS i1, i2, c1, c2

MCInvoice == {i1, i2}
MCScheduled == {i2}
MCCall == {c1, c2}
MCDay == 1..2
MCDayOf == [c \in MCCall |-> IF c = c1 THEN 1 ELSE 2]
MCPeriod == (SUBSET MCDay) \ {{}}
MCNested == {{1}, {1, 2}}
=============================================================================

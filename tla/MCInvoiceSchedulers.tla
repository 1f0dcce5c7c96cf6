------------------------ MODULE MCInvoiceSchedulers ------------------------
(* Instances of InvoiceSchedulers for TLC. *)
EXTENDS InvoiceSchedulers

CONSTANTS s1, s2

MCSchedulers == {s1, s2}
MCElsewhere == {s2}
MCDates == {2, 4}
MCEvery == {2, 4}

=============================================================================

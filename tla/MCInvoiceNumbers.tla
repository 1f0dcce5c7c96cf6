-------------------------- MODULE MCInvoiceNumbers --------------------------
(* Two scheduled invoices and one of an operator, with a sequence that was *)
(* created at A-8: A-9, A-10, ...; an operator may type the number A-10,   *)
(* or one of another form.                                                 *)
EXTENDS InvoiceNumbers

CONSTANTS i1, i2, i3, s1, p1

MCInvoice == {i1, i2, i3}
MCScheduled == {i1, i2}
MCSequence == {s1}
MCSequenceOf == [i \in MCInvoice |-> s1]
MCOne == [s \in MCSequence |-> 1]
MCPrefix == [s \in MCSequence |-> "A-"]
MCEight == [s \in MCSequence |-> 8]
MCTyped == {<<"A-", <<10, 2>>>>}
MCOther == {<<"B-", <<1, 1>>>>}
MCRequest == {p1}
=============================================================================

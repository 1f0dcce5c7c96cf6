---------------------------- MODULE InvoiceLedger ----------------------------
(***************************************************************************)
(* What the invoices of a client promise: a ledger of calls.  An invoice   *)
(* is issued in one step, with calls that no issued invoice has; its calls *)
(* stay as they are until it is withdrawn, and are free again then.        *)
(***************************************************************************)
CONSTANTS Invoice, Call

VARIABLES
    issued,  \* the invoices whose PDF counts
    bill     \* the calls in that PDF

vars == <<issued, bill>>

Init == issued = {} /\ bill = [i \in Invoice |-> {}]

Free == {c \in Call : \A i \in issued : c \notin bill[i]}

Issue(i) ==
    /\ i \notin issued
    /\ issued' = issued \cup {i}
    /\ \E S \in SUBSET Free : bill' = [bill EXCEPT ![i] = S]

Withdraw(i) ==
    /\ i \in issued
    /\ issued' = issued \ {i}
    /\ bill' = [bill EXCEPT ![i] = {}]

Next == \E i \in Invoice : Issue(i) \/ Withdraw(i)

Spec == Init /\ [][Next]_vars
=============================================================================

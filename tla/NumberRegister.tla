--------------------------- MODULE NumberRegister ---------------------------
(***************************************************************************)
(* What invoice number sequences promise: a register per sequence that     *)
(* hands out its numbers one by one, in order and in one step, never a     *)
(* number that another invoice has.                                        *)
(***************************************************************************)
EXTENDS Naturals

CONSTANTS
    Sequence,
    Invoice,
    Manual,          \* numbers that operators type
    NoNumber,
    NumberOf(_, _)   \* the k-th number of a sequence

VARIABLES
    last,    \* how many numbers each sequence has handed out
    number   \* the number of each invoice

vars == <<last, number>>

Init ==
    /\ last \in [Sequence -> Nat]
    /\ number = [i \in Invoice |-> NoNumber]

Free(n, i) == \A j \in Invoice \ {i} : number[j] # n

Next1(s) == NumberOf(s, last[s] + 1)

Advance(s) == last' = [last EXCEPT ![s] = @ + 1]

(* An invoice gets the next number of a sequence.                          *)
HandOut(s, i) ==
    /\ Free(Next1(s), i)
    /\ Advance(s)
    /\ number' = [number EXCEPT ![i] = Next1(s)]

(* The invoice that asked is gone: its number is never used.               *)
Skip(s) == Advance(s) /\ UNCHANGED number

(* Operators type, change and erase numbers of their own.                  *)
Type(i) ==
    /\ \E n \in Manual \cup {NoNumber} :
        /\ n # NoNumber => Free(n, i)
        /\ number' = [number EXCEPT ![i] = n]
    /\ UNCHANGED last

Next ==
    \/ \E s \in Sequence : Skip(s) \/ \E i \in Invoice : HandOut(s, i)
    \/ \E i \in Invoice : Type(i)

Spec == Init /\ [][Next]_vars
=============================================================================

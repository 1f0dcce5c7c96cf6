--------------------------- MODULE InvoiceNumbers ---------------------------
(***************************************************************************)
(* The numbers of invoices.  An invoice that becomes waiting and has no    *)
(* number takes the next one of its sequence: a PHP process reads the row  *)
(* of the sequence, computes the number and writes sequence and invoice in *)
(* one transaction, which Doctrine refuses when the version of the row has *)
(* changed.  The scheduler goes through many invoices in one process and   *)
(* keeps the sequences it has loaded; a request handles one invoice.       *)
(***************************************************************************)
EXTENDS Integers, FiniteSets

CONSTANTS
    Invoice,         \* identifiers: a deleted one is never used again
    Scheduled,       \* of each invoice scheduler, the next one it creates
    Sequence,
    SequenceOf,      \* the sequence an invoice names
    Prefix, Increment, SequenceLength,   \* of each sequence; they never change
    FirstIteration,  \* the iteration a sequence is created with, 0 by default
    Manual,          \* numbers that operators type
    NoNumber,        \* SQL NULL
    Scheduler,       \* the process of the invoice scheduler
    Request,         \* PHP processes that serve "Generate invoice"
    IterationLimit,  \* of the column, an unsigned SMALLINT
    MaxEdits         \* bound: edits of sequences and of numbers

Process == Request \cup {Scheduler}

(* str_pad(n, length, '0', STR_PAD_LEFT): the value and how many digits    *)
(* it is written with; a longer value is not cut.                          *)
Digits(n) == Cardinality({d \in 1..9 : 10^d <= n}) + 1
Padded(n, length) == <<n, IF Digits(n) > length THEN Digits(n) ELSE length>>

(* InvoiceNumberSequence::nextval, the value of an iteration.              *)
NumberOf(s, k) == <<Prefix[s], Padded(Increment[s] * k, SequenceLength[s])>>

ASSUME NumbersConstants ==
    /\ Scheduled \subseteq Invoice
    /\ SequenceOf \in [Invoice -> Sequence]
    /\ Increment \in [Sequence -> Nat] /\ SequenceLength \in [Sequence -> Nat]
    /\ FirstIteration \in [Sequence -> 0..IterationLimit]
    /\ NoNumber \notin Manual
    /\ Scheduler \notin Request
    /\ IterationLimit \in Nat /\ MaxEdits \in Nat

VARIABLES
    iteration, version,  \* of the rows of InvoiceNumberSequences
    status, number,      \* of the rows of Invoices
    proc,                \* what each process is doing
    copy,                \* the sequences each process has loaded
    edits                \* edits so far

rowVars  == <<iteration, version>>
procVars == <<proc, copy>>
vars == <<rowVars, status, number, procVars, edits>>

Status == {"absent", "blank", "waiting", "processing", "created", "deleted"}
Row == [iteration : Nat, version : Nat]
Job == [step : {"idle", "number", "commit"}, inv : Invoice, was : Status,
        takes : BOOLEAN]
Idle == [step |-> "idle"]
NotLoaded == [iteration |-> 0, version |-> 0]   \* versions start at 1
NoCopy == [s \in Sequence |-> NotLoaded]

Exists(i) == status[i] \notin {"absent", "deleted"}
OnGoing == {"waiting", "processing"}

(* Types, and the unique key of Invoices (number, brandId).                *)
TypeOK ==
    /\ iteration \in [Sequence -> 0..IterationLimit]
    /\ version \in [Sequence -> Nat \ {0}]
    /\ status \in [Invoice -> Status]
    /\ \A i \in Invoice :
        \/ number[i] \in Manual \cup {NoNumber}
        \/ \E k \in 1..iteration[SequenceOf[i]] : number[i] = NumberOf(SequenceOf[i], k)
    /\ \A i, j \in Invoice : i # j /\ number[i] = number[j] => number[i] = NoNumber
    /\ DOMAIN number = Invoice
    /\ proc \in [Process -> Job \cup {Idle}]
    /\ copy \in [Process -> [Sequence -> Row]]
    /\ edits \in Nat

Init ==
    /\ iteration = FirstIteration /\ version = [s \in Sequence |-> 1]
    /\ status = [i \in Invoice |-> "absent"]
    /\ number = [i \in Invoice |-> NoNumber]
    /\ proc = [p \in Process |-> Idle] /\ copy = [p \in Process |-> NoCopy]
    /\ edits = 0

-----------------------------------------------------------------------------
(* Mutant: an invoice can be saved with the number of another one.         *)
AnyNumber(n, i) == TRUE

(* The unique key: no other invoice has number n.                          *)
Free(n, i) == \A j \in Invoice \ {i} : number[j] # n

Become(p, job) == proc' = [proc EXCEPT ![p] = job]

(* Invoice\CreateByScheduler builds an invoice that waits for its PDF.     *)
StartScheduled(i) ==
    /\ proc[Scheduler] = Idle /\ i \in Scheduled /\ status[i] = "absent"
    /\ Become(Scheduler, [step |-> "number", inv |-> i, was |-> "absent", takes |-> TRUE])
    /\ UNCHANGED <<rowVars, status, number, copy, edits>>

(* RegenerateAction reads an invoice; on one that waits already, Generate  *)
(* invoice changes nothing.                                                *)
Press(p, i) ==
    /\ p \in Request /\ proc[p] = Idle /\ Exists(i) /\ status[i] # "waiting"
    /\ Become(p, [step |-> "number", inv |-> i, was |-> status[i],
                  takes |-> number[i] = NoNumber])
    /\ UNCHANGED <<rowVars, status, number, copy, edits>>

(* A sequence is read when the process has not loaded it before.           *)
Loaded(p, s) ==
    IF copy[p][s] = NotLoaded
    THEN [iteration |-> iteration[s], version |-> version[s]]
    ELSE copy[p][s]

(* SetInvoiceNumber::execute, with NextValGenerator: the next value is     *)
(* computed in memory; lock() compares the version of the copy with itself.*)
SetInvoiceNumber(p) ==
    /\ proc[p].step = "number"
    /\ Become(p, [proc[p] EXCEPT !.step = "commit"])
    /\ \/ /\ ~proc[p].takes
          /\ UNCHANGED copy
       \/ /\ proc[p].takes
          /\ LET s == SequenceOf[proc[p].inv]
                 c == Loaded(p, s)
             IN  copy' = [copy EXCEPT ![p][s] =
                            [iteration |-> c.iteration + 1, version |-> c.version]]
    /\ UNCHANGED <<rowVars, status, number, edits>>

(* Mutant: the sequence is written without a look at its version.          *)
Unlocked(p, s) == TRUE

(* Doctrine's UPDATE ... WHERE id = ? AND version = ?.                     *)
SameVersion(p, s) == copy[p][s].version = version[s]

(* The status a request or the scheduler leaves the invoice with.  Setting *)
(* the number of an invoice that is neither new nor on its way is a change *)
(* that resets it (Invoice::sanitizeValues).                               *)
StatusAfter(job) ==
    IF job.takes /\ job.was \notin OnGoing \cup {"absent"} THEN "blank" ELSE "waiting"

(* Only a column that differs from what the process read is written, and   *)
(* an invoice that was deleted meanwhile is not.                           *)
SaveStatus(job) ==
    status' = IF (job.was = "absent" \/ Exists(job.inv)) /\ StatusAfter(job) # job.was
              THEN [status EXCEPT ![job.inv] = StatusAfter(job)] ELSE status

(* After the commit a request ends; the scheduler goes on.                 *)
Done(p, s) ==
    /\ Become(p, Idle)
    /\ copy' = IF p = Scheduler
               THEN [copy EXCEPT ![p][s].version = @ + 1]
               ELSE [copy EXCEPT ![p] = NoCopy]

(* The commit of an invoice that has a number.                             *)
CommitNumbered(p) ==
    /\ proc[p].step = "commit" /\ ~proc[p].takes
    /\ SaveStatus(proc[p])
    /\ Become(p, Idle)
    /\ UNCHANGED <<rowVars, number, copy, edits>>

(* The commit of an invoice and of the sequence its number is from.        *)
CommitNumber(p) ==
    /\ proc[p].step = "commit" /\ proc[p].takes
    /\ LET i == proc[p].inv
           s == SequenceOf[i]
           k == copy[p][s].iteration
           here == proc[p].was = "absent" \/ Exists(i)
       IN  /\ SameVersion(p, s) /\ k <= IterationLimit
           /\ here => Free(NumberOf(s, k), i)
           /\ iteration' = [iteration EXCEPT ![s] = k]
           /\ version' = [version EXCEPT ![s] = @ + 1]
           /\ number' = IF here THEN [number EXCEPT ![i] = NumberOf(s, k)] ELSE number
           /\ SaveStatus(proc[p])
           /\ Done(p, s)
    /\ UNCHANGED edits

(* Mutant: what was loaded stays in memory after a failure, but for the    *)
(* number that was not saved.                                              *)
AbortKeepingCopies(p) ==
    /\ proc[p] # Idle
    /\ Become(p, Idle)
    /\ copy' = IF proc[p].step = "commit" /\ proc[p].takes
               THEN [copy EXCEPT ![p][SequenceOf[proc[p].inv]].iteration = @ - 1]
               ELSE copy
    /\ UNCHANGED <<rowVars, status, number, edits>>

(* Anything fails: the transaction is rolled back and the process ends.    *)
Abort(p) ==
    /\ proc[p] # Idle
    /\ Become(p, Idle)
    /\ copy' = [copy EXCEPT ![p] = NoCopy]
    /\ UNCHANGED <<rowVars, status, number, edits>>

(* No scheduler is due any more: the process ends.                         *)
EndScheduler ==
    /\ proc[Scheduler] = Idle /\ copy[Scheduler] # NoCopy
    /\ copy' = [copy EXCEPT ![Scheduler] = NoCopy]
    /\ UNCHANGED <<rowVars, status, number, proc, edits>>

-----------------------------------------------------------------------------
(* Operators and the invoice worker.                                       *)

(* POST /invoices, with a number or without.                               *)
Create(i) ==
    /\ i \notin Scheduled /\ status[i] = "absent"
    /\ \E n \in Manual \cup {NoNumber} :
        /\ n # NoNumber => Free(n, i)
        /\ number' = [number EXCEPT ![i] = n]
    /\ status' = [status EXCEPT ![i] = "blank"]
    /\ UNCHANGED <<rowVars, procVars, edits>>

(* PUT /invoices/{id} with another number, or none.                        *)
Renumber(i) ==
    /\ Exists(i) /\ edits < MaxEdits
    /\ \E n \in (Manual \cup {NoNumber}) \ {number[i]} :
        /\ n # NoNumber => Free(n, i)
        /\ number' = [number EXCEPT ![i] = n]
    /\ status' = IF status[i] \in OnGoing THEN status ELSE [status EXCEPT ![i] = "blank"]
    /\ edits' = edits + 1
    /\ UNCHANGED <<rowVars, procVars>>

(* DELETE /invoices/{id}: the number is free again.                        *)
Delete(i) ==
    /\ Exists(i)
    /\ status' = [status EXCEPT ![i] = "deleted"]
    /\ number' = [number EXCEPT ![i] = NoNumber]
    /\ UNCHANGED <<rowVars, procVars, edits>>

(* PUT /invoice_number_sequences/{id}: prefix, length and increment cannot *)
(* be changed, iteration is ignored; a new name is a new version.          *)
EditSequence(s) ==
    /\ edits < MaxEdits
    /\ version' = [version EXCEPT ![s] = @ + 1]
    /\ edits' = edits + 1
    /\ UNCHANGED <<iteration, status, number, procVars>>

(* The worker (module Invoicing) takes an order, and ends with it.         *)
MakePdf(i) ==
    /\ \/ status[i] = "waiting" /\ status' = [status EXCEPT ![i] = "processing"]
       \/ status[i] = "processing" /\ status' = [status EXCEPT ![i] = "created"]
    /\ UNCHANGED <<rowVars, number, procVars, edits>>

Commit(p) == CommitNumbered(p) \/ CommitNumber(p)

Next ==
    \/ \E p \in Process : SetInvoiceNumber(p) \/ Commit(p) \/ Abort(p)
    \/ \E p \in Process, i \in Invoice : Press(p, i)
    \/ \E i \in Invoice :
        StartScheduled(i) \/ Create(i) \/ Renumber(i) \/ Delete(i) \/ MakePdf(i)
    \/ \E s \in Sequence : EditSequence(s)
    \/ EndScheduler

Spec == Init /\ [][Next]_vars

(* The timer comes back to every scheduler that has created no invoice     *)
(* (after a failed commit for the same period, after other failures for a  *)
(* later one), its process goes on, and neither conflicts nor failures last*)
(* forever.                                                                *)
Fairness ==
    /\ WF_vars(SetInvoiceNumber(Scheduler) \/ Commit(Scheduler) \/ Abort(Scheduler))
    /\ \A i \in Scheduled :
        /\ SF_vars(StartScheduled(i))
        /\ SF_vars(SetInvoiceNumber(Scheduler) /\ proc[Scheduler].inv = i)
        /\ SF_vars(CommitNumber(Scheduler) /\ proc[Scheduler].inv = i)

FairSpec == Spec /\ Fairness

-----------------------------------------------------------------------------
(* Properties.                                                             *)

Register == INSTANCE NumberRegister WITH last <- iteration

(* However requests, schedulers and edits interleave, a sequence behaves   *)
(* like a register that hands out its numbers in one step, in order and    *)
(* each of them once.                                                      *)
IsRegister == Register!Spec

(* "Scheduled invoices will use the next invoice number available in a     *)
(* given predefined sequence": every scheduler, that tries each time it is *)
(* due, in the end creates an invoice.                                     *)
ScheduledAreNumbered ==
    \A i \in Scheduled : <>(status[i] # "absent")

=============================================================================

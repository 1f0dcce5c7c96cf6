-------------------------- MODULE InvoiceSchedulers --------------------------
(***************************************************************************)
(* Invoice schedulers: each quarter of an hour a timer runs the schedulers *)
(* whose next execution has come, one after another; each creates the      *)
(* invoice of its client for the period before that day and moves to the   *)
(* next one.  Operators edit schedulers and create, edit and delete        *)
(* invoices, and a run can be refused, fail half-way or be killed.  An     *)
(* invoice is checked before its commit, and nothing holds the check.      *)
(*                                                                         *)
(* A client has at most one scheduler, so clients are named by theirs.     *)
(* Time is counted in half-days.  A day of the brand begins at an even     *)
(* one; a client in another time zone has its midnight in between, at odd  *)
(* ones.  Intervals are numbers of whole days: what PHP makes of months of *)
(* different lengths is left out.  The making of the PDF is in Invoicing.  *)
(***************************************************************************)
EXTENDS Integers, FiniteSets

CONSTANTS
    Scheduler,
    Elsewhere,      \* those whose client is in another time zone than its brand
    Date,           \* days an operator writes
    Every,          \* intervals an operator chooses
    MaxTime,        \* bound: the last half-day
    MaxEdits,       \* bound: deeds of operators
    MaxKills        \* bound: runs that end without saving

ASSUME SchedulersAssumption ==
    /\ Date \subseteq Int
    /\ Every \subseteq Nat \ {0}
    /\ MaxTime \in Nat /\ MaxEdits \in Nat /\ MaxKills \in Nat

VARIABLES
    now,
    next,       \* nextExecution
    every,      \* getInterval: frequency and unit
    error,      \* whether lastExecutionError is set
    made,       \* invoices created so far
    invoices,   \* the invoices: number, client, half-days of the period
    forms,      \* invoices of operators, checked and not yet committed
    todo,       \* schedulers that the run has found and not handled
    seen,       \* their dates and intervals, as the run read them
    step,       \* what the run does next
    current,    \* the scheduler it does it for
    checked,    \* history: commits of its client when its invoice was checked
    commits,    \* history: invoices committed, of each client
    unsure,     \* history: invoices committed on a check that another has
                \* overtaken, or on none
    removed,    \* history: what operators have taken off invoices
    since,      \* history: first half-day to invoice since the last edit
    refused,    \* history: periods that could not be invoiced
    edits, kills

dates == <<next, every, error>>
ledger == <<made, invoices, forms, commits, unsure, removed>>
run == <<todo, seen, step, current, checked>>
history == <<since, refused>>
vars == <<now, dates, ledger, run, history, edits, kills>>

Invoice == [number : Nat, client : Scheduler, days : SUBSET Int]
Loaded == [next : Int, every : Nat \ {0}]

\* The number of an invoice that has none yet.
New == -1

Form == [number : Nat \cup {New}, client : Scheduler, days : SUBSET Int, checked : Nat]

TypeOK ==
    /\ now \in 0 .. MaxTime
    /\ next \in [Scheduler -> Int]
    /\ every \in [Scheduler -> Nat \ {0}]
    /\ error \in [Scheduler -> BOOLEAN]
    /\ made \in Nat
    /\ invoices \in SUBSET Invoice
    /\ forms \in SUBSET Form
    /\ todo \in SUBSET Scheduler
    /\ seen \in [todo -> Loaded]
    /\ step \in {"idle", "check", "create", "costs", "date"}
    /\ current \in Scheduler
    /\ checked \in Nat
    /\ commits \in [Scheduler -> Nat]
    /\ unsure \in SUBSET Nat
    /\ removed \in [Scheduler -> SUBSET Int]
    /\ since \in [Scheduler -> Int]
    /\ refused \in [Scheduler -> SUBSET Int]
    /\ edits \in 0 .. MaxEdits
    /\ kills \in 0 .. MaxKills

\* A new scheduler: its first date comes from setFallbackNextExecution.
Init ==
    /\ now = 0
    /\ next \in [Scheduler -> Date] /\ every \in [Scheduler -> Every]
    /\ error = [s \in Scheduler |-> FALSE]
    /\ made = 0 /\ invoices = {} /\ forms = {}
    /\ todo = {} /\ step = "idle" /\ current \in Scheduler /\ checked = 0
    /\ seen = [s \in todo |-> [next |-> next[s], every |-> every[s]]]
    /\ commits = [s \in Scheduler |-> 0] /\ unsure = {}
    /\ removed = [s \in Scheduler |-> {}]
    /\ since = [s \in Scheduler |-> next[s] - every[s]]
    /\ refused = [s \in Scheduler |-> {}]
    /\ edits = 0 /\ kills = 0

-----------------------------------------------------------------------------
(* Invoices.                                                               *)

Of(s) == {i \in invoices : i.client = s}

Invoiced(s) == UNION {i.days : i \in Of(s)}

Numbered(number) == {i \in invoices : i.number = number}

\* sanitizeOutDate: the end moves to the end of the client's day.
EndOfDay(s, half) ==
    IF s \in Elsewhere THEN half + (half % 2) ELSE half + 1 - (half % 2)

\* The client's midnight before now.
Midnight(s) ==
    IF s \in Elsewhere THEN now - ((now + 1) % 2) ELSE now - (now % 2)

\* Mutant: only the last invoice of the client is compared.
ValidAfterLast(s, number, days) ==
    /\ \A i \in Of(s) : (\A j \in Of(s) : j.number <= i.number) => days \cap i.days = {}
    /\ \A d \in days : d < Midnight(s)

\* CheckValidity: no other invoice in the range and no day to come.
Valid(s, number, days) ==
    /\ \A i \in Of(s) : i.number # number => days \cap i.days = {}
    /\ \A d \in days : d < Midnight(s)

\* The commit of a new invoice (number = made) or of a new period of one.
Put(s, number, days, sure) ==
    /\ invoices' = (invoices \ Numbered(number))
                        \cup {[number |-> number, client |-> s, days |-> days]}
    /\ made' = IF number = made THEN made + 1 ELSE made
    /\ commits' = [commits EXCEPT ![s] = @ + 1]
    /\ unsure' = IF sure THEN unsure \ {number} ELSE unsure \cup {number}
    /\ removed' = [removed EXCEPT ![s] =
                        @ \cup ((UNION {i.days : i \in Numbered(number)}) \ days)]

-----------------------------------------------------------------------------
(* Operators and invoices.                                                 *)

Deed == edits < MaxEdits /\ edits' = edits + 1

Periods(s) == {from .. EndOfDay(s, to) : from \in Date, to \in Date} \ {{}}

\* An operator saves an invoice, a new one or one that is not on its way
\* (its status goes back to none): it is checked.
Check(s, number, days) ==
    /\ Deed
    /\ Valid(s, number, days)
    /\ forms' = forms \cup {[number |-> number, client |-> s, days |-> days,
                             checked |-> commits[s]]}
    /\ UNCHANGED <<now, dates, made, invoices, commits, unsure, removed, run,
                   history, kills>>

\* It is committed; nothing is, when the invoice was deleted meanwhile.
Commit(form) ==
    /\ forms' = forms \ {form}
    /\ IF form.number = New
       THEN Put(form.client, made, form.days, form.checked = commits[form.client])
       ELSE IF Numbered(form.number) # {}
       THEN Put(form.client, form.number, form.days, form.checked = commits[form.client])
       ELSE UNCHANGED <<made, invoices, commits, unsure, removed>>
    /\ UNCHANGED <<now, dates, run, history, edits, kills>>

\* The period of an invoice on its way (Invoicing) is edited: no check.
EditOngoing(invoice, days) ==
    /\ Deed
    /\ Put(invoice.client, invoice.number, days, FALSE)
    /\ UNCHANGED <<now, dates, forms, run, history, kills>>

Delete(invoice) ==
    /\ Deed
    /\ invoices' = invoices \ {invoice}
    /\ removed' = [removed EXCEPT ![invoice.client] = @ \cup invoice.days]
    /\ UNCHANGED <<now, dates, made, forms, commits, unsure, run, history, kills>>

ByHand ==
    \/ \E s \in Scheduler : \E days \in Periods(s) : Check(s, New, days)
    \/ \E i \in invoices : \E days \in Periods(i.client) :
            Check(i.client, i.number, days) \/ EditOngoing(i, days)
    \/ \E i \in invoices : Delete(i)
    \/ \E form \in forms : Commit(form)

-----------------------------------------------------------------------------
(* The run.                                                                *)

\* The period of a date: the brand's days of the interval before it, up to
\* the end of the client's.
PeriodOf(s, loaded) == (loaded.next - loaded.every) .. EndOfDay(s, loaded.next - 1)

\* getPendingSchedulers reads the schedulers and what they say.
Start ==
    /\ step = "idle"
    /\ \E s \in Scheduler : next[s] <= now
    /\ todo' = {s \in Scheduler : next[s] <= now}
    /\ seen' = [s \in todo' |-> [next |-> next[s], every |-> every[s]]]
    /\ step' = "check" /\ current' \in todo'
    /\ UNCHANGED <<now, dates, ledger, checked, history, edits, kills>>

Period == PeriodOf(current, seen[current])

\* The period is the one of the date that the run has read.
CheckInvoice ==
    /\ step = "check"
    /\ Valid(current, New, Period)
    /\ checked' = commits[current]
    /\ step' = "create"
    /\ UNCHANGED <<now, dates, ledger, todo, seen, current, history, edits, kills>>

CreateInvoice ==
    /\ step = "create"
    /\ Put(current, made, Period, checked = commits[current])
    /\ step' = "costs"
    /\ UNCHANGED <<now, dates, forms, todo, seen, current, checked, history, edits, kills>>

\* Mutant: the next date is counted from the day of the run.
UpdateFromToday(failed) ==
    /\ next' = [next EXCEPT ![current] = now + seen[current].every]
    /\ error' = [error EXCEPT ![current] = failed]
    /\ since' = IF [next |-> next[current], every |-> every[current]] = seen[current]
                THEN since
                ELSE [since EXCEPT ![current] = next'[current] - every[current]]
    /\ UNCHANGED every

\* Mutant: the error is cleared with every new date.
UpdateClearingError(failed) ==
    /\ next' = [next EXCEPT ![current] = seen[current].next + seen[current].every]
    /\ error' = [error EXCEPT ![current] = FALSE]
    /\ since' = IF [next |-> next[current], every |-> every[current]] = seen[current]
                THEN since
                ELSE [since EXCEPT ![current] = next'[current] - every[current]]
    /\ UNCHANGED every

\* The date moves on from the one the run has read; an edit made meanwhile is
\* overwritten, and what it started ends here.
UpdateLastExecutionDate(failed) ==
    /\ next' = [next EXCEPT ![current] = seen[current].next + seen[current].every]
    /\ error' = [error EXCEPT ![current] = failed]
    /\ since' = IF [next |-> next[current], every |-> every[current]] = seen[current]
                THEN since
                ELSE [since EXCEPT ![current] = next'[current] - every[current]]
    /\ UNCHANGED every

\* Mutant: what was read of a scheduler is kept after its turn.
LeftWithSeen(schedulers) ==
    /\ todo' = schedulers
    /\ UNCHANGED <<seen, checked>>
    /\ IF schedulers = {} THEN step' = "idle" /\ UNCHANGED current
                          ELSE step' = "check" /\ current' \in schedulers

\* What is left of the loop.
Left(schedulers) ==
    /\ todo' = schedulers
    /\ seen' = [s \in schedulers |-> seen[s]]
    /\ UNCHANGED checked
    /\ IF schedulers = {} THEN step' = "idle" /\ UNCHANGED current
                          ELSE step' = "check" /\ current' \in schedulers

\* Mutant: a scheduler that failed is tried again, before the others.
AbortInPlace ==
    /\ error' = [error EXCEPT ![current] = TRUE]
    /\ UNCHANGED <<next, every, since>>
    /\ Left({})
    /\ UNCHANGED <<now, edits, kills>>

\* An exception ends the loop: the schedulers left wait for the next run.
Abort ==
    /\ UpdateLastExecutionDate(TRUE)
    /\ Left({})
    /\ UNCHANGED <<now, edits, kills>>

\* Refused: an invoice in the range, or an unmetered call (see Invoicing).
Refuse ==
    /\ step = "check"
    /\ refused' = [refused EXCEPT ![current] = @ \cup Period]
    /\ Abort
    /\ UNCHANGED ledger

\* The invoice is there, without some of its fixed costs.
CostsFail ==
    /\ step = "costs"
    /\ Abort
    /\ UNCHANGED <<ledger, refused>>

AddCosts ==
    /\ step = "costs"
    /\ step' = "date"
    /\ UNCHANGED <<now, dates, ledger, todo, seen, current, checked, history, edits, kills>>

Done ==
    /\ step = "date"
    /\ UpdateLastExecutionDate(FALSE)
    /\ Left(todo \ {current})
    /\ UNCHANGED <<now, ledger, refused, edits, kills>>

\* A kill, or a failed commit after which Doctrine saves nothing any more.
Kill ==
    /\ step # "idle" /\ kills < MaxKills
    /\ kills' = kills + 1
    /\ Left({})
    /\ UNCHANGED <<now, dates, ledger, history, edits>>

-----------------------------------------------------------------------------
\* An operator saves the form: any date, or the one it showed when opened.
Save(s, date, interval) ==
    /\ Deed
    /\ <<date, interval>> # <<next[s], every[s]>>
    /\ next' = [next EXCEPT ![s] = date]
    /\ every' = [every EXCEPT ![s] = interval]
    /\ since' = [since EXCEPT ![s] = date - interval]
    /\ UNCHANGED <<now, error, ledger, run, refused, kills>>

Tick ==
    /\ now < MaxTime
    /\ now' = now + 1
    /\ UNCHANGED <<dates, ledger, run, history, edits, kills>>

Run == Start \/ CheckInvoice \/ CreateInvoice \/ Refuse \/ AddCosts \/ CostsFail \/ Done

Next ==
    \/ Run \/ Kill \/ Tick \/ ByHand
    \/ \E s \in Scheduler, date \in Date, interval \in Every : Save(s, date, interval)

Spec == Init /\ [][Next]_vars

\* The timer fires and a run goes on to its end.
FairSpec == Spec /\ WF_vars(Run)

-----------------------------------------------------------------------------
(* Properties.                                                             *)

\* Two invoices of a client have a day in common only when one of them was
\* committed on a check that another commit had overtaken, or was edited on
\* its way without one: kills, repeated runs, edits back and time zones alone
\* put no day on two invoices.
NoDayIsInvoicedTwice ==
    \A i, j \in invoices :
        /\ i.client = j.client /\ i.number # j.number
        /\ i.number \notin unsure /\ j.number \notin unsure
        => i.days \cap j.days = {}

\* Days before the period of the next execution, since the last edit.
Handled(s) == since[s] .. (next[s] - every[s] - 1)

\* A scheduler leaves no hole: each day it has moved past since its last edit
\* is on an invoice, or was in a period whose invoice was refused, or an
\* operator took it off its invoice, however late the runs were and wherever
\* they were killed.
NoDayIsForgotten ==
    \A s \in Scheduler : Handled(s) \subseteq Invoiced(s) \cup removed[s] \cup refused[s]

\* The error of a scheduler tells of a hole in the last period it has moved
\* past: without one, all of that period is on invoices, but for what
\* operators took off them.
LastHoleIsShown ==
    \A s \in Scheduler :
        Handled(s) # {} /\ ~error[s] =>
            (next[s] - 2 * every[s]) .. (next[s] - every[s] - 1)
                \subseteq Invoiced(s) \cup removed[s]

\* A scheduler that is always refused does not keep the others from running:
\* each one catches up in the end.
EverySchedulerCatchesUp == \A s \in Scheduler : next[s] <= now ~> next[s] > now

=============================================================================

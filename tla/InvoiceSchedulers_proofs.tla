----------------------- MODULE InvoiceSchedulers_proofs -----------------------
(***************************************************************************)
(* Proofs about InvoiceSchedulers for every set of schedulers, calendar of *)
(* edits, interval and bound.                                              *)
(***************************************************************************)
EXTENDS InvoiceSchedulers, TLAPS

\* What is on the invoices of a client, or was until an operator took it off.
Covered(s) == Invoiced(s) \cup removed[s]

\* A number is given once, and the form of an invoice is about its client.
NumbersAreTaken ==
    /\ \A i \in invoices : i.number < made
    /\ \A i, j \in invoices : i.number = j.number => i = j
    /\ \A f \in forms : f.number < made
    /\ \A f \in forms, i \in invoices : i.number = f.number => i.client = f.client

\* No other invoice of the client has a day of these.
Free(s, number, days) == \A i \in Of(s) : i.number # number => days \cap i.days = {}

\* A check that no commit of its client has overtaken still holds.
ChecksHold ==
    /\ \A f \in forms :
           /\ f.checked <= commits[f.client]
           /\ f.checked = commits[f.client] => Free(f.client, f.number, f.days)
    /\ step = "create" =>
           /\ checked <= commits[current]
           /\ checked = commits[current] => Free(current, New, Period)

\* The run works for one of the schedulers it has found, and goes on to the
\* costs and the date only when the period it has read is invoiced.
RunIsCoherent ==
    /\ step # "idle" => current \in todo
    /\ step \in {"costs", "date"} => Period \subseteq Covered(current)

Inv ==
    /\ TypeOK /\ NumbersAreTaken /\ ChecksHold /\ RunIsCoherent
    /\ NoDayIsInvoicedTwice /\ NoDayIsForgotten /\ LastHoleIsShown

-----------------------------------------------------------------------------
(* Invoices.                                                               *)

\* The end of a period moves forward only.
LEMMA EndMovesForward ==
    ASSUME NEW s, NEW half \in Int
    PROVE  EndOfDay(s, half) \in Int /\ half <= EndOfDay(s, half)
<1>1. half % 2 \in 0 .. 1
  OBVIOUS
<1>2. half % 2 \in Int /\ 0 <= half % 2 /\ half % 2 <= 1
  BY <1>1
<1> QED BY <1>2 DEF EndOfDay

\* A period is a set of half-days and has those of the interval.
LEMMA PeriodHas ==
    ASSUME NEW s, NEW loaded \in Loaded
    PROVE  /\ PeriodOf(s, loaded) \in SUBSET Int
           /\ (loaded.next - loaded.every) .. (loaded.next - 1) \subseteq PeriodOf(s, loaded)
<1>1. loaded.next \in Int /\ loaded.every \in Int /\ loaded.next - 1 \in Int
  BY DEF Loaded
<1>2. /\ EndOfDay(s, loaded.next - 1) \in Int
      /\ loaded.next - 1 <= EndOfDay(s, loaded.next - 1)
  BY <1>1, EndMovesForward
<1> QED BY <1>1, <1>2 DEF PeriodOf

\* A commit of an invoice, new or known: its number is its own, the days of
\* every client stay covered, its own days are, the other clients' invoices
\* are the same, and when its check holds no day is on two invoices.
LEMMA PutKeeps ==
    ASSUME TypeOK, NumbersAreTaken, NoDayIsInvoicedTwice,
           NEW s \in Scheduler, NEW number \in Nat, NEW days \in SUBSET Int,
           NEW sure \in BOOLEAN,
           number <= made,
           \A i \in invoices : i.number = number => i.client = s,
           sure => Free(s, number, days),
           Put(s, number, days, sure)
    PROVE  /\ made' \in Nat /\ made <= made' /\ number < made'
           /\ invoices' \in SUBSET Invoice
           /\ commits' \in [Scheduler -> Nat] /\ unsure' \in SUBSET Nat
           /\ removed' \in [Scheduler -> SUBSET Int]
           /\ commits'[s] = commits[s] + 1
           /\ \A t \in Scheduler \ {s} : commits'[t] = commits[t] /\ Of(t)' = Of(t)
           /\ \A i \in invoices' : i.number < made'
           /\ \A i, j \in invoices' : i.number = j.number => i = j
           /\ \A i \in invoices' : i \in invoices \/ (i.number = number /\ i.client = s)
           /\ NoDayIsInvoicedTwice'
           /\ \A t \in Scheduler : Covered(t) \subseteq Covered(t)'
           /\ days \subseteq Covered(s)'
<1> DEFINE new == [number |-> number, client |-> s, days |-> days]
<1>1. /\ new \in Invoice /\ new.number = number /\ new.client = s /\ new.days = days
      /\ invoices' = (invoices \ Numbered(number)) \cup {new}
  BY DEF Put, Invoice
<1> HIDE DEF new
<1>2. /\ made' \in Nat /\ made <= made' /\ number < made'
  BY DEF TypeOK, Put
<1>3. invoices' \in SUBSET Invoice
  BY <1>1 DEF TypeOK
<1>4. /\ commits' \in [Scheduler -> Nat] /\ commits'[s] = commits[s] + 1
      /\ \A t \in Scheduler \ {s} : commits'[t] = commits[t]
      /\ unsure' \in SUBSET Nat
  BY DEF Put, TypeOK
<1>5. \A i \in Numbered(number) : i \in invoices /\ i.client = s /\ i.days \in SUBSET Int
  BY DEF Numbered, TypeOK, Invoice
<1>6. UNION {i.days : i \in Numbered(number)} \in SUBSET Int
  BY <1>5
<1>7. /\ removed' \in [Scheduler -> SUBSET Int]
      /\ \A t \in Scheduler : removed[t] \subseteq removed'[t]
      /\ \A i \in Numbered(number) : i.days \subseteq removed'[s] \cup days
  <2> DEFINE gone == (UNION {i.days : i \in Numbered(number)}) \ days
  <2>1. \A i \in Numbered(number) : \A d : d \in i.days => d \in gone \/ d \in days
    <3>1. \A i \in Numbered(number) : \A d :
             d \in i.days => d \in UNION {j.days : j \in Numbered(number)}
      OBVIOUS
    <3> QED BY <3>1
  <2>2. gone \in SUBSET Int /\ removed' = [removed EXCEPT ![s] = removed[s] \cup gone]
    BY <1>6 DEF Put
  <2> HIDE DEF gone
  <2>3. removed \in [Scheduler -> SUBSET Int]
    BY DEF TypeOK
  <2>4. /\ removed' \in [Scheduler -> SUBSET Int] /\ removed'[s] = removed[s] \cup gone
        /\ \A t \in Scheduler : removed[t] \subseteq removed'[t]
    BY <2>2, <2>3
  <2> QED BY <2>1, <2>4
<1>8. \A t \in Scheduler \ {s} : Of(t)' = Of(t)
  BY <1>1, <1>5 DEF Of
<1>9. \A i \in invoices' : i \in invoices \/ (i.number = number /\ i.client = s)
  BY <1>1
<1>10. /\ \A i \in invoices' : i.number < made'
       /\ \A i, j \in invoices' : i.number = j.number => i = j
  BY <1>1, <1>2 DEF NumbersAreTaken, Numbered, TypeOK, Invoice
<1>11. days \subseteq Invoiced(s)'
  BY <1>1 DEF Invoiced, Of
<1>12. \A t \in Scheduler : Covered(t) \subseteq Covered(t)'
  <2> SUFFICES ASSUME NEW t \in Scheduler, NEW d \in Covered(t)
               PROVE  d \in Covered(t)'
    OBVIOUS
  <2>1. CASE d \in removed[t]
    BY <1>7, <2>1 DEF Covered
  <2>2. ASSUME NEW i \in invoices, i.client = t, d \in i.days
        PROVE  d \in Covered(t)'
    <3>1. CASE i \in Numbered(number)
      BY <1>5, <1>7, <1>11, <2>2, <3>1 DEF Covered
    <3>2. CASE i \notin Numbered(number)
      BY <1>1, <2>2, <3>2 DEF Covered, Invoiced, Of
    <3> QED BY <3>1, <3>2
  <2> QED BY <2>1, <2>2 DEF Covered, Invoiced, Of
<1>13. NoDayIsInvoicedTwice'
  <2> SUFFICES ASSUME NEW i \in invoices', NEW j \in invoices',
                      i.client = j.client, i.number # j.number,
                      i.number \notin unsure', j.number \notin unsure'
               PROVE  i.days \cap j.days = {}
    BY DEF NoDayIsInvoicedTwice
  <2>1. unsure \subseteq unsure' \cup {number} /\ (~sure => number \in unsure')
    BY DEF Put
  <2>2. \A k \in invoices' : k # new => k \in invoices /\ k.number # number
    BY <1>1 DEF Numbered
  <2>3. CASE i # new /\ j # new
    BY <2>1, <2>2, <2>3 DEF NoDayIsInvoicedTwice
  <2>4. CASE i = new /\ j # new
    BY <1>1, <2>1, <2>2, <2>4 DEF Free, Of
  <2>5. CASE i # new /\ j = new
    BY <1>1, <2>1, <2>2, <2>5 DEF Free, Of
  <2> QED BY <2>3, <2>4, <2>5
<1> QED BY <1>2, <1>3, <1>4, <1>7, <1>8, <1>9, <1>10, <1>11, <1>12, <1>13 DEF Covered

\* After a commit the checks that it has overtaken count no more, and those of
\* other clients still hold.
LEMMA ChecksStay ==
    ASSUME TypeOK, NumbersAreTaken, ChecksHold,
           NEW s \in Scheduler,
           commits'[s] = commits[s] + 1,
           \A t \in Scheduler \ {s} : commits'[t] = commits[t] /\ Of(t)' = Of(t)
    PROVE  /\ \A f \in forms :
                  /\ f.checked <= commits'[f.client]
                  /\ f.checked = commits'[f.client] => Free(f.client, f.number, f.days)'
           /\ step = "create" /\ UNCHANGED <<seen, current>> =>
                  /\ checked <= commits'[current]
                  /\ checked = commits'[current] => Free(current, New, Period)'
<1>1. ASSUME NEW f \in forms
      PROVE  /\ f.checked <= commits'[f.client]
             /\ f.checked = commits'[f.client] => Free(f.client, f.number, f.days)'
  <2>1. /\ f.client \in Scheduler /\ f.checked \in Nat /\ commits[f.client] \in Nat
        /\ f.checked <= commits[f.client]
    BY DEF TypeOK, Form, ChecksHold
  <2>2. CASE f.client = s
    BY <2>1, <2>2
  <2>3. CASE f.client # s
    BY <2>1, <2>3 DEF ChecksHold, Free
  <2> QED BY <2>2, <2>3
<1>2. ASSUME step = "create", UNCHANGED <<seen, current>>
      PROVE  /\ checked <= commits'[current]
             /\ checked = commits'[current] => Free(current, New, Period)'
  <2>1. current \in Scheduler /\ checked \in Nat /\ commits[current] \in Nat
        /\ checked <= commits[current]
    BY <1>2 DEF TypeOK, ChecksHold
  <2>2. CASE current = s
    BY <1>2, <2>1, <2>2
  <2>3. CASE current # s
    BY <1>2, <2>1, <2>3 DEF ChecksHold, Free, Period, PeriodOf
  <2> QED BY <2>2, <2>3
<1> QED BY <1>1, <1>2

\* Steps that change no date, no history and no error, and uncover no day,
\* forget no day and hide no hole.
LEMMA HandledStays ==
    ASSUME Inv, UNCHANGED <<dates, history>>,
           \A t \in Scheduler : Covered(t) \subseteq Covered(t)'
    PROVE  NoDayIsForgotten' /\ LastHoleIsShown'
<1>1. \A t \in Scheduler : Handled(t)' = Handled(t)
  BY DEF Handled, dates, history
<1>2. NoDayIsForgotten'
  BY <1>1 DEF Inv, NoDayIsForgotten, history, Covered
<1>3. LastHoleIsShown'
  <2> SUFFICES ASSUME NEW t \in Scheduler, Handled(t)' # {}, ~error'[t]
               PROVE  ((next[t] - 2 * every[t]) .. (next[t] - every[t] - 1))' \subseteq Covered(t)'
    BY DEF LastHoleIsShown, Covered
  <2>1. (next[t] - 2 * every[t]) .. (next[t] - every[t] - 1) \subseteq Covered(t)
    BY <1>1 DEF Inv, LastHoleIsShown, dates, Covered
  <2> QED BY <2>1 DEF dates
<1> QED BY <1>2, <1>3

-----------------------------------------------------------------------------
(* The date of a scheduler moves on.                                       *)

\* When the period that the run has read is invoiced, or its refusal is
\* noted and the error set, moving the date forgets no day and hides no hole.
LEMMA DateMovesOn ==
    ASSUME Inv, step # "idle", NEW failed \in BOOLEAN,
           UpdateLastExecutionDate(failed), UNCHANGED <<invoices, removed>>,
           refused' \in [Scheduler -> SUBSET Int],
           \A t \in Scheduler : refused[t] \subseteq refused'[t],
           Period \subseteq Covered(current) \cup refused'[current],
           ~failed => Period \subseteq Covered(current)
    PROVE  /\ next' \in [Scheduler -> Int] /\ error' \in [Scheduler -> BOOLEAN]
           /\ since' \in [Scheduler -> Int]
           /\ NoDayIsForgotten' /\ LastHoleIsShown'
<1>c. PICK c \in Scheduler : c = current
  BY DEF Inv, TypeOK
<1>1. /\ c \in Scheduler /\ c \in todo /\ seen[c] \in Loaded
      /\ seen[c].next \in Int /\ seen[c].every \in Nat \ {0}
  BY <1>c DEF Inv, TypeOK, RunIsCoherent, Loaded
<1>2. /\ next' \in [Scheduler -> Int] /\ error' \in [Scheduler -> BOOLEAN]
      /\ since' \in [Scheduler -> Int] /\ every' = every
  BY <1>c, <1>1 DEF Inv, TypeOK, UpdateLastExecutionDate
<1>3. \A t \in Scheduler : Covered(t)' = Covered(t)
  BY DEF Covered, Invoiced, Of
<1>4. \A t \in Scheduler \ {c} :
         /\ next'[t] = next[t] /\ since'[t] = since[t] /\ error'[t] = error[t]
         /\ Handled(t)' = Handled(t)
  BY <1>c, <1>2 DEF Inv, TypeOK, UpdateLastExecutionDate, Handled
<1> DEFINE kept == next[c] = seen[c].next /\ every[c] = seen[c].every
<1>5. CASE ~kept
  <2>1. since'[c] = next'[c] - every'[c]
    BY <1>c, <1>1, <1>2, <1>5 DEF Inv, TypeOK, UpdateLastExecutionDate
  <2>2. Handled(c)' = {}
    BY <1>1, <1>2, <2>1 DEF Handled, Inv, TypeOK
  <2>3. NoDayIsForgotten'
    BY <1>3, <1>4, <2>2 DEF NoDayIsForgotten, Inv, Covered
  <2>4. LastHoleIsShown'
    BY <1>2, <1>3, <1>4, <2>2 DEF LastHoleIsShown, Inv, Covered
  <2> QED BY <1>2, <2>3, <2>4
<1>6. CASE kept
  <2>1. /\ since'[c] = since[c]
        /\ next'[c] = next[c] + every[c]
        /\ error'[c] = failed
        /\ (next[c] - every[c]) .. (next[c] - 1) \subseteq Period
    <3>1. since'[c] = since[c] /\ error'[c] = failed
      BY <1>c, <1>1, <1>2, <1>6 DEF Inv, TypeOK, Loaded, UpdateLastExecutionDate
    <3>2. next'[c] = next[c] + every[c]
      BY <1>c, <1>1, <1>2, <1>6 DEF Inv, TypeOK, UpdateLastExecutionDate
    <3>3. (seen[c].next - seen[c].every) .. (seen[c].next - 1) \subseteq PeriodOf(c, seen[c])
      BY <1>1, PeriodHas
    <3> QED BY <1>c, <1>6, <3>1, <3>2, <3>3 DEF Period
  <2>2. \A d \in Handled(c)' : d \in Handled(c) \/ d \in Period
    <3>1. /\ next[c] \in Int /\ since[c] \in Int
          /\ every[c] \in Int /\ every'[c] = every[c]
      BY <1>2 DEF Inv, TypeOK
    <3>2. Handled(c) = since[c] .. (next[c] - every[c] - 1)
      BY DEF Handled
    <3>3. Handled(c)' = since[c] .. (next[c] + every[c] - every[c] - 1)
      BY <2>1, <3>1 DEF Handled
    <3> HIDE DEF kept
    <3>4. next[c] + every[c] - every[c] - 1 = next[c] - 1
      BY <3>1
    <3>5. \A d \in since[c] .. (next[c] - 1) :
             \/ d \in since[c] .. (next[c] - every[c] - 1)
             \/ d \in (next[c] - every[c]) .. (next[c] - 1)
      BY <3>1
    <3> QED BY <2>1, <3>2, <3>3, <3>4, <3>5
  <2>3. NoDayIsForgotten'
    BY <1>c, <1>1, <1>3, <1>4, <2>2 DEF NoDayIsForgotten, Inv, Covered
  <2>4. (next'[c] - 2 * every'[c]) .. (next'[c] - every'[c] - 1)
            \subseteq Period
    <3>1. next[c] \in Int /\ every[c] \in Int /\ every'[c] = every[c]
      BY <1>2 DEF Inv, TypeOK
    <3>2. /\ (next[c] + every[c]) - 2 * every[c] = next[c] - every[c]
          /\ (next[c] + every[c]) - every[c] - 1 = next[c] - 1
      BY <3>1
    <3> QED BY <2>1, <3>1, <3>2
  <2>5. LastHoleIsShown'
    <3> SUFFICES ASSUME NEW t \in Scheduler, Handled(t)' # {}, ~error'[t]
                 PROVE  ((next[t] - 2 * every[t]) .. (next[t] - every[t] - 1))' \subseteq Covered(t)'
      BY DEF LastHoleIsShown, Covered
    <3>1. CASE t = c
      <4>1. ~failed
        BY <2>1, <3>1
      <4> QED BY <1>c, <1>3, <2>4, <3>1, <4>1
    <3>2. CASE t # c
      BY <1>2, <1>3, <1>4, <3>2 DEF LastHoleIsShown, Inv, Covered
    <3> QED BY <3>1, <3>2
  <2> QED BY <1>2, <2>3, <2>5
<1> QED BY <1>5, <1>6

-----------------------------------------------------------------------------
\* The actions that leave the invoices alone, and what a check rests on.
LEMMA InvoicesStay ==
    ASSUME Inv, UNCHANGED <<ledger, current>>,
           step' = "create" => step = "create" /\ UNCHANGED <<seen, checked>>
    PROVE  /\ NumbersAreTaken' /\ ChecksHold' /\ NoDayIsInvoicedTwice'
           /\ \A t \in Scheduler : Covered(t)' = Covered(t)
<1>1. \A t : Of(t)' = Of(t)
  BY DEF Of, ledger
<1>2. ChecksHold'
  BY <1>1 DEF Inv, ChecksHold, Free, Period, PeriodOf, ledger
<1> QED BY <1>1, <1>2 DEF Inv, NumbersAreTaken, NoDayIsInvoicedTwice, Covered, Invoiced, ledger

\* A period that an operator writes is a set of half-days.
LEMMA PeriodsTyped ==
    ASSUME NEW s, NEW days \in Periods(s)
    PROVE  days \in SUBSET Int
BY SchedulersAssumption, EndMovesForward DEF Periods

\* A commit of an operator preserves the invariant.
LEMMA PutByHand ==
    ASSUME Inv,
           NEW s \in Scheduler, NEW number \in Nat, NEW days \in SUBSET Int,
           NEW sure \in BOOLEAN,
           number <= made,
           \A i \in invoices : i.number = number => i.client = s,
           \A f \in forms' : f.number = number => f.client = s,
           sure => Free(s, number, days),
           Put(s, number, days, sure),
           forms' \subseteq forms,
           edits' \in 0 .. MaxEdits,
           UNCHANGED <<now, dates, run, history, kills>>
    PROVE  Inv'
<1>1. /\ made' \in Nat /\ made <= made' /\ number < made'
      /\ invoices' \in SUBSET Invoice
      /\ commits' \in [Scheduler -> Nat] /\ unsure' \in SUBSET Nat
      /\ removed' \in [Scheduler -> SUBSET Int]
      /\ commits'[s] = commits[s] + 1
      /\ \A t \in Scheduler \ {s} : commits'[t] = commits[t] /\ Of(t)' = Of(t)
      /\ \A i \in invoices' : i.number < made'
      /\ \A i, j \in invoices' : i.number = j.number => i = j
      /\ \A i \in invoices' : i \in invoices \/ (i.number = number /\ i.client = s)
      /\ NoDayIsInvoicedTwice'
      /\ \A t \in Scheduler : Covered(t) \subseteq Covered(t)'
  BY PutKeeps DEF Inv
<1>2. TypeOK'
  BY <1>1 DEF Inv, TypeOK, dates, run, history
<1>3. NumbersAreTaken'
  <2>1. \A f \in forms' : f.number < made'
    BY <1>1 DEF Inv, TypeOK, NumbersAreTaken, Form, New
  <2>2. ASSUME NEW f \in forms', NEW i \in invoices', i.number = f.number
        PROVE  i.client = f.client
    BY <1>1, <2>2 DEF Inv, NumbersAreTaken
  <2> QED BY <1>1, <2>1, <2>2 DEF NumbersAreTaken
<1>4. ChecksHold'
  BY <1>1, ChecksStay DEF Inv, ChecksHold, run
<1>5. RunIsCoherent'
  <2>1. current \in Scheduler /\ UNCHANGED <<todo, seen, step, current, Period>>
    BY DEF Inv, TypeOK, run, Period, PeriodOf
  <2> QED BY <1>1, <2>1 DEF Inv, RunIsCoherent, Covered
<1>6. NoDayIsForgotten' /\ LastHoleIsShown'
  BY <1>1, HandledStays
<1> QED BY <1>1, <1>2, <1>3, <1>4, <1>5, <1>6 DEF Inv

-----------------------------------------------------------------------------
\* Every action preserves the invariant.
LEMMA Inductive == Inv /\ [Next]_vars => Inv'
<1> SUFFICES ASSUME Inv, [Next]_vars PROVE Inv'
  OBVIOUS
<1> USE SchedulersAssumption
<1>0. /\ step # "idle" => current \in todo /\ seen[current] \in Loaded
      /\ current \in Scheduler
      /\ step # "idle" => Period \in SUBSET Int
  BY PeriodHas DEF Inv, TypeOK, RunIsCoherent, Period
<1>1. ASSUME NEW s \in Scheduler, NEW number \in Nat \cup {New}, NEW days \in SUBSET Int,
             number # New => \E i \in invoices : i.number = number /\ i.client = s,
             Check(s, number, days)
      PROVE  Inv'
  <2> DEFINE form == [number |-> number, client |-> s, days |-> days, checked |-> commits[s]]
  <2>1. /\ form \in Form /\ form.number = number /\ form.client = s
        /\ form.days = days /\ form.checked = commits[s]
        /\ forms' = forms \cup {form}
    BY <1>1 DEF Check, Form, Inv, TypeOK
  <2> HIDE DEF form
  <2>2. /\ UNCHANGED <<now, dates, made, invoices, commits, unsure, removed, run, history, kills>>
        /\ edits' \in 0 .. MaxEdits
        /\ Free(s, number, days)
    BY <1>1 DEF Check, Deed, Valid, Free, Inv, TypeOK
  <2>3. TypeOK'
    BY <2>1, <2>2 DEF Inv, TypeOK, dates, run, history
  <2>4. NumbersAreTaken'
    <3>1. number < made /\ \A i \in invoices : i.number = number => i.client = s
      BY <1>1 DEF Inv, TypeOK, NumbersAreTaken, Invoice, New
    <3> QED BY <2>1, <2>2, <3>1 DEF Inv, NumbersAreTaken
  <2>5. UNCHANGED <<step, seen, current, checked, todo>> /\ \A t : Of(t)' = Of(t)
    BY <2>2 DEF run, Of
  <2>6. ChecksHold'
    <3>1. \A f \in forms' : /\ f.checked <= commits'[f.client]
                            /\ f.checked = commits'[f.client] => Free(f.client, f.number, f.days)'
      BY <2>1, <2>2, <2>5 DEF Inv, ChecksHold, Free, TypeOK
    <3>2. UNCHANGED Period
      BY <2>5 DEF Period, PeriodOf
    <3> QED BY <2>2, <2>5, <3>1, <3>2 DEF Inv, ChecksHold, Free
  <2>7. \A t \in Scheduler : Covered(t)' = Covered(t)
    BY <2>2, <2>5 DEF Covered, Invoiced
  <2>8. RunIsCoherent'
    BY <1>0, <2>5, <2>7 DEF Inv, RunIsCoherent, Period, PeriodOf
  <2>9. NoDayIsForgotten' /\ LastHoleIsShown' /\ NoDayIsInvoicedTwice'
    BY <2>2, <2>7, HandledStays DEF Inv, NoDayIsInvoicedTwice
  <2> QED BY <2>3, <2>4, <2>6, <2>8, <2>9 DEF Inv
<1>2. ASSUME NEW form \in forms, Commit(form)
      PROVE  Inv'
  <2> DEFINE sure == form.checked = commits[form.client]
  <2>1. /\ form \in Form /\ form.client \in Scheduler /\ form.days \in SUBSET Int
        /\ form.number \in Nat \cup {New} /\ form.number < made
        /\ \A i \in invoices : i.number = form.number => i.client = form.client
        /\ sure => Free(form.client, form.number, form.days)
        /\ sure \in BOOLEAN
        /\ \A i \in invoices : i.number < made /\ i.number \in Nat
        /\ \A f \in forms : f.number < made
    BY DEF Inv, TypeOK, Form, NumbersAreTaken, ChecksHold, Invoice
  <2>2. /\ UNCHANGED <<now, dates, run, history, edits, kills>> /\ forms' = forms \ {form}
        /\ edits' \in 0 .. MaxEdits /\ made \in Nat
    BY <1>2 DEF Commit, Inv, TypeOK
  <2>3. CASE form.number = New
    <3>1. Put(form.client, made, form.days, sure)
      BY <1>2, <2>3 DEF Commit
    <3>2. /\ made \in Nat /\ made <= made
          /\ \A i \in invoices : i.number = made => i.client = form.client
          /\ \A f \in forms' : f.number = made => f.client = form.client
      <4>1. \A i \in invoices : i.number # made
        BY <2>1, <2>2
      <4>2. \A f \in forms' : f.number # made
        BY <2>1, <2>2 DEF Inv, TypeOK, Form, New
      <4> QED BY <2>2, <4>1, <4>2
    <3>3. sure => Free(form.client, made, form.days)
      BY <2>1, <2>2, <2>3 DEF Free, Of, New
    <3> HIDE DEF sure
    <3>4. forms' \subseteq forms
      BY <2>2
    <3>5. \A number \in Nat :
             /\ number <= made
             /\ \A i \in invoices : i.number = number => i.client = form.client
             /\ \A f \in forms' : f.number = number => f.client = form.client
             /\ sure => Free(form.client, number, form.days)
             /\ Put(form.client, number, form.days, sure)
             => Inv'
      BY <2>1, <2>2, <3>4, PutByHand
    <3> QED BY <3>1, <3>2, <3>3, <3>5
  <2>4. CASE form.number # New /\ Numbered(form.number) # {}
    <3>1. Put(form.client, form.number, form.days, sure)
      BY <1>2, <2>4 DEF Commit
    <3>2. PICK i \in invoices : i.number = form.number
      BY <2>4 DEF Numbered
    <3>3. form.number \in Nat /\ form.number <= made
      BY <2>1, <2>2, <2>4
    <3>4. \A f \in forms' : f.number = form.number => f.client = form.client
      BY <2>1, <2>2, <3>2 DEF Inv, NumbersAreTaken
    <3> HIDE DEF sure
    <3> QED BY <2>1, <2>2, <3>1, <3>3, <3>4, PutByHand
  <2>5. CASE form.number # New /\ Numbered(form.number) = {}
    <3>1. UNCHANGED <<made, invoices, commits, unsure, removed>>
      BY <1>2, <2>5 DEF Commit
    <3>2. UNCHANGED <<step, seen, current, checked, todo>> /\ \A t : Of(t)' = Of(t)
      BY <2>2, <3>1 DEF run, Of
    <3>3. TypeOK'
      BY <2>2, <3>1 DEF Inv, TypeOK, dates, run, history
    <3>4. NumbersAreTaken'
      BY <2>2, <3>1 DEF Inv, NumbersAreTaken
    <3>5. UNCHANGED Period
      BY <3>2 DEF Period, PeriodOf
    <3>6. ChecksHold'
      BY <2>2, <3>1, <3>2, <3>5 DEF Inv, ChecksHold, Free
    <3>7. \A t \in Scheduler : Covered(t)' = Covered(t)
      BY <3>1, <3>2 DEF Covered, Invoiced
    <3>8. RunIsCoherent'
      BY <1>0, <3>2, <3>5, <3>7 DEF Inv, RunIsCoherent, Covered
    <3>9. NoDayIsForgotten' /\ LastHoleIsShown' /\ NoDayIsInvoicedTwice'
      BY <2>2, <3>1, <3>7, HandledStays DEF Inv, NoDayIsInvoicedTwice
    <3> QED BY <3>3, <3>4, <3>6, <3>8, <3>9 DEF Inv
  <2> QED BY <2>3, <2>4, <2>5
<1>3. ASSUME NEW i \in invoices, NEW days \in SUBSET Int, EditOngoing(i, days)
      PROVE  Inv'
  <2>1. /\ i.client \in Scheduler /\ i.number \in Nat /\ i.number <= made
        /\ \A j \in invoices : j.number = i.number => j.client = i.client
        /\ \A f \in forms : f.number = i.number => f.client = i.client
    BY DEF Inv, TypeOK, NumbersAreTaken, Invoice
  <2>2. /\ Put(i.client, i.number, days, FALSE) /\ forms' = forms
        /\ edits' \in 0 .. MaxEdits
        /\ UNCHANGED <<now, dates, run, history, kills>>
    <3>1. Put(i.client, i.number, days, FALSE)
      BY <1>3, Zenon DEF EditOngoing
    <3>2. edits' \in 0 .. MaxEdits
      BY <1>3 DEF EditOngoing, Deed, Inv, TypeOK
    <3>3. forms' = forms /\ UNCHANGED <<now, dates, run, history, kills>>
      BY <1>3 DEF EditOngoing
    <3> QED BY <3>1, <3>2, <3>3
  <2> QED BY <2>1, <2>2, PutByHand
<1>4. ASSUME NEW i \in invoices, Delete(i)
      PROVE  Inv'
  <2>1. /\ i.client \in Scheduler /\ i.days \in SUBSET Int /\ edits' \in 0 .. MaxEdits
        /\ invoices' = invoices \ {i}
        /\ removed' = [removed EXCEPT ![i.client] = removed[i.client] \cup i.days]
        /\ UNCHANGED <<now, dates, made, forms, commits, unsure, run, history, kills>>
    BY <1>4 DEF Delete, Deed, Inv, TypeOK, Invoice
  <2>2. TypeOK'
    BY <2>1 DEF Inv, TypeOK, dates, run, history
  <2>3. NumbersAreTaken' /\ NoDayIsInvoicedTwice'
    BY <2>1 DEF Inv, NumbersAreTaken, NoDayIsInvoicedTwice
  <2>4. UNCHANGED <<step, seen, current, checked, todo>> /\ \A t : Of(t)' \subseteq Of(t)
    BY <2>1 DEF run, Of
  <2>5. UNCHANGED Period
    BY <2>4 DEF Period, PeriodOf
  <2>6. ChecksHold'
    BY <2>1, <2>4, <2>5 DEF Inv, ChecksHold, Free
  <2>7. \A t \in Scheduler : Covered(t) \subseteq Covered(t)'
    <3> SUFFICES ASSUME NEW t \in Scheduler, NEW d \in Covered(t)
                 PROVE  d \in Covered(t)'
      OBVIOUS
    <3>1. CASE d \in removed[t]
      BY <2>1, <3>1 DEF Covered, Inv, TypeOK
    <3>2. ASSUME NEW j \in invoices, j.client = t, d \in j.days
          PROVE  d \in Covered(t)'
      <4>1. CASE j = i
        BY <2>1, <3>2, <4>1 DEF Covered, Inv, TypeOK
      <4>2. CASE j # i
        BY <2>1, <3>2, <4>2 DEF Covered, Invoiced, Of
      <4> QED BY <4>1, <4>2
    <3> QED BY <3>1, <3>2 DEF Covered, Invoiced, Of
  <2>8. RunIsCoherent'
    BY <1>0, <2>4, <2>5, <2>7 DEF Inv, RunIsCoherent, Covered
  <2>9. NoDayIsForgotten' /\ LastHoleIsShown'
    BY <2>1, <2>7, HandledStays
  <2> QED BY <2>2, <2>3, <2>6, <2>8, <2>9 DEF Inv
<1>5. CASE Start
  <2>1. UNCHANGED <<now, dates, ledger, checked, history, edits, kills>> /\ step' = "check"
    BY <1>5 DEF Start
  <2>2. \A t : Of(t)' = Of(t)
    BY <2>1 DEF ledger, Of
  <2>3. \A t \in Scheduler : Covered(t)' = Covered(t)
    BY <2>1, <2>2 DEF ledger, Covered, Invoiced
  <2>4. NoDayIsForgotten' /\ LastHoleIsShown'
    BY <2>1, <2>3, HandledStays
  <2>5. TypeOK'
    BY <1>5 DEF Start, Inv, TypeOK, Loaded, dates, ledger, history
  <2>6. NumbersAreTaken' /\ NoDayIsInvoicedTwice'
    BY <2>1 DEF Inv, NumbersAreTaken, NoDayIsInvoicedTwice, ledger
  <2>7. ChecksHold'
    BY <2>1, <2>2 DEF Inv, ChecksHold, Free, ledger
  <2>8. RunIsCoherent'
    BY <1>5 DEF Start, RunIsCoherent
  <2> QED BY <2>4, <2>5, <2>6, <2>7, <2>8 DEF Inv
<1>6. CASE CheckInvoice
  <2>1. /\ step = "check" /\ step' = "create" /\ checked' = commits[current]
        /\ UNCHANGED <<now, dates, ledger, todo, seen, current, history, edits, kills>>
        /\ Free(current, New, Period)
    BY <1>6 DEF CheckInvoice, Valid, Free
  <2>2. \A t : Of(t)' = Of(t)
    BY <2>1 DEF ledger, Of
  <2>3. \A t \in Scheduler : Covered(t)' = Covered(t)
    BY <2>1, <2>2 DEF ledger, Covered, Invoiced
  <2>4. NoDayIsForgotten' /\ LastHoleIsShown'
    BY <2>1, <2>3, HandledStays
  <2>5. TypeOK'
    BY <1>0, <2>1 DEF Inv, TypeOK, dates, ledger, history
  <2>6. NumbersAreTaken' /\ NoDayIsInvoicedTwice'
    BY <2>1 DEF Inv, NumbersAreTaken, NoDayIsInvoicedTwice, ledger
  <2>7. UNCHANGED Period
    BY <2>1 DEF Period, PeriodOf
  <2>8. ChecksHold'
    BY <1>0, <2>1, <2>2, <2>7 DEF Inv, TypeOK, ChecksHold, Free, ledger
  <2>9. RunIsCoherent'
    BY <1>0, <2>1 DEF RunIsCoherent
  <2> QED BY <2>4, <2>5, <2>6, <2>8, <2>9 DEF Inv
<1>7. CASE CreateInvoice
  <2> DEFINE sure == checked = commits[current]
  <2>1. /\ step = "create" /\ step' = "costs" /\ Put(current, made, Period, sure)
        /\ UNCHANGED <<now, dates, forms, todo, seen, current, checked, history, edits, kills>>
    BY <1>7 DEF CreateInvoice
  <2>2. /\ made \in Nat /\ \A i \in invoices : i.number < made /\ i.number \in Nat
        /\ \A f \in forms : f.number < made /\ f.number \in Nat \cup {New}
    BY DEF Inv, TypeOK, NumbersAreTaken, Invoice, Form
  <2>3. /\ \A i \in invoices : i.number # made
        /\ \A f \in forms : f.number # made
    BY <2>2 DEF New
  <2>4. (sure => Free(current, made, Period)) /\ sure \in BOOLEAN
    BY <2>1, <2>2, <2>3 DEF Inv, ChecksHold, Free, Of, New
  <2> HIDE DEF sure
  <2>5. /\ made' \in Nat /\ made <= made'
        /\ invoices' \in SUBSET Invoice
        /\ commits' \in [Scheduler -> Nat] /\ unsure' \in SUBSET Nat
        /\ removed' \in [Scheduler -> SUBSET Int]
        /\ commits'[current] = commits[current] + 1
        /\ \A t \in Scheduler \ {current} : commits'[t] = commits[t] /\ Of(t)' = Of(t)
        /\ \A i \in invoices' : i.number < made'
        /\ \A i, j \in invoices' : i.number = j.number => i = j
        /\ \A i \in invoices' : i \in invoices \/ (i.number = made /\ i.client = current)
        /\ NoDayIsInvoicedTwice'
        /\ \A t \in Scheduler : Covered(t) \subseteq Covered(t)'
        /\ Period \subseteq Covered(current)'
    BY <1>0, <2>1, <2>2, <2>3, <2>4, PutKeeps DEF Inv
  <2>6. TypeOK'
    BY <2>1, <2>5 DEF Inv, TypeOK, dates, history
  <2>7. NumbersAreTaken'
    <3>1. \A f \in forms' : f.number < made'
      BY <2>1, <2>2, <2>5 DEF New
    <3>2. \A f \in forms', i \in invoices' : i.number = f.number => i.client = f.client
      BY <2>1, <2>3, <2>5 DEF Inv, NumbersAreTaken
    <3> QED BY <2>5, <3>1, <3>2 DEF NumbersAreTaken
  <2>8. ChecksHold'
    BY <1>0, <2>1, <2>5, ChecksStay DEF Inv, ChecksHold
  <2>9. RunIsCoherent'
    <3>1. UNCHANGED Period
      BY <2>1 DEF Period, PeriodOf
    <3>2. Period' \subseteq Covered(current)'
      BY <2>1, <2>5, <3>1 DEF Covered, Invoiced, Of
    <3> QED BY <1>0, <2>1, <3>2 DEF RunIsCoherent
  <2>10. NoDayIsForgotten' /\ LastHoleIsShown'
    BY <2>1, <2>5, HandledStays
  <2> QED BY <2>5, <2>6, <2>7, <2>8, <2>9, <2>10 DEF Inv
<1>8. CASE Refuse
  <2>1. /\ step # "idle" /\ UpdateLastExecutionDate(TRUE) /\ UNCHANGED <<ledger, checked>>
        /\ refused' = [refused EXCEPT ![current] = refused[current] \cup Period]
        /\ todo' = {} /\ seen' = [s \in {} |-> seen[s]] /\ step' = "idle" /\ current' = current
        /\ UNCHANGED <<now, edits, kills>>
    BY <1>8 DEF Refuse, Abort, Left
  <2>2. /\ refused' \in [Scheduler -> SUBSET Int]
        /\ \A t \in Scheduler : refused[t] \subseteq refused'[t]
        /\ Period \subseteq refused'[current]
    BY <1>0, <2>1 DEF Inv, TypeOK
  <2>3. /\ next' \in [Scheduler -> Int] /\ error' \in [Scheduler -> BOOLEAN]
        /\ since' \in [Scheduler -> Int] /\ NoDayIsForgotten' /\ LastHoleIsShown'
    BY <2>1, <2>2, DateMovesOn DEF ledger
  <2>4. TypeOK'
    BY <2>1, <2>2, <2>3 DEF Inv, TypeOK, ledger, UpdateLastExecutionDate
  <2>5. NumbersAreTaken' /\ ChecksHold' /\ NoDayIsInvoicedTwice'
    BY <2>1, InvoicesStay
  <2>6. RunIsCoherent'
    BY <2>1 DEF RunIsCoherent
  <2> QED BY <2>3, <2>4, <2>5, <2>6 DEF Inv
<1>9. CASE CostsFail
  <2>1. /\ step = "costs" /\ UpdateLastExecutionDate(TRUE)
        /\ UNCHANGED <<ledger, refused, checked>>
        /\ todo' = {} /\ seen' = [s \in {} |-> seen[s]] /\ step' = "idle" /\ current' = current
        /\ UNCHANGED <<now, edits, kills>>
    BY <1>9 DEF CostsFail, Abort, Left
  <2>2. Period \subseteq Covered(current)
    BY <2>1 DEF Inv, RunIsCoherent
  <2>3. /\ next' \in [Scheduler -> Int] /\ error' \in [Scheduler -> BOOLEAN]
        /\ since' \in [Scheduler -> Int] /\ NoDayIsForgotten' /\ LastHoleIsShown'
    BY <2>1, <2>2, DateMovesOn DEF Inv, TypeOK, ledger
  <2>4. TypeOK'
    BY <2>1, <2>3 DEF Inv, TypeOK, ledger, UpdateLastExecutionDate
  <2>5. NumbersAreTaken' /\ ChecksHold' /\ NoDayIsInvoicedTwice'
    BY <2>1, InvoicesStay
  <2>6. RunIsCoherent'
    BY <2>1 DEF RunIsCoherent
  <2> QED BY <2>3, <2>4, <2>5, <2>6 DEF Inv
<1>10. CASE AddCosts
  <2>1. /\ step = "costs" /\ step' = "date"
        /\ UNCHANGED <<now, dates, ledger, todo, seen, current, checked, history, edits, kills>>
    BY <1>10 DEF AddCosts
  <2>2. /\ NumbersAreTaken' /\ ChecksHold' /\ NoDayIsInvoicedTwice'
        /\ \A t \in Scheduler : Covered(t)' = Covered(t)
    BY <2>1, InvoicesStay
  <2>3. NoDayIsForgotten' /\ LastHoleIsShown'
    BY <2>1, <2>2, HandledStays
  <2>4. TypeOK'
    BY <2>1 DEF Inv, TypeOK, dates, ledger, history
  <2>5. RunIsCoherent'
    BY <1>0, <2>1, <2>2 DEF Inv, RunIsCoherent, Period, PeriodOf, Covered, Invoiced, Of, ledger
  <2> QED BY <2>2, <2>3, <2>4, <2>5 DEF Inv
<1>11. CASE Done
  <2>1. /\ step = "date" /\ UpdateLastExecutionDate(FALSE) /\ UNCHANGED <<ledger, refused>>
        /\ Left(todo \ {current}) /\ UNCHANGED <<now, edits, kills>>
    BY <1>11 DEF Done
  <2>2. Period \subseteq Covered(current)
    BY <2>1 DEF Inv, RunIsCoherent
  <2>3. /\ next' \in [Scheduler -> Int] /\ error' \in [Scheduler -> BOOLEAN]
        /\ since' \in [Scheduler -> Int] /\ NoDayIsForgotten' /\ LastHoleIsShown'
    BY <2>1, <2>2, DateMovesOn DEF Inv, TypeOK, ledger
  <2>4. TypeOK'
    BY <1>0, <2>1, <2>3 DEF Inv, TypeOK, Left, ledger, UpdateLastExecutionDate
  <2>5. \A t : Of(t)' = Of(t)
    BY <2>1 DEF ledger, Of
  <2>6. ChecksHold'
    BY <2>1, <2>5 DEF Inv, ChecksHold, Free, Left, ledger
  <2>7. RunIsCoherent' /\ NumbersAreTaken' /\ NoDayIsInvoicedTwice'
    BY <2>1 DEF Inv, RunIsCoherent, NumbersAreTaken, NoDayIsInvoicedTwice, ledger, Left
  <2> QED BY <2>3, <2>4, <2>6, <2>7 DEF Inv
<1>12. CASE Kill
  <2>1. /\ step' = "idle" /\ todo' = {} /\ seen' = [s \in {} |-> seen[s]]
        /\ kills' \in 0 .. MaxKills
        /\ UNCHANGED <<now, dates, ledger, current, checked, history, edits>>
    BY <1>12 DEF Kill, Left, Inv, TypeOK
  <2>2. /\ NumbersAreTaken' /\ ChecksHold' /\ NoDayIsInvoicedTwice'
        /\ \A t \in Scheduler : Covered(t)' = Covered(t)
    BY <2>1, InvoicesStay
  <2>3. NoDayIsForgotten' /\ LastHoleIsShown'
    BY <2>1, <2>2, HandledStays
  <2>4. TypeOK'
    BY <2>1 DEF Inv, TypeOK, dates, ledger, history
  <2>5. RunIsCoherent'
    BY <2>1 DEF RunIsCoherent
  <2> QED BY <2>2, <2>3, <2>4, <2>5 DEF Inv
<1>13. CASE Tick
  <2>1. now' \in 0 .. MaxTime /\ UNCHANGED <<dates, ledger, run, history, edits, kills>>
    BY <1>13 DEF Tick, Inv, TypeOK
  <2>2. /\ NumbersAreTaken' /\ ChecksHold' /\ NoDayIsInvoicedTwice'
        /\ \A t \in Scheduler : Covered(t)' = Covered(t)
    BY <2>1, InvoicesStay DEF run
  <2>3. NoDayIsForgotten' /\ LastHoleIsShown'
    BY <2>1, <2>2, HandledStays
  <2>4. TypeOK'
    BY <2>1 DEF Inv, TypeOK, dates, ledger, run, history
  <2>5. RunIsCoherent'
    BY <1>0, <2>1, <2>2 DEF Inv, RunIsCoherent, Period, PeriodOf, run, Covered, Invoiced, Of, ledger
  <2> QED BY <2>2, <2>3, <2>4, <2>5 DEF Inv
<1>14. ASSUME NEW s \in Scheduler, NEW date \in Date, NEW interval \in Every,
              Save(s, date, interval)
       PROVE  Inv'
  <2>1. date \in Int /\ interval \in Nat \ {0}
    OBVIOUS
  <2>2. TypeOK'
    BY <1>14, <2>1 DEF Save, Deed, Inv, TypeOK, ledger, run
  <2>3. UNCHANGED <<ledger, run>>
    BY <1>14 DEF Save
  <2>4. /\ NumbersAreTaken' /\ ChecksHold' /\ NoDayIsInvoicedTwice'
        /\ \A t \in Scheduler : Covered(t)' = Covered(t)
    BY <2>3, InvoicesStay DEF run
  <2>5. Handled(s)' = {}
    BY <1>14, <2>1 DEF Save, Handled, Inv, TypeOK
  <2>6. \A t \in Scheduler \ {s} :
           /\ Handled(t)' = Handled(t) /\ next'[t] = next[t] /\ every'[t] = every[t]
    BY <1>14 DEF Save, Handled, Inv, TypeOK
  <2>7. NoDayIsForgotten'
    BY <1>14, <2>4, <2>5, <2>6 DEF Save, NoDayIsForgotten, Inv, Covered
  <2>8. LastHoleIsShown'
    BY <1>14, <2>4, <2>5, <2>6 DEF Save, LastHoleIsShown, Inv, Covered
  <2>9. RunIsCoherent'
    BY <1>0, <2>3, <2>4 DEF Inv, RunIsCoherent, Period, PeriodOf, run, Covered, Invoiced, Of, ledger
  <2> QED BY <2>2, <2>4, <2>7, <2>8, <2>9 DEF Inv
<1>15. CASE UNCHANGED vars
  <2>1. UNCHANGED <<now, dates, ledger, run, history, edits, kills>>
    BY <1>15 DEF vars
  <2>2. /\ NumbersAreTaken' /\ ChecksHold' /\ NoDayIsInvoicedTwice'
        /\ \A t \in Scheduler : Covered(t)' = Covered(t)
    BY <2>1, InvoicesStay DEF run
  <2>3. NoDayIsForgotten' /\ LastHoleIsShown'
    BY <2>1, <2>2, HandledStays
  <2>4. TypeOK'
    BY <2>1 DEF Inv, TypeOK, dates, ledger, run, history
  <2>5. RunIsCoherent'
    BY <1>0, <2>1, <2>2 DEF Inv, RunIsCoherent, Period, PeriodOf, run, Covered, Invoiced, Of, ledger
  <2> QED BY <2>2, <2>3, <2>4, <2>5 DEF Inv
<1>16. CASE ByHand
  <2>1. CASE \E s \in Scheduler : \E days \in Periods(s) : Check(s, New, days)
    BY <1>1, <2>1, PeriodsTyped
  <2>2. CASE \E i \in invoices : \E days \in Periods(i.client) :
                 Check(i.client, i.number, days) \/ EditOngoing(i, days)
    <3>0. PICK i \in invoices : \E days \in Periods(i.client) :
                 Check(i.client, i.number, days) \/ EditOngoing(i, days)
      BY <2>2
    <3>1. PICK days \in Periods(i.client) :
              Check(i.client, i.number, days) \/ EditOngoing(i, days)
      BY <3>0
    <3>2. i.client \in Scheduler /\ i.number \in Nat /\ days \in SUBSET Int
      BY PeriodsTyped DEF Inv, TypeOK, Invoice
    <3>3. CASE Check(i.client, i.number, days)
      BY <1>1, <3>2, <3>3
    <3>4. CASE EditOngoing(i, days)
      BY <1>3, <3>2, <3>4
    <3> QED BY <3>1, <3>3, <3>4
  <2>3. CASE \E i \in invoices : Delete(i)
    BY <1>4, <2>3
  <2>4. CASE \E form \in forms : Commit(form)
    BY <1>2, <2>4
  <2> QED BY <1>16, <2>1, <2>2, <2>3, <2>4 DEF ByHand
<1> QED
  BY <1>5, <1>6, <1>7, <1>8, <1>9, <1>10, <1>11, <1>12, <1>13, <1>14, <1>15, <1>16
  DEF Next, Run

\* A new scheduler has handled nothing yet.
LEMMA Initial == Init => Inv
<1> SUFFICES ASSUME Init PROVE Inv
  OBVIOUS
<1>1. TypeOK
  <2>1. seen \in [todo -> Loaded]
    <3>1. todo = {} /\ seen = [s \in todo |-> [next |-> next[s], every |-> every[s]]]
      BY DEF Init
    <3>2. DOMAIN seen = todo /\ \A s \in todo : seen[s] \in Loaded
      BY <3>1
    <3>3. seen = [s \in todo |-> seen[s]]
      BY <3>1, Zenon
    <3> QED BY <3>2, <3>3
  <2>2. next \in [Scheduler -> Int] /\ every \in [Scheduler -> Nat \ {0}]
    BY SchedulersAssumption DEF Init
  <2>3. since \in [Scheduler -> Int]
    BY <2>2 DEF Init
  <2>4. /\ invoices \in SUBSET Invoice /\ forms \in SUBSET Form
        /\ todo \in SUBSET Scheduler /\ step = "idle"
    BY DEF Init
  <2>5. /\ error \in [Scheduler -> BOOLEAN]
        /\ refused \in [Scheduler -> SUBSET Int]
        /\ removed \in [Scheduler -> SUBSET Int] /\ commits \in [Scheduler -> Nat]
    BY DEF Init
  <2> QED BY <2>1, <2>2, <2>3, <2>4, <2>5, SchedulersAssumption DEF Init, TypeOK
<1>2. \A s \in Scheduler : Handled(s) = {}
  BY <1>1 DEF Init, Handled, TypeOK
<1> QED BY <1>1, <1>2 DEF Init, Inv, NumbersAreTaken, ChecksHold, RunIsCoherent,
                          NoDayIsInvoicedTwice, NoDayIsForgotten, LastHoleIsShown

-----------------------------------------------------------------------------
LEMMA Invariance == Spec => []Inv
BY Initial, Inductive, PTL DEF Spec

\* Every state is well typed: dates, the periods of invoices, what a run of
\* CreateByScheduler has read.
THEOREM TypeCorrect == Spec => []TypeOK
BY Invariance, PTL DEF Inv

\* No day of a client is on two invoices, across kills between the commit of
\* an invoice and the update of the scheduler (CreateByScheduler::execute),
\* unless one of them was committed after a check that another commit had
\* overtaken or was edited on its way (CheckValidity, mustCheckValidity).
THEOREM NeverTwice == Spec => []NoDayIsInvoicedTwice
BY Invariance, PTL DEF Inv

\* Each day that a scheduler has moved past is invoiced, was in a refused
\* period or was taken off its invoice by an operator.
THEOREM NeverForgotten == Spec => []NoDayIsForgotten
BY Invariance, PTL DEF Inv

\* A hole in the last period is told by lastExecutionError.
THEOREM HolesAreShown == Spec => []LastHoleIsShown
BY Invariance, PTL DEF Inv

=============================================================================

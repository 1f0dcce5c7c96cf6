------------------------ MODULE InvoiceNumbers_proofs ------------------------
(* Proofs about InvoiceNumbers, for every set of invoices, sequences and   *)
(* processes.                                                              *)
EXTENDS InvoiceNumbers, TLAPS

(* Process p has computed a number of s that it has not committed.         *)
Pending(p, s) ==
    proc[p].step = "commit" /\ proc[p].takes /\ SequenceOf[proc[p].inv] = s

(* A copy is never ahead of the row, and a copy of the row's own version   *)
(* agrees with it, but for the number that waits for its commit.           *)
CopyOK ==
    \A p \in Process, s \in Sequence :
        copy[p][s] # NotLoaded =>
            /\ copy[p][s].version \in 1..version[s]
            /\ copy[p][s].version = version[s] =>
                copy[p][s].iteration = IF Pending(p, s) THEN iteration[s] + 1 ELSE iteration[s]

(* What waits for its commit was computed from a loaded row.               *)
PendingLoaded ==
    \A p \in Process, s \in Sequence : Pending(p, s) => copy[p][s] # NotLoaded

IInv == TypeOK /\ CopyOK /\ PendingLoaded

(* The initial states satisfy the invariant.                               *)
LEMMA InitInv == Init => IInv
  <1> USE NumbersConstants
  <1> SUFFICES ASSUME Init PROVE IInv
    OBVIOUS
  <1>1. TypeOK
    BY DEF Init, TypeOK, Status, Row, NoCopy, NotLoaded, Idle
  <1>2. CopyOK /\ PendingLoaded
    BY DEF Init, CopyOK, PendingLoaded, Pending, NoCopy, Idle
  <1> QED
    BY <1>1, <1>2 DEF IInv

(* Every step keeps types and the unique key.                              *)
LEMMA TypeStep == TypeOK /\ PendingLoaded /\ CopyOK /\ [Next]_vars => TypeOK'
  <1> USE NumbersConstants
  <1> SUFFICES ASSUME TypeOK, PendingLoaded, CopyOK, [Next]_vars PROVE TypeOK'
    OBVIOUS
  <1>1. ASSUME NEW p \in Process, SetInvoiceNumber(p) PROVE TypeOK'
    <2>1. /\ UNCHANGED <<iteration, version, status, number, edits>>
          /\ proc' = [proc EXCEPT ![p] = [proc[p] EXCEPT !.step = "commit"]]
      BY <1>1 DEF SetInvoiceNumber, Become, rowVars
    <2>2. proc[p] \in Job
      BY <1>1 DEF SetInvoiceNumber, TypeOK, Idle
    <2>3. proc' \in [Process -> Job \cup {Idle}]
      BY <2>1, <2>2 DEF TypeOK, Job
    <2>4. copy' \in [Process -> [Sequence -> Row]]
      <3> DEFINE s == SequenceOf[proc[p].inv]
                 c == Loaded(p, s)
                 next == [iteration |-> c.iteration + 1, version |-> c.version]
      <3>1. s \in Sequence /\ iteration[s] \in Nat /\ version[s] \in Nat
        BY <2>2 DEF TypeOK, Job
      <3>2. c \in Row
        BY <3>1 DEF TypeOK, Loaded, Row
      <3>3. next \in Row
        BY <3>2 DEF Row
      <3>4. \/ copy' = copy
            \/ copy' = [copy EXCEPT ![p][s] = next]
        BY <1>1 DEF SetInvoiceNumber, Become
      <3>5. copy \in [Process -> [Sequence -> Row]]
        BY DEF TypeOK
      <3> HIDE DEF next
      <3> QED
        BY <3>1, <3>3, <3>4, <3>5
    <2> QED
      BY <2>1, <2>3, <2>4 DEF TypeOK
  <1>2. ASSUME NEW p \in Process, CommitNumbered(p) PROVE TypeOK'
    <2>1. UNCHANGED <<iteration, version, number, copy, edits>>
      BY <1>2 DEF CommitNumbered, rowVars
    <2>2. proc' \in [Process -> Job \cup {Idle}]
      BY <1>2 DEF CommitNumbered, Become, TypeOK
    <2>3. status' \in [Invoice -> Status]
      BY <1>2 DEF CommitNumbered, SaveStatus, StatusAfter, TypeOK, Job, Status, Idle
    <2> QED
      BY <2>1, <2>2, <2>3 DEF TypeOK
  <1>3. ASSUME NEW p \in Process, CommitNumber(p) PROVE TypeOK'
    <2> DEFINE i == proc[p].inv
               s == SequenceOf[i]
               k == copy[p][s].iteration
    <2>1. proc[p] \in Job /\ i \in Invoice /\ s \in Sequence /\ Pending(p, s)
      BY <1>3 DEF CommitNumber, TypeOK, Job, Idle, Pending
    <2>2. k = iteration[s] + 1 /\ k \in 0..IterationLimit
      BY <1>3, <2>1 DEF CommitNumber, SameVersion, CopyOK, PendingLoaded, TypeOK
    <2>3. /\ iteration' = [iteration EXCEPT ![s] = k]
          /\ version' = [version EXCEPT ![s] = @ + 1]
          /\ SaveStatus(proc[p])
          /\ Done(p, s)
          /\ edits' = edits
          /\ \/ number' = number
             \/ Free(NumberOf(s, k), i) /\ number' = [number EXCEPT ![i] = NumberOf(s, k)]
      BY <1>3 DEF CommitNumber
    <2>4. iteration' \in [Sequence -> 0..IterationLimit] /\ version' \in [Sequence -> Nat \ {0}]
      BY <2>1, <2>2, <2>3 DEF TypeOK
    <2>5. status' \in [Invoice -> Status]
      BY <2>1, <2>3 DEF SaveStatus, StatusAfter, TypeOK, Job, Status
    <2>6. proc' \in [Process -> Job \cup {Idle}]
      BY <2>3 DEF Done, Become, TypeOK
    <2>7. copy' \in [Process -> [Sequence -> Row]]
      <3>1. [copy[p][s] EXCEPT !.version = @ + 1] \in Row
        <4>1. copy[p][s] \in Row
          BY <2>1 DEF TypeOK
        <4> QED
          BY <4>1 DEF Row
      <3>2. NoCopy \in [Sequence -> Row]
        BY DEF NoCopy, NotLoaded, Row
      <3>3. CASE p = Scheduler
        <4> DEFINE bumped == [copy[p][s] EXCEPT !.version = @ + 1]
        <4>1. copy' = [copy EXCEPT ![p][s] = bumped]
          BY <2>3, <3>3 DEF Done
        <4> QED
          BY <2>1, <3>1, <4>1 DEF TypeOK
      <3>4. CASE p # Scheduler
        BY <2>3, <3>2, <3>4 DEF Done, TypeOK
      <3> QED
        BY <3>3, <3>4
    <2>8. DOMAIN number' = Invoice /\ k \in 1..iteration'[s]
      BY <2>1, <2>2, <2>3 DEF TypeOK
    <2>9. ASSUME NEW j \in Invoice
          PROVE  \/ number'[j] \in Manual \cup {NoNumber}
                 \/ \E m \in 1..iteration'[SequenceOf[j]] :
                        number'[j] = NumberOf(SequenceOf[j], m)
      <3>1. 1..iteration[SequenceOf[j]] \subseteq 1..iteration'[SequenceOf[j]]
        BY <2>1, <2>2, <2>3 DEF TypeOK
      <3>2. CASE number'[j] = number[j]
        BY <3>1, <3>2 DEF TypeOK
      <3>3. CASE j = i /\ number'[i] = NumberOf(s, k)
        BY <2>8, <3>3
      <3> QED
        BY <2>1, <2>3, <3>2, <3>3 DEF TypeOK
    <2>10. ASSUME NEW j \in Invoice, NEW l \in Invoice, j # l, number'[j] = number'[l]
          PROVE  number'[j] = NoNumber
      BY <2>1, <2>3, <2>10 DEF Free, TypeOK
    <2> QED
      BY <2>3, <2>4, <2>5, <2>6, <2>7, <2>8, <2>9, <2>10 DEF TypeOK
  <1>4. ASSUME NEW p \in Process, Abort(p) PROVE TypeOK'
    BY <1>4 DEF Abort, Become, TypeOK, rowVars, NoCopy, NotLoaded, Row
  <1>5. ASSUME NEW p \in Process, NEW i \in Invoice, Press(p, i) PROVE TypeOK'
    BY <1>5 DEF Press, Become, TypeOK, rowVars, Job, Exists
  <1>6. ASSUME NEW i \in Invoice, StartScheduled(i) PROVE TypeOK'
    BY <1>6 DEF StartScheduled, Become, TypeOK, rowVars, Job, Process, Status
  <1>7. ASSUME NEW i \in Invoice, Create(i) PROVE TypeOK'
    BY <1>7 DEF Create, Free, TypeOK, rowVars, procVars, Status
  <1>8. ASSUME NEW i \in Invoice, Renumber(i) PROVE TypeOK'
    BY <1>8 DEF Renumber, Free, TypeOK, rowVars, procVars, Status
  <1>9. ASSUME NEW i \in Invoice, Delete(i) PROVE TypeOK'
    BY <1>9 DEF Delete, TypeOK, rowVars, procVars, Status
  <1>10. ASSUME NEW i \in Invoice, MakePdf(i) PROVE TypeOK'
    BY <1>10 DEF MakePdf, TypeOK, rowVars, procVars, Status
  <1>11. ASSUME NEW s \in Sequence, EditSequence(s) PROVE TypeOK'
    BY <1>11 DEF EditSequence, TypeOK, procVars
  <1>12. CASE EndScheduler
    BY <1>12 DEF EndScheduler, TypeOK, rowVars, Process, NoCopy, NotLoaded, Row
  <1>13. CASE UNCHANGED vars
    BY <1>13 DEF vars, rowVars, procVars, TypeOK
  <1> QED
    BY <1>1, <1>2, <1>3, <1>4, <1>5, <1>6, <1>7, <1>8, <1>9, <1>10, <1>11, <1>12,
       <1>13 DEF Next, Commit

(* Every step keeps copies in step with the rows.                          *)
LEMMA CopyStep ==
    TypeOK /\ CopyOK /\ PendingLoaded /\ [Next]_vars => CopyOK' /\ PendingLoaded'
  <1> USE NumbersConstants
  <1> DEFINE Goal == CopyOK' /\ PendingLoaded'
  <1> SUFFICES ASSUME TypeOK, CopyOK, PendingLoaded, [Next]_vars PROVE Goal
    OBVIOUS
  <1>1. ASSUME NEW p \in Process, SetInvoiceNumber(p) PROVE Goal
    <2> DEFINE s == SequenceOf[proc[p].inv]
               c == Loaded(p, s)
               next == [iteration |-> c.iteration + 1, version |-> c.version]
    <2>1. /\ UNCHANGED <<iteration, version>>
          /\ proc' = [proc EXCEPT ![p] = [proc[p] EXCEPT !.step = "commit"]]
      BY <1>1 DEF SetInvoiceNumber, Become, rowVars
    <2>2. proc[p] \in Job /\ s \in Sequence
      BY <1>1 DEF SetInvoiceNumber, TypeOK, Idle, Job
    <2>3. \A t \in Sequence :
            ~Pending(p, t) /\ (Pending(p, t)' <=> proc[p].takes /\ t = s)
      BY <1>1, <2>1, <2>2 DEF SetInvoiceNumber, Pending, TypeOK, Job
    <2>4. \A q \in Process \ {p}, t \in Sequence : Pending(q, t)' <=> Pending(q, t)
      BY <2>1 DEF Pending, TypeOK
    <2>5. CASE ~proc[p].takes
      <3>1. copy' = copy
        BY <1>1, <2>5 DEF SetInvoiceNumber
      <3> QED
        BY <2>1, <2>3, <2>4, <2>5, <3>1 DEF CopyOK, PendingLoaded
    <2>6. CASE proc[p].takes
      <3>1. copy' = [copy EXCEPT ![p][s] = next]
        BY <1>1, <2>6 DEF SetInvoiceNumber
      <3>2. copy'[p][s] = next
        BY <2>2, <3>1 DEF TypeOK
      <3>3. \A q \in Process, t \in Sequence :
              q # p \/ t # s => copy'[q][t] = copy[q][t]
        BY <2>2, <3>1 DEF TypeOK
      <3>4. /\ iteration[s] \in Nat /\ version[s] \in Nat \ {0}
            /\ copy[p][s] \in Row
        BY <2>2 DEF TypeOK
      <3>5. /\ c.version \in 1..version[s] /\ c.iteration \in Nat
            /\ c.version = version[s] => c.iteration = iteration[s]
        BY <2>2, <2>3, <3>4 DEF Loaded, CopyOK, Row
      <3>6. next # NotLoaded
        BY <3>5 DEF NotLoaded
      <3>7. CopyOK'
        BY <2>1, <2>2, <2>3, <2>4, <2>6, <3>2, <3>3, <3>5 DEF CopyOK
      <3> QED
        BY <2>2, <2>3, <2>4, <3>2, <3>3, <3>6, <3>7 DEF PendingLoaded
    <2> QED
      BY <2>5, <2>6
  <1>2. ASSUME NEW p \in Process, CommitNumbered(p) PROVE Goal
    <2>1. UNCHANGED <<iteration, version, copy>> /\ proc' = [proc EXCEPT ![p] = Idle]
      BY <1>2 DEF CommitNumbered, Become, rowVars
    <2>2. \A q \in Process, t \in Sequence : Pending(q, t)' <=> Pending(q, t)
      BY <1>2, <2>1 DEF CommitNumbered, Pending, Idle, TypeOK
    <2> QED
      BY <2>1, <2>2 DEF CopyOK, PendingLoaded
  <1>3. ASSUME NEW p \in Process, CommitNumber(p) PROVE Goal
    <2> DEFINE s == SequenceOf[proc[p].inv]
               k == copy[p][s].iteration
    <2>1. proc[p] \in Job /\ s \in Sequence /\ Pending(p, s)
      BY <1>3 DEF CommitNumber, TypeOK, Job, Idle, Pending
    <2>2. k = iteration[s] + 1 /\ copy[p][s].version = version[s]
      BY <1>3, <2>1 DEF CommitNumber, SameVersion, CopyOK, PendingLoaded, TypeOK
    <2>3. /\ iteration' = [iteration EXCEPT ![s] = k]
          /\ version' = [version EXCEPT ![s] = @ + 1]
          /\ proc' = [proc EXCEPT ![p] = Idle]
          /\ Done(p, s)
      BY <1>3 DEF CommitNumber, Done, Become
    <2>4. /\ \A t \in Sequence : version[t] \in Nat \ {0} /\ iteration[t] \in Nat
          /\ \A q \in Process, t \in Sequence : copy[q][t] \in Row
      BY DEF TypeOK
    <2>5. \A t \in Sequence :
            /\ version'[t] = IF t = s THEN version[t] + 1 ELSE version[t]
            /\ iteration'[t] = IF t = s THEN k ELSE iteration[t]
      BY <2>1, <2>3 DEF TypeOK
    <2>6. \A q \in Process, t \in Sequence :
            Pending(q, t)' <=> q # p /\ Pending(q, t)
      BY <2>3 DEF Pending, Idle, TypeOK
    <2>7. \A q \in Process \ {p}, t \in Sequence : copy'[q][t] = copy[q][t]
      BY <2>3 DEF Done, TypeOK
    <2>8. PendingLoaded'
      BY <2>6, <2>7 DEF PendingLoaded
    <2>9. ASSUME NEW t \in Sequence
          PROVE  \/ copy'[p][t] = NotLoaded
                 \/ t # s /\ copy'[p][t] = copy[p][t]
                 \/ t = s /\ copy'[p][t] = [iteration |-> k, version |-> version[s] + 1]
      <3>1. CASE p = Scheduler
        <4>1. copy' = [copy EXCEPT ![p][s] = [copy[p][s] EXCEPT !.version = @ + 1]]
          BY <2>3, <3>1 DEF Done
        <4>2. [copy[p][s] EXCEPT !.version = @ + 1]
                = [iteration |-> k, version |-> version[s] + 1]
          BY <2>1, <2>2, <2>4 DEF Row
        <4> QED
          BY <2>1, <4>1, <4>2 DEF TypeOK
      <3>2. CASE p # Scheduler
        BY <2>3, <3>2 DEF Done, TypeOK, NoCopy
      <3> QED
        BY <3>1, <3>2
    <2>10. ASSUME NEW t \in Sequence, t # s PROVE ~Pending(p, t)
      BY <2>10 DEF Pending
    <2>11. \A t \in Sequence : copy'[p][t] # NotLoaded =>
              /\ copy'[p][t].version \in 1..version'[t]
              /\ copy'[p][t].version = version'[t] => copy'[p][t].iteration = iteration'[t]
      BY <2>1, <2>4, <2>5, <2>9, <2>10 DEF CopyOK
    <2>12. \A q \in Process \ {p}, t \in Sequence : copy'[q][t] # NotLoaded =>
              /\ copy'[q][t].version \in 1..version'[t]
              /\ copy'[q][t].version = version'[t] =>
                  copy'[q][t].iteration =
                    IF Pending(q, t) THEN iteration'[t] + 1 ELSE iteration'[t]
      BY <2>4, <2>5, <2>7 DEF CopyOK, Row
    <2> QED
      BY <2>6, <2>8, <2>11, <2>12 DEF CopyOK
  <1>4. ASSUME NEW p \in Process, Abort(p) PROVE Goal
    <2>1. /\ UNCHANGED <<iteration, version>>
          /\ proc' = [proc EXCEPT ![p] = Idle] /\ copy' = [copy EXCEPT ![p] = NoCopy]
      BY <1>4 DEF Abort, Become, rowVars
    <2>2. \A q \in Process, t \in Sequence : Pending(q, t)' => q # p /\ Pending(q, t)
      BY <2>1 DEF Pending, Idle, TypeOK
    <2>3. \A q \in Process, t \in Sequence :
            IF q = p THEN copy'[q][t] = NotLoaded
            ELSE copy'[q][t] = copy[q][t] /\ (Pending(q, t)' <=> Pending(q, t))
      BY <2>1 DEF TypeOK, NoCopy, Pending
    <2> QED
      BY <2>1, <2>2, <2>3 DEF CopyOK, PendingLoaded
  <1>5. ASSUME NEW p \in Process, NEW i \in Invoice, Press(p, i) PROVE Goal
    <2>1. UNCHANGED <<iteration, version, copy>>
      BY <1>5 DEF Press, rowVars
    <2>2. \A q \in Process, t \in Sequence : Pending(q, t)' <=> Pending(q, t)
      BY <1>5 DEF Press, Become, Pending, Idle, TypeOK
    <2> QED
      BY <2>1, <2>2 DEF CopyOK, PendingLoaded
  <1>6. ASSUME NEW i \in Invoice, StartScheduled(i) PROVE Goal
    <2>1. UNCHANGED <<iteration, version, copy>>
      BY <1>6 DEF StartScheduled, rowVars
    <2>2. \A q \in Process, t \in Sequence : Pending(q, t)' <=> Pending(q, t)
      BY <1>6 DEF StartScheduled, Become, Pending, Idle, TypeOK, Process
    <2> QED
      BY <2>1, <2>2 DEF CopyOK, PendingLoaded
  <1>7. ASSUME NEW s \in Sequence, EditSequence(s) PROVE Goal
    <2>1. /\ UNCHANGED <<iteration, proc, copy>>
          /\ version' = [version EXCEPT ![s] = @ + 1]
      BY <1>7 DEF EditSequence, procVars
    <2>2. \A t \in Sequence : version[t] \in Nat /\ version'[t] \in {version[t], version[t] + 1}
      BY <2>1 DEF TypeOK
    <2>3. \A q \in Process, t \in Sequence : Pending(q, t)' <=> Pending(q, t)
      BY <2>1 DEF Pending
    <2>4. \A q \in Process, t \in Sequence : copy[q][t] \in Row
      BY DEF TypeOK
    <2> QED
      BY <2>1, <2>2, <2>3, <2>4 DEF CopyOK, PendingLoaded, Row
  <1>8. CASE EndScheduler
    <2>1. UNCHANGED <<iteration, version, proc>> /\ copy' = [copy EXCEPT ![Scheduler] = NoCopy]
      BY <1>8 DEF EndScheduler, rowVars
    <2>2. \A q \in Process, t \in Sequence :
            copy'[q][t] = IF q = Scheduler THEN NotLoaded ELSE copy[q][t]
      BY <2>1 DEF TypeOK, NoCopy
    <2>3. \A t \in Sequence : ~Pending(Scheduler, t)
      BY <1>8 DEF EndScheduler, Pending, Idle
    <2>4. \A q \in Process, t \in Sequence : Pending(q, t)' <=> Pending(q, t)
      BY <2>1 DEF Pending
    <2> QED
      BY <2>1, <2>2, <2>3, <2>4 DEF CopyOK, PendingLoaded
  <1>9. CASE UNCHANGED <<iteration, version, proc, copy>>
    BY <1>9 DEF CopyOK, PendingLoaded, Pending
  <1>10. ASSUME NEW i \in Invoice, Create(i) \/ Renumber(i) \/ Delete(i) \/ MakePdf(i)
         PROVE  UNCHANGED <<iteration, version, proc, copy>>
    BY <1>10 DEF Create, Renumber, Delete, MakePdf, rowVars, procVars
  <1>11. UNCHANGED vars => UNCHANGED <<iteration, version, proc, copy>>
    BY DEF vars, rowVars, procVars
  <1> QED
    BY <1>1, <1>2, <1>3, <1>4, <1>5, <1>6, <1>7, <1>8, <1>9, <1>10, <1>11
       DEF Next, Commit

(* Rows, numbers and copies are consistent in every reachable state.       *)
THEOREM Invariant == Spec => []IInv
  <1>1. IInv /\ [Next]_vars => IInv'
    BY TypeStep, CopyStep DEF IInv
  <1> QED
    BY InitInv, <1>1, PTL DEF Spec

(* Every reachable state is well typed: a number is one that an operator   *)
(* typed or that the invoice's sequence has given, and no two invoices     *)
(* share one.                                                              *)
THEOREM TypeCorrect == Spec => []TypeOK
  BY Invariant, PTL DEF IInv

(* A step of the system is a step of the register or leaves it alone.      *)
LEMMA RegisterStep == IInv /\ [Next]_vars => [Register!Next]_(Register!vars)
  <1> USE NumbersConstants
  <1> SUFFICES ASSUME IInv, [Next]_vars PROVE Register!Next \/ UNCHANGED <<iteration, number>>
    BY DEF Register!vars
  <1> USE DEF IInv
  <1>1. ASSUME NEW p \in Process, CommitNumber(p) PROVE Register!Next
    <2> DEFINE i == proc[p].inv
               s == SequenceOf[i]
               k == copy[p][s].iteration
    <2>1. i \in Invoice /\ s \in Sequence /\ Pending(p, s)
      BY <1>1 DEF CommitNumber, TypeOK, Job, Idle, Pending
    <2>2. k = iteration[s] + 1
      BY <1>1, <2>1 DEF CommitNumber, SameVersion, CopyOK, PendingLoaded, TypeOK
    <2>3. iteration' = [iteration EXCEPT ![s] = k]
      BY <1>1 DEF CommitNumber
    <2>4. Register!Advance(s)
      BY <2>2, <2>3 DEF Register!Advance
    <2>5. \/ number' = number
          \/ Free(NumberOf(s, k), i) /\ number' = [number EXCEPT ![i] = NumberOf(s, k)]
      BY <1>1 DEF CommitNumber
    <2>6. Register!Skip(s) \/ Register!HandOut(s, i)
      BY <2>2, <2>4, <2>5 DEF Register!Skip, Register!HandOut, Register!Next1,
                              Register!Free, Free
    <2> QED
      BY <2>1, <2>6 DEF Register!Next
  <1>2. ASSUME NEW i \in Invoice, Create(i) \/ Renumber(i) \/ Delete(i) PROVE Register!Type(i)
    BY <1>2 DEF Create, Renumber, Delete, Free, Register!Type, Register!Free, rowVars
  <1>3. ASSUME NEW i \in Invoice, Create(i) \/ Renumber(i) \/ Delete(i) PROVE Register!Next
    BY <1>2, <1>3 DEF Register!Next
  <1>4. ASSUME NEW p \in Process,
               SetInvoiceNumber(p) \/ CommitNumbered(p) \/ Abort(p)
        PROVE  UNCHANGED <<iteration, number>>
    BY <1>4 DEF SetInvoiceNumber, CommitNumbered, Abort, rowVars
  <1>5. ASSUME NEW p \in Process, NEW i \in Invoice, Press(p, i)
        PROVE  UNCHANGED <<iteration, number>>
    BY <1>5 DEF Press, rowVars
  <1>6. ASSUME NEW i \in Invoice, StartScheduled(i) \/ MakePdf(i)
        PROVE  UNCHANGED <<iteration, number>>
    BY <1>6 DEF StartScheduled, MakePdf, rowVars
  <1>7. ASSUME NEW s \in Sequence, EditSequence(s) PROVE UNCHANGED <<iteration, number>>
    BY <1>7 DEF EditSequence
  <1>8. EndScheduler \/ UNCHANGED vars => UNCHANGED <<iteration, number>>
    BY DEF EndScheduler, vars, rowVars
  <1> QED
    BY <1>1, <1>3, <1>4, <1>5, <1>6, <1>7, <1>8 DEF Next, Commit

(* Optimistic allocation implements the atomic register: however requests, *)
(* the scheduler and edits interleave, the numbers of a sequence are handed*)
(* out one by one, in order, and each of them once.                        *)
THEOREM Implementation == Spec => IsRegister
  <1>1. Init => Register!Init
    BY NumbersConstants DEF Init, Register!Init
  <1> QED
    BY Invariant, RegisterStep, <1>1, PTL DEF Spec, IsRegister, Register!Spec
=============================================================================

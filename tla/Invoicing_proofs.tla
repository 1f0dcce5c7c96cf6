-------------------------- MODULE Invoicing_proofs --------------------------
(***************************************************************************)
(* Proofs about module Invoicing, for every set of invoices, calls and     *)
(* periods and any number of faults.                                       *)
(***************************************************************************)
EXTENDS Invoicing, TLAPS

(* The types and the foreign key hold in every state: no call points to an *)
(* invoice that does not exist, whatever the worker was doing when the     *)
(* invoice was deleted.                                                    *)
THEOREM TypeCorrect == Spec => []TypeOK
<1> USE InvoicingConstants
<1>1. Init => TypeOK
  BY DEF Init, TypeOK, Idle, Job, Status, WorkerStep, Exists
<1>2. TypeOK /\ [Next]_vars => TypeOK'
  <2> SUFFICES ASSUME TypeOK, [Next]_vars PROVE TypeOK'
    OBVIOUS
  <2> USE DEF TypeOK, Exists, Status, invoiceVars, orderVars, callVars, workerVars
  <2>1. ASSUME NEW i \in Invoice, CheckNew(i) PROVE TypeOK'
    <3>1. PICK days \in Period : \E left \in StillUnmetered(i, days) :
            unmetered' = left /\ period' = [period EXCEPT ![i] = days]
      BY <2>1 DEF CheckNew
    <3>2. unmetered' \subseteq Call
      BY <3>1 DEF StillUnmetered
    <3> QED BY <2>1, <3>1, <3>2 DEF CheckNew
  <2>2. ASSUME NEW i \in Invoice, SaveNew(i) PROVE TypeOK'
    BY <2>2 DEF SaveNew, Order
  <2>3. ASSUME NEW i \in Invoice, Edit(i) PROVE TypeOK'
    BY <2>3 DEF Edit
  <2>4. ASSUME NEW i \in Invoice, EditOnGoing(i) PROVE TypeOK'
    BY <2>4 DEF EditOnGoing
  <2>5. ASSUME NEW i \in Invoice, Regenerate(i) \/ GetNumber(i) PROVE TypeOK'
    <3>1. unmetered' \subseteq Call
      BY <2>5 DEF Regenerate, GetNumber, CheckOrdered, StillUnmetered
    <3>2. CASE Regenerate(i)
      BY <3>1, <3>2 DEF Regenerate, Order
    <3>3. CASE GetNumber(i)
      BY <3>1, <3>3 DEF GetNumber
    <3> QED BY <2>5, <3>2, <3>3
  <2>6. ASSUME NEW i \in Invoice, Delete(i) PROVE TypeOK'
    BY <2>6 DEF Delete
  <2>7. ASSUME NEW i \in Invoice, Send(i) PROVE TypeOK'
    BY <2>7 DEF Send
  <2>8. ASSUME NEW i \in Invoice, SendFails(i) PROVE TypeOK'
    BY <2>8 DEF SendFails
  <2>9. ASSUME NEW c \in Call, AddCall(c) \/ RateCall(c) \/ RerateCall(c)
        PROVE TypeOK'
    BY <2>9 DEF AddCall, RateCall, RerateCall
  <2>10. CASE Work
    <3> USE DEF Job, WorkerStep, WorkerAt, Idle
    <3>1. ASSUME Pop PROVE TypeOK'
      <4>1. Head(queue) \in Invoice /\ Tail(queue) \in Seq(Invoice)
        BY <3>1 DEF Pop
      <4>2. worker' \in Job /\ worker'.inv \in Invoice
        BY <3>1, <4>1 DEF Pop
      <4> QED BY <3>1, <4>1, <4>2 DEF Pop
    <3>2. ASSUME ResetInvoiceId PROVE TypeOK'
      BY <3>2 DEF ResetInvoiceId
    <3>3. ASSUME InvoiceNotFound PROVE TypeOK'
      BY <3>3 DEF InvoiceNotFound
    <3>4. ASSUME SetProcessing PROVE TypeOK'
      <4>1. worker.inv \in Invoice /\ period[worker.inv] \in SUBSET Day
        BY <3>4 DEF SetProcessing
      <4>2. /\ worker' \in Job /\ worker'.inv = worker.inv
            /\ status' \in [Invoice -> Status]
        BY <3>4, <4>1 DEF SetProcessing
      <4>3. \A c \in Call : Exists(owner[c]) => Exists(owner[c])'
        BY <3>4, <4>1 DEF SetProcessing, Exists
      <4> QED BY <3>4, <4>1, <4>2, <4>3 DEF SetProcessing
    <3>5. ASSUME SetInvoiceId PROVE TypeOK'
      BY <3>5 DEF SetInvoiceId, CallsIn
    <3>6. ASSUME ReadCalls PROVE TypeOK'
      BY <3>6 DEF ReadCalls, CallsIn
    <3>7. ASSUME Finish PROVE TypeOK'
      BY <3>7 DEF Finish, SetStatus
    <3>8. ASSUME Fail PROVE TypeOK'
      BY <3>8 DEF Fail, SetStatus
    <3> QED BY <2>10, <3>1, <3>2, <3>3, <3>4, <3>5, <3>6, <3>7, <3>8 DEF Work
  <2>11. ASSUME Kill PROVE TypeOK'
    <3>1. contested' \subseteq Call
      <4>1. CASE WorkerAt("find")
        <5>1. worker.inv \in Invoice
          BY <4>1 DEF WorkerAt
        <5> QED BY <2>11, <4>1, <5>1 DEF Kill
      <4>2. CASE ~WorkerAt("find")
        BY <2>11, <4>2 DEF Kill
      <4> QED BY <4>1, <4>2
    <3> QED BY <2>11, <3>1 DEF Kill, Job, Idle, WorkerStep
  <2>12. CASE UNCHANGED vars
    BY <2>12 DEF vars
  <2> QED
    BY <2>1, <2>2, <2>3, <2>4, <2>5, <2>6, <2>7, <2>8, <2>9, <2>10, <2>11,
       <2>12 DEF Next
<1> QED BY <1>1, <1>2, PTL DEF Spec

-----------------------------------------------------------------------------
(* "One call, one invoice".  The argument: the periods of the invoices     *)
(* that exist, or that a request has checked, are disjoint; the period of  *)
(* an invoice does not change while the worker makes it; and the calls in  *)
(* a finished PDF start in the period of the invoice.                      *)

Live(i) == Exists(i) \/ i \in checked

PeriodsDisjoint ==
    \A i, j \in Invoice : i # j /\ Live(i) /\ Live(j) => period[i] \cap period[j] = {}

CheckedAreNew == \A i \in checked : status[i] = "new"

OneChecked == CheckedAreNew /\ \A i, j \in checked : i = j

Loaded == worker.step \in {"assign", "read", "finish"}

LoadedPeriod ==
    Loaded => /\ status[worker.inv] \in {"waiting", "processing", "deleted"}
              /\ Exists(worker.inv) => worker.days = period[worker.inv]
              /\ worker.step = "finish" =>
                     \A c \in worker.pdf : DayOf[c] \in worker.days

BilledInPeriod ==
    \A i \in Invoice : Created(i) => \A c \in billed[i] : DayOf[c] \in period[i]

BookingInv == PeriodsDisjoint /\ OneChecked /\ LoadedPeriod /\ BilledInPeriod

(* The periods of an invoice that is saved, edited or ordered.             *)
LEMMA BookingRequest ==
    ASSUME TypeOK, BookingInv, ~Race, ~EditOngoing, NEW i \in Invoice,
           \/ CheckNew(i) \/ SaveNew(i) \/ Edit(i) \/ EditOnGoing(i)
           \/ Regenerate(i) \/ GetNumber(i) \/ Delete(i) \/ Send(i) \/ SendFails(i)
    PROVE  BookingInv'
<1> USE DEF TypeOK, BookingInv, Exists, Live, Loaded, PeriodsDisjoint, OneChecked, CheckedAreNew,
            LoadedPeriod, BilledInPeriod, Created, Status, Job, WorkerStep,
            invoiceVars, orderVars, callVars, workerVars
<1>1. CASE CheckNew(i)
  <2>1. PICK days \in Period :
          InRange(i, days) = {} /\ period' = [period EXCEPT ![i] = days]
    BY <1>1 DEF CheckNew, Valid
  <2>2. checked = {} /\ checked' = {i} /\ status[i] = "new"
    BY <1>1 DEF CheckNew, Alone
  <2>3. \A j \in Invoice \ {i} : Exists(j) => period[j] \cap days = {}
    BY <2>1 DEF InRange
  <2>4. UNCHANGED <<status, billed, worker>>
    BY <1>1 DEF CheckNew
  <2>5. period' \in [Invoice -> SUBSET Day] /\ period'[i] = days
    BY <2>1, InvoicingConstants
  <2>6. PeriodsDisjoint'
    BY <2>1, <2>2, <2>3, <2>4, <2>5
  <2>7. LoadedPeriod' /\ BilledInPeriod' /\ OneChecked'
    BY <2>1, <2>2, <2>4, <2>5
  <2> QED BY <2>6, <2>7
<1>2. CASE SaveNew(i)
  BY <1>2 DEF SaveNew
<1>3. CASE Edit(i)
  <2>1. PICK days \in Period :
          InRange(i, days) = {} /\ period' = [period EXCEPT ![i] = days]
    BY <1>3 DEF Edit, Valid
  <2>2. /\ checked = {} /\ UNCHANGED <<checked, worker>>
        /\ status' = [status EXCEPT ![i] = "blank"]
        /\ billed' = [billed EXCEPT ![i] = {}]
        /\ Exists(i) /\ status[i] \notin {"waiting", "processing"}
    BY <1>3 DEF Edit, Alone, OnGoing
  <2>3. \A j \in Invoice \ {i} : Exists(j) => period[j] \cap days = {}
    BY <2>1 DEF InRange
  <2>4. period' \in [Invoice -> SUBSET Day] /\ period'[i] = days
    BY <2>1, InvoicingConstants
  <2>5. PeriodsDisjoint'
    BY <2>1, <2>2, <2>3, <2>4
  <2>6. Loaded => worker.inv # i
    BY <2>2
  <2>7. LoadedPeriod'
    BY <2>1, <2>2, <2>4, <2>6
  <2>8. BilledInPeriod' /\ OneChecked'
    BY <2>1, <2>2, <2>4
  <2> QED BY <2>5, <2>7, <2>8
<1>4. CASE EditOnGoing(i)
  BY <1>4 DEF EditOnGoing
<1>5. CASE Regenerate(i)
  <2>1. status' = [status EXCEPT ![i] = "waiting"] /\ Exists(i)
        /\ UNCHANGED <<period, checked, billed, worker>>
    BY <1>5 DEF Regenerate
  <2> QED BY <2>1
<1>6. CASE Delete(i)
  BY <1>6 DEF Delete
<1>7. CASE Send(i) \/ SendFails(i)
  BY <1>7 DEF Send, SendFails
<1>8. CASE GetNumber(i)
  <2>1. /\ status' = [status EXCEPT ![i] = "blank"] /\ Exists(i)
        /\ billed' = [billed EXCEPT ![i] = {}]
        /\ status[i] \notin {"waiting", "processing"}
        /\ UNCHANGED <<period, checked, worker>>
    BY <1>8 DEF GetNumber, OnGoing
  <2>2. Loaded => worker.inv # i
    BY <2>1
  <2> QED BY <2>1, <2>2
<1> QED BY <1>1, <1>2, <1>3, <1>4, <1>5, <1>6, <1>7, <1>8

(* The worker leaves the periods alone and fills the PDF from them.        *)
LEMMA BookingWork ==
    ASSUME TypeOK, BookingInv, Work \/ Kill
    PROVE  BookingInv'
<1> USE DEF TypeOK, BookingInv, Exists, Live, Loaded, PeriodsDisjoint, OneChecked, CheckedAreNew,
            LoadedPeriod, BilledInPeriod, Created, Status, Job, WorkerStep,
            invoiceVars, orderVars, callVars, workerVars, WorkerAt, Idle
<1>1. CASE Pop
  BY <1>1 DEF Pop
<1>2. CASE ResetInvoiceId
  BY <1>2 DEF ResetInvoiceId
<1>3. CASE InvoiceNotFound \/ Kill
  BY <1>3 DEF InvoiceNotFound, Kill
<1>4. CASE SetProcessing
  BY <1>4 DEF SetProcessing
<1>5. CASE SetInvoiceId
  BY <1>5 DEF SetInvoiceId
<1>6. CASE ReadCalls
  BY <1>6 DEF ReadCalls, CallsIn
<1>7. CASE Finish
  BY <1>7 DEF Finish, SetStatus
<1>8. CASE Fail
  BY <1>8 DEF Fail, SetStatus
<1> QED BY <1>1, <1>2, <1>3, <1>4, <1>5, <1>6, <1>7, <1>8 DEF Work

(* The booking holds in every state, when requests are checked and saved   *)
(* one after the other and ongoing invoices are not edited.                *)
LEMMA BookingInvariant ==
    ASSUME ~Race, ~EditOngoing PROVE Spec => [](TypeOK /\ BookingInv)
<1>1. Init => BookingInv
  BY DEF Init, BookingInv, PeriodsDisjoint, OneChecked, CheckedAreNew, LoadedPeriod, BilledInPeriod,
         Live, Exists, Loaded, Idle, Created
<1>2. TypeOK /\ BookingInv /\ [Next]_vars => BookingInv'
  <2> SUFFICES ASSUME TypeOK, BookingInv, [Next]_vars PROVE BookingInv'
    OBVIOUS
  <2>1. ASSUME NEW c \in Call, AddCall(c) \/ RateCall(c) \/ RerateCall(c)
        PROVE BookingInv'
    BY <2>1 DEF AddCall, RateCall, RerateCall, BookingInv, PeriodsDisjoint, OneChecked, CheckedAreNew,
                LoadedPeriod, BilledInPeriod, Live, Exists, Loaded, Created,
                invoiceVars, workerVars
  <2>2. CASE UNCHANGED vars
    BY <2>2 DEF vars, invoiceVars, workerVars, BookingInv, PeriodsDisjoint, OneChecked, CheckedAreNew,
                LoadedPeriod, BilledInPeriod, Live, Exists, Loaded, Created
  <2> QED BY <2>1, <2>2, BookingRequest, BookingWork DEF Next
<1> QED BY <1>1, <1>2, TypeCorrect, PTL DEF Spec

LEMMA BookingDisjoint ==
    ASSUME TypeOK, BookingInv, NEW i \in Invoice, NEW j \in Invoice, i # j,
           Created(i), Exists(j), NEW c \in billed[i]
    PROVE  DayOf[c] \notin period[j]
<1>1. DayOf[c] \in period[i]
  BY DEF BookingInv, BilledInPeriod
<1> QED BY <1>1 DEF BookingInv, PeriodsDisjoint, Live, Exists, Created

(* No call is in the PDFs of two invoices.                                 *)
THEOREM OneInvoicePerCall ==
    ASSUME ~Race, ~EditOngoing PROVE Spec => []OneCallOneInvoice
<1>1. BookingInv /\ TypeOK => OneCallOneInvoice
  <2> SUFFICES ASSUME BookingInv, TypeOK, NEW i \in Invoice, NEW j \in Invoice,
                      i # j, Created(i), Created(j),
                      NEW c \in billed[i] \cap billed[j]
               PROVE  FALSE
    BY DEF OneCallOneInvoice
  <2>1. DayOf[c] \in period[j] /\ Exists(j)
    BY DEF BookingInv, BilledInPeriod, Created, Exists
  <2> QED BY <2>1, BookingDisjoint
<1> QED BY <1>1, BookingInvariant, PTL

-----------------------------------------------------------------------------
(* Invoices are a ledger.  The argument: at most one invoice changes       *)
(* between issued and not issued in a step, the bill of another one stands,*)
(* and the only step that issues is Finish, whose calls start in the       *)
(* period of its invoice.                                                  *)

Bill == [i \in Invoice |-> IF Created(i) THEN billed[i] ELSE {}]

(* A step that changes nothing of the finished invoices.                   *)
LEMMA LedgerStays ==
    ASSUME TypeOK, \A i \in Invoice : status'[i] = "created" <=> status[i] = "created",
           \A i \in Invoice : status[i] = "created" => billed'[i] = billed[i]
    PROVE  UNCHANGED Ledger!vars
<1>1. Issued' = Issued
  BY DEF Issued, Created
<1>2. Bill' = Bill
  BY DEF Bill, Created
<1> QED BY <1>1, <1>2 DEF Ledger!vars, Bill

(* A step that takes at most one invoice out of the finished ones.         *)
LEMMA LedgerWithdraws ==
    ASSUME TypeOK, NEW i \in Invoice, status'[i] # "created",
           \A j \in Invoice \ {i} : status'[j] = status[j] /\ billed'[j] = billed[j]
    PROVE  Ledger!Next \/ UNCHANGED Ledger!vars
<1>1. CASE status[i] = "created"
  <2>1. Issued' = Issued \ {i} /\ i \in Issued
    BY <1>1 DEF Issued, Created
  <2>2. Bill' = [Bill EXCEPT ![i] = {}]
    BY <1>1 DEF Bill, Created
  <2>3. Ledger!Withdraw(i)
    BY <2>1, <2>2 DEF Ledger!Withdraw, Bill
  <2> QED BY <2>3 DEF Ledger!Next
<1>2. CASE status[i] # "created"
  <2>1. \A j \in Invoice : status'[j] = "created" <=> status[j] = "created"
    BY <1>2
  <2>2. \A j \in Invoice : status[j] = "created" => billed'[j] = billed[j]
    BY <1>2
  <2> QED BY <2>1, <2>2, LedgerStays
<1> QED BY <1>1, <1>2

(* The worker finishes an invoice.                                         *)
LEMMA LedgerIssues ==
    ASSUME TypeOK, BookingInv, Finish
    PROVE  Ledger!Next \/ UNCHANGED Ledger!vars
<1>0. PICK i \in Invoice :
          i = worker.inv /\ worker.step = "finish" /\ Loaded /\ worker.pdf \in SUBSET Call
  BY DEF Finish, WorkerAt, TypeOK, Job, Loaded
<1>1. CASE Exists(i)
  <2>1. /\ status' = [status EXCEPT ![i] = "created"]
        /\ billed' = [billed EXCEPT ![i] = worker.pdf]
    BY <1>0, <1>1 DEF Finish, SetStatus
  <2>2. status[i] # "created"
    BY <1>0 DEF BookingInv, LoadedPeriod
  <2>3. /\ status'[i] = "created" /\ billed'[i] = worker.pdf
        /\ \A j \in Invoice \ {i} : status'[j] = status[j] /\ billed'[j] = billed[j]
    BY <1>0, <2>1 DEF TypeOK
  <2>4. \A c \in worker.pdf : DayOf[c] \in period[i]
    BY <1>0, <1>1 DEF BookingInv, LoadedPeriod
  <2>5. ASSUME NEW c \in worker.pdf, NEW j \in Invoice, Created(j), c \in billed[j] PROVE FALSE
    BY <1>0, <1>1, <2>2, <2>4, <2>5, BookingDisjoint DEF Created
  <2>6. Issued' = Issued \cup {i} /\ i \notin Issued
    BY <1>0, <2>2, <2>3 DEF Issued, Created
  <2>7. Bill' = [Bill EXCEPT ![i] = worker.pdf]
    BY <1>0, <2>2, <2>3 DEF Bill, Created
  <2>8. worker.pdf \in SUBSET {c \in Call : \A j \in Issued : c \notin Bill[j]}
    BY <1>0, <2>5 DEF Issued, Bill
  <2>9. Ledger!Issue(i)
    BY <2>6, <2>7, <2>8 DEF Ledger!Issue, Ledger!Free, Bill
  <2> QED BY <1>0, <2>9 DEF Ledger!Next
<1>2. CASE ~Exists(i)
  BY <1>0, <1>2, LedgerStays DEF Finish, SetStatus, Created
<1> QED BY <1>1, <1>2

(* Every step is a step of the ledger or none.                             *)
LEMMA LedgerStep ==
    ASSUME TypeOK, BookingInv, [Next]_vars
    PROVE  Ledger!Next \/ UNCHANGED Ledger!vars
<1> USE DEF invoiceVars, orderVars, callVars, workerVars
<1>1. ASSUME NEW i \in Invoice, CheckNew(i) \/ EditOnGoing(i) \/ Send(i) \/ SendFails(i)
      PROVE  UNCHANGED Ledger!vars
  BY <1>1, LedgerStays DEF CheckNew, EditOnGoing, Send, SendFails, Created
<1>2. ASSUME NEW i \in Invoice, SaveNew(i) \/ Edit(i) \/ Regenerate(i) \/ GetNumber(i) \/ Delete(i)
      PROVE  Ledger!Next \/ UNCHANGED Ledger!vars
  <2>1. /\ \E s \in {"blank", "waiting", "deleted"} : status' = [status EXCEPT ![i] = s]
        /\ billed' = billed \/ billed' = [billed EXCEPT ![i] = {}]
    BY <1>2 DEF SaveNew, Edit, Regenerate, GetNumber, Delete
  <2>2. /\ status'[i] # "created"
        /\ \A j \in Invoice \ {i} : status'[j] = status[j] /\ billed'[j] = billed[j]
    BY <2>1 DEF TypeOK
  <2> QED BY <2>2, LedgerWithdraws
<1>3. ASSUME NEW c \in Call, AddCall(c) \/ RateCall(c) \/ RerateCall(c)
      PROVE  UNCHANGED Ledger!vars
  BY <1>3, LedgerStays DEF AddCall, RateCall, RerateCall, Created
<1>4. CASE Pop \/ ResetInvoiceId \/ InvoiceNotFound \/ SetInvoiceId \/ ReadCalls \/ Kill
  BY <1>4, LedgerStays
     DEF Pop, ResetInvoiceId, InvoiceNotFound, SetInvoiceId, ReadCalls, Kill, Created
<1>5. CASE SetProcessing \/ Fail
  <2>1. worker.inv \in Invoice
    BY <1>5 DEF SetProcessing, Fail, WorkerAt, TypeOK
  <2>2. /\ billed' = billed
        /\ \/ status' = status
           \/ \E s \in {"processing", "error"} : status' = [status EXCEPT ![worker.inv] = s]
    BY <1>5 DEF SetProcessing, Fail, SetStatus
  <2>3. CASE status' = status
    BY <2>2, <2>3, LedgerStays DEF Created
  <2>4. CASE status' # status
    <3>1. /\ status'[worker.inv] # "created"
          /\ \A j \in Invoice \ {worker.inv} : status'[j] = status[j] /\ billed'[j] = billed[j]
      BY <2>1, <2>2, <2>4 DEF TypeOK
    <3> QED BY <2>1, <3>1, LedgerWithdraws
  <2> QED BY <2>3, <2>4
<1>6. CASE UNCHANGED vars
  BY <1>6, LedgerStays DEF vars, Created
<1> QED BY <1>1, <1>2, <1>3, <1>4, <1>5, <1>6, LedgerIssues DEF Next, Work

(* The invoices of a client are a ledger, when requests are checked and    *)
(* saved one after the other and ongoing invoices are not edited: however  *)
(* often the worker is killed, orders are lost or repeated and calls come  *)
(* late, an invoice is issued at once, with calls of its own that stand    *)
(* until it is withdrawn.                                                  *)
THEOREM LedgerImplemented ==
    ASSUME ~Race, ~EditOngoing PROVE Spec => IsLedger
<1>1. Init => Ledger!Init
  BY DEF Init, Ledger!Init, Issued, Created
<1>2. TypeOK /\ BookingInv /\ [Next]_vars => [Ledger!Next]_(Ledger!vars)
  BY LedgerStep
<1> QED BY <1>1, <1>2, BookingInvariant, PTL DEF Spec, IsLedger, Ledger!Spec

-----------------------------------------------------------------------------
(* The list of calls of a finished invoice.  The argument: between the     *)
(* reset and the end of its run, the worker knows every call that belongs  *)
(* to the invoice, and only the worker adds some.                          *)

KnownOwned ==
    /\ worker.step \in {"find", "assign"} => \A c \in Call : owner[c] # worker.inv
    /\ worker.step = "read" =>
          \A c \in Call : owner[c] = worker.inv => c \in CallsIn(worker.days)
    /\ worker.step = "finish" =>
          \A c \in Call : owner[c] = worker.inv => c \in worker.pdf

NotCreatedWhileMade ==
    Loaded => status[worker.inv] \in {"waiting", "processing", "deleted"}

OwnedInv == OwnedAreBilled /\ KnownOwned /\ NotCreatedWhileMade /\ CheckedAreNew

(* Requests: none marks a call, and those that reset an invoice take it    *)
(* out of the finished ones.                                               *)
LEMMA OwnedRequest ==
    ASSUME TypeOK, OwnedInv, NEW i \in Invoice,
           \/ CheckNew(i) \/ SaveNew(i) \/ Edit(i) \/ EditOnGoing(i)
           \/ Regenerate(i) \/ GetNumber(i) \/ Delete(i) \/ Send(i) \/ SendFails(i)
    PROVE  OwnedInv'
<1> USE DEF TypeOK, OwnedInv, OwnedAreBilled, KnownOwned, NotCreatedWhileMade, CheckedAreNew, Loaded,
            Exists, Created, CallsIn, Status, Job, WorkerStep,
            invoiceVars, orderVars, callVars, workerVars
<1>1. CASE CheckNew(i)
  BY <1>1 DEF CheckNew
<1>2. CASE SaveNew(i)
  BY <1>2 DEF SaveNew
<1>3. CASE Edit(i)
  BY <1>3 DEF Edit, OnGoing
<1>4. CASE EditOnGoing(i)
  BY <1>4 DEF EditOnGoing
<1>5. CASE Regenerate(i)
  BY <1>5 DEF Regenerate
<1>6. CASE Delete(i)
  BY <1>6, InvoicingConstants DEF Delete
<1>7. CASE Send(i) \/ SendFails(i)
  BY <1>7 DEF Send, SendFails
<1>8. CASE GetNumber(i)
  BY <1>8 DEF GetNumber, OnGoing
<1> QED BY <1>1, <1>2, <1>3, <1>4, <1>5, <1>6, <1>7, <1>8

(* The worker and its death: what it marked it knows, until it starts anew.*)
LEMMA OwnedWork ==
    ASSUME TypeOK, OwnedInv, Work \/ Kill
    PROVE  OwnedInv'
<1> USE DEF TypeOK, OwnedInv, OwnedAreBilled, KnownOwned, NotCreatedWhileMade, CheckedAreNew, Loaded,
            Exists, Created, CallsIn, Status, Job, WorkerStep, WorkerAt, Idle,
            invoiceVars, orderVars, callVars, workerVars
<1>1. CASE Pop
  BY <1>1 DEF Pop
<1>2. CASE ResetInvoiceId
  BY <1>2, InvoicingConstants DEF ResetInvoiceId
<1>3. CASE InvoiceNotFound \/ Kill
  BY <1>3 DEF InvoiceNotFound, Kill
<1>4. CASE SetProcessing
  BY <1>4 DEF SetProcessing
<1>5. CASE SetInvoiceId
  BY <1>5 DEF SetInvoiceId
<1>6. CASE ReadCalls
  BY <1>6 DEF ReadCalls
<1>7. CASE Finish
  BY <1>7 DEF Finish, SetStatus
<1>8. CASE Fail
  BY <1>8 DEF Fail, SetStatus
<1> QED BY <1>1, <1>2, <1>3, <1>4, <1>5, <1>6, <1>7, <1>8 DEF Work

LEMMA OwnedInvariant == Spec => [](TypeOK /\ OwnedInv)
<1>1. Init => OwnedInv
  BY InvoicingConstants DEF Init, OwnedInv, OwnedAreBilled, KnownOwned,
     NotCreatedWhileMade, CheckedAreNew, Loaded, Idle, Created
<1>2. TypeOK /\ OwnedInv /\ [Next]_vars => OwnedInv'
  <2> SUFFICES ASSUME TypeOK, OwnedInv, [Next]_vars PROVE OwnedInv'
    OBVIOUS
  <2> USE DEF OwnedInv, OwnedAreBilled, KnownOwned, NotCreatedWhileMade, CheckedAreNew, Loaded,
              Created, CallsIn, invoiceVars, workerVars, callVars
  <2>1. ASSUME NEW c \in Call, AddCall(c) \/ RateCall(c) \/ RerateCall(c)
        PROVE OwnedInv'
    BY <2>1 DEF AddCall, RateCall, RerateCall
  <2>2. CASE UNCHANGED vars
    BY <2>2 DEF vars
  <2> QED BY <2>1, <2>2, OwnedRequest, OwnedWork DEF Next
<1> QED BY <1>1, <1>2, TypeCorrect, PTL DEF Spec

(* The calls listed under a finished invoice are in its PDF, whatever      *)
(* requests race, whatever is edited, and however often the worker dies.   *)
THEOREM ListedCallsAreBilled == Spec => []OwnedAreBilled
BY OwnedInvariant, PTL DEF OwnedInv

-----------------------------------------------------------------------------
(* The calls of a finished PDF.  The argument: what the worker has read it *)
(* has marked just before, but for calls that came in between; from then   *)
(* on only a second invoice takes them, and only a new order for the same  *)
(* invoice lets go of them, which is in production again if the worker     *)
(* lives to say so.                                                        *)

MarkedByWorker ==
    /\ worker.step = "idle" => worker.inv \notin Invoice
    /\ Exists(worker.inv) =>
        /\ worker.step = "read" =>
              \A c \in CallsIn(worker.days) \ contested : owner[c] = worker.inv
        /\ worker.step = "finish" => \A c \in worker.pdf \ contested : owner[c] = worker.inv

MarkedInv == OwnedInv /\ MarkedByWorker /\ BilledAreOwned

(* Requests: they mark nothing, and a reset invoice is not finished.       *)
LEMMA MarkedRequest ==
    ASSUME TypeOK, MarkedInv, NEW i \in Invoice,
           \/ CheckNew(i) \/ SaveNew(i) \/ Edit(i) \/ EditOnGoing(i)
           \/ Regenerate(i) \/ GetNumber(i) \/ Delete(i) \/ Send(i) \/ SendFails(i)
    PROVE  MarkedByWorker' /\ BilledAreOwned'
<1> USE DEF TypeOK, MarkedInv, OwnedInv, CheckedAreNew, MarkedByWorker, BilledAreOwned,
            NotCreatedWhileMade, Loaded,
            Exists, Created, CallsIn, Status, Job, WorkerStep, WorkerAt,
            invoiceVars, orderVars, callVars, workerVars
<1>1. CASE CheckNew(i)
  <2>1. UNCHANGED <<status, billed, calls, owner, worker, contested>>
    BY <1>1 DEF CheckNew
  <2> QED BY <2>1
<1>2. CASE SaveNew(i)
  <2>1. status[i] = "new" /\ UNCHANGED <<billed, calls, owner, worker, contested>>
    BY <1>2 DEF SaveNew
  <2>2. \E s \in {"blank", "waiting"} : status' = [status EXCEPT ![i] = s]
    BY <1>2 DEF SaveNew
  <2>3. worker.step \in {"read", "finish"} => worker.inv # i
    BY <2>1
  <2> QED BY <2>1, <2>2, <2>3
<1>3. CASE Edit(i)
  BY <1>3 DEF Edit
<1>4. CASE EditOnGoing(i)
  BY <1>4 DEF EditOnGoing
<1>5. CASE Regenerate(i)
  BY <1>5 DEF Regenerate
<1>6. CASE Delete(i)
  BY <1>6, InvoicingConstants DEF Delete
<1>7. CASE Send(i) \/ SendFails(i)
  BY <1>7 DEF Send, SendFails
<1>8. CASE GetNumber(i)
  BY <1>8 DEF GetNumber
<1> QED BY <1>1, <1>2, <1>3, <1>4, <1>5, <1>6, <1>7, <1>8

(* The worker and its death: a call that it takes from another invoice,    *)
(* and those it has let go of when it dies, are contested from then on.    *)
LEMMA MarkedWork ==
    ASSUME TypeOK, MarkedInv, Work \/ Kill
    PROVE  MarkedByWorker' /\ BilledAreOwned'
<1> USE DEF TypeOK, MarkedInv, OwnedInv, MarkedByWorker, BilledAreOwned, NotCreatedWhileMade,
            Loaded, Exists, Created, CallsIn, Status, Job, WorkerStep, WorkerAt, Idle,
            invoiceVars, orderVars, callVars, workerVars
<1> USE InvoicingConstants
<1>1. CASE Pop
  <2>1. /\ worker.step = "idle" /\ worker'.step = "reset"
        /\ UNCHANGED <<status, billed, owner, contested>>
    BY <1>1 DEF Pop
  <2> QED BY <2>1
<1>2. CASE ResetInvoiceId
  BY <1>2 DEF ResetInvoiceId
<1>3. CASE InvoiceNotFound
  BY <1>3 DEF InvoiceNotFound
<1>4. CASE SetProcessing
  BY <1>4 DEF SetProcessing
<1>5. CASE SetInvoiceId
  <2>1. /\ worker.step = "assign" /\ worker' = [worker EXCEPT !.step = "read"]
        /\ Exists(worker.inv) \/ CallsIn(worker.days) = {}
        /\ owner' = [c \in Call |-> IF c \in CallsIn(worker.days) THEN worker.inv ELSE owner[c]]
        /\ contested' = contested \cup
              {c \in CallsIn(worker.days) : owner[c] \notin {NoInvoice, worker.inv}}
        /\ UNCHANGED <<calls, status, period, billed>>
    BY <1>5 DEF SetInvoiceId
  <2>2. MarkedByWorker'
    BY <2>1
  <2>3. ASSUME NEW i \in Invoice, Created(i), NEW c \in billed[i], c \notin contested'
        PROVE  owner'[c] = i
    <3>1. c \notin contested /\ owner[c] = i
      BY <2>1, <2>3
    <3>2. worker.inv # i
      BY <2>1, <2>3
    <3>3. c \notin CallsIn(worker.days)
      BY <2>1, <2>3, <3>1, <3>2
    <3> QED BY <2>1, <3>1, <3>3
  <2>4. BilledAreOwned'
    BY <2>1, <2>3
  <2> QED BY <2>2, <2>4
<1>6. CASE ReadCalls
  BY <1>6 DEF ReadCalls
<1>7. CASE Finish
  <2>1. /\ worker.step = "finish" /\ worker' = Idle /\ UNCHANGED <<owner, contested>>
        /\ Exists(worker.inv) =>
              /\ status' = [status EXCEPT ![worker.inv] = "created"]
              /\ billed' = [billed EXCEPT ![worker.inv] = worker.pdf]
        /\ ~Exists(worker.inv) => UNCHANGED <<status, billed>>
    BY <1>7 DEF Finish, SetStatus
  <2>2. worker.inv \in Invoice
    BY <2>1
  <2>3. BilledAreOwned'
    BY <2>1, <2>2
  <2>4. MarkedByWorker'
    BY <2>1
  <2> QED BY <2>3, <2>4
<1>8. CASE Fail
  <2>1. /\ Loaded /\ worker' = Idle /\ UNCHANGED <<owner, billed, contested>>
        /\ Exists(worker.inv) => status' = [status EXCEPT ![worker.inv] = "error"]
        /\ ~Exists(worker.inv) => UNCHANGED status
    BY <1>8 DEF Fail, SetStatus
  <2> QED BY <2>1
<1>9. CASE Kill
  <2>1. /\ worker.step # "idle" /\ worker' = Idle /\ UNCHANGED <<status, billed, owner>>
        /\ contested' = IF worker.step = "find" THEN contested \cup billed[worker.inv]
                        ELSE contested
    BY <1>9 DEF Kill
  <2>2. MarkedByWorker'
    BY <2>1
  <2>3. ASSUME NEW i \in Invoice, Created(i), NEW c \in billed[i], c \notin contested'
        PROVE  owner[c] = i
    <3>1. ~(worker.step = "find" /\ worker.inv = i) /\ c \notin contested
      BY <2>1, <2>3
    <3> QED BY <2>3, <3>1
  <2>4. BilledAreOwned'
    BY <2>1, <2>3
  <2> QED BY <2>2, <2>4
<1> QED BY <1>1, <1>2, <1>3, <1>4, <1>5, <1>6, <1>7, <1>8, <1>9 DEF Work

(* The calls in the PDF of a finished invoice belong to it, whatever       *)
(* requests race, whatever is edited and however late calls come, but for  *)
(* those that came while it was made, that a second invoice took, or whose *)
(* worker was killed before it marked them again.                          *)
THEOREM BilledCallsAreOwned == Spec => []BilledAreOwned
<1>1. Init => MarkedByWorker /\ BilledAreOwned
  BY InvoicingConstants DEF Init, MarkedByWorker, BilledAreOwned, Exists, Idle, Created
<1>2. TypeOK /\ OwnedInv /\ MarkedByWorker /\ BilledAreOwned /\ [Next]_vars
      => (MarkedByWorker /\ BilledAreOwned)'
  <2> SUFFICES ASSUME TypeOK, MarkedInv, [Next]_vars PROVE MarkedByWorker' /\ BilledAreOwned'
    BY DEF MarkedInv
  <2>1. ASSUME NEW c \in Call, AddCall(c) \/ RateCall(c) \/ RerateCall(c)
        PROVE MarkedByWorker' /\ BilledAreOwned'
    <3> USE DEF MarkedInv, MarkedByWorker, BilledAreOwned, CallsIn, Exists, Created, WorkerAt,
                invoiceVars, workerVars
    <3>1. CASE AddCall(c)
      <4>1. /\ calls' = calls \cup {c}
            /\ contested' = IF worker.step = "read" /\ DayOf[c] \in worker.days
                            THEN contested \cup {c} ELSE contested
            /\ UNCHANGED <<owner, worker, status, billed>>
        BY <3>1 DEF AddCall
      <4> QED BY <4>1
    <3>2. CASE RateCall(c) \/ RerateCall(c)
      BY <3>2 DEF RateCall, RerateCall
    <3> QED BY <2>1, <3>1, <3>2
  <2>2. CASE UNCHANGED vars
    BY <2>2 DEF vars, invoiceVars, workerVars, callVars, MarkedInv, MarkedByWorker, BilledAreOwned,
                CallsIn, Exists, Created, WorkerAt
  <2> QED BY <2>1, <2>2, MarkedRequest, MarkedWork DEF Next
<1> QED BY <1>1, <1>2, OwnedInvariant, PTL DEF Spec

-----------------------------------------------------------------------------
(* Prices.  The argument: the period of an invoice was checked when it was  *)
(* set, and without late calls an unmetered call can only be rated.        *)

MeteredPeriods ==
    /\ \A i \in Invoice : Live(i) => CallsIn(period[i]) \cap unmetered = {}
    /\ Loaded => CallsIn(worker.days) \cap unmetered = {}

MeteredInv == MeteredPeriods /\ OnlyMeteredCallsAreBilled

LEMMA FewerUnmetered ==
    ASSUME NEW i, NEW days, NEW left \in StillUnmetered(i, days)
    PROVE  left \subseteq unmetered
BY DEF StillUnmetered

(* No PDF has a call without price, when no call is added or rerated while  *)
(* invoices are made, whatever races, is edited meanwhile or dies.         *)
THEOREM BilledCallsAreMetered ==
    ASSUME ~LateCalls, ~EditOngoing PROVE Spec => []OnlyMeteredCallsAreBilled
<1> USE DEF MeteredInv, MeteredPeriods, OnlyMeteredCallsAreBilled
<1>1. Init => MeteredInv
  BY DEF Init, Live, Exists, Loaded, Idle
<1>2. TypeOK /\ MeteredInv /\ [Next]_vars => MeteredInv'
  <2> SUFFICES ASSUME TypeOK, MeteredInv, [Next]_vars PROVE MeteredInv'
    OBVIOUS
  <2> USE DEF TypeOK, Exists, Live, Loaded, CallsIn, Status, Job, WorkerStep,
              invoiceVars, orderVars, callVars, workerVars
  <2>1. ASSUME NEW i \in Invoice, CheckNew(i) PROVE MeteredInv'
    <3>1. PICK days \in Period : \E left \in StillUnmetered(i, days) :
            /\ CallsIn(days) \cap left = {} /\ unmetered' = left
            /\ period' = [period EXCEPT ![i] = days]
      BY <2>1 DEF CheckNew, Valid
    <3>2. unmetered' \subseteq unmetered
      BY <3>1, FewerUnmetered
    <3>3. CallsIn(days) \cap unmetered' = {} /\ period' = [period EXCEPT ![i] = days]
      BY <3>1
    <3>4. checked' = checked \cup {i} /\ UNCHANGED <<status, calls, worker>>
      BY <2>1 DEF CheckNew
    <3> QED BY <3>2, <3>3, <3>4
  <2>2. ASSUME NEW i \in Invoice, SaveNew(i) PROVE MeteredInv'
    BY <2>2 DEF SaveNew
  <2>3. ASSUME NEW i \in Invoice, Edit(i) PROVE MeteredInv'
    <3>1. PICK days \in Period :
            /\ CallsIn(days) \cap unmetered = {}
            /\ period' = [period EXCEPT ![i] = days]
      BY <2>3 DEF Edit, Valid
    <3>2. /\ status' = [status EXCEPT ![i] = "blank"] /\ Exists(i)
          /\ UNCHANGED <<checked, calls, unmetered, worker>>
      BY <2>3 DEF Edit
    <3> QED BY <3>1, <3>2
  <2>4. ASSUME NEW i \in Invoice, EditOnGoing(i) PROVE MeteredInv'
    BY <2>4 DEF EditOnGoing
  <2>5. ASSUME NEW i \in Invoice, Regenerate(i) \/ GetNumber(i) PROVE MeteredInv'
    <3>1. unmetered' \subseteq unmetered
      BY <2>5, FewerUnmetered DEF Regenerate, GetNumber, CheckOrdered
    <3>2. /\ UNCHANGED <<period, checked, calls, worker>> /\ Exists(i)
          /\ \E s \in {"waiting", "blank"} : status' = [status EXCEPT ![i] = s]
      BY <2>5 DEF Regenerate, GetNumber
    <3> QED BY <3>1, <3>2
  <2>6. ASSUME NEW i \in Invoice, Delete(i) PROVE MeteredInv'
    BY <2>6 DEF Delete
  <2>7. ASSUME NEW i \in Invoice, Send(i) \/ SendFails(i) PROVE MeteredInv'
    BY <2>7 DEF Send, SendFails
  <2>8. ASSUME NEW c \in Call, AddCall(c) \/ RateCall(c) \/ RerateCall(c) PROVE MeteredInv'
    BY <2>8 DEF AddCall, RateCall, RerateCall
  <2>9. CASE Work
    <3> USE DEF WorkerAt, Idle
    <3>1. CASE Pop
      BY <3>1 DEF Pop
    <3>2. CASE ResetInvoiceId
      BY <3>2 DEF ResetInvoiceId
    <3>3. CASE InvoiceNotFound
      BY <3>3 DEF InvoiceNotFound
    <3>4. CASE SetProcessing
      BY <3>4 DEF SetProcessing
    <3>5. CASE SetInvoiceId
      BY <3>5 DEF SetInvoiceId
    <3>6. CASE ReadCalls
      BY <3>6 DEF ReadCalls
    <3>7. CASE Finish
      BY <3>7 DEF Finish, SetStatus
    <3>8. CASE Fail
      BY <3>8 DEF Fail, SetStatus
    <3> QED BY <2>9, <3>1, <3>2, <3>3, <3>4, <3>5, <3>6, <3>7, <3>8 DEF Work
  <2>10. CASE Kill
    BY <2>10 DEF Kill, Idle
  <2>11. CASE UNCHANGED vars
    BY <2>11 DEF vars
  <2> QED BY <2>1, <2>2, <2>3, <2>4, <2>5, <2>6, <2>7, <2>8, <2>9, <2>10, <2>11 DEF Next
<1>3. MeteredInv => OnlyMeteredCallsAreBilled
  OBVIOUS
<1> QED BY <1>1, <1>2, <1>3, TypeCorrect, PTL DEF Spec
=============================================================================

------------------------------ MODULE Invoicing ------------------------------
(***************************************************************************)
(* The invoices of one client.  A brand operator (REST) or an invoice      *)
(* scheduler creates an invoice for a period; its PDF is ordered through a *)
(* Redis list and made by one worker process, which also marks the calls   *)
(* of the period as belonging to the invoice.  Meanwhile the CDR mixer     *)
(* adds and rates calls and operators edit, regenerate and delete          *)
(* invoices.                                                               *)
(*                                                                         *)
(* A period is a set of days; the day of a call never changes.             *)
(***************************************************************************)
EXTENDS Integers, Sequences, FiniteSets

CONSTANTS
    Invoice,      \* identifiers: a deleted one is never used again
    Scheduled,    \* those that invoice schedulers create
    Call,         \* outbound calls of the client
    Day,
    DayOf,        \* the day a call starts
    Period,       \* periods that an invoice may be asked for
    NoInvoice,    \* SQL NULL in BillableCalls.invoiceId
    LateCalls,    \* calls may be added and rerated while invoices are made
    EditOngoing,  \* operators edit invoices that are waiting or processing
    Race,         \* validity is checked for two invoices before either is saved
    MaxQueue,     \* bound: orders that wait when one more is made
    MaxFaults     \* bound: kills of the worker and orders lost by Redis

ASSUME InvoicingConstants ==
    /\ Scheduled \subseteq Invoice
    /\ DayOf \in [Call -> Day]
    /\ Period \subseteq SUBSET Day
    /\ NoInvoice \notin Invoice
    /\ LateCalls \in BOOLEAN /\ EditOngoing \in BOOLEAN /\ Race \in BOOLEAN
    /\ MaxQueue \in Nat /\ MaxFaults \in Nat

VARIABLES
    status,    \* Invoice.status; "new" before the row exists, "deleted" after
    period,    \* Invoice.inDate .. outDate
    checked,   \* invoices that passed CheckValidity and are not saved yet
    unsent,    \* committed as waiting, the order not yet pushed
    queue,     \* the Redis list InvoicerJobInterface::CHANNEL
    billed,    \* the calls in the PDF of the invoice
    calls,     \* BillableCalls that exist
    unmetered, \* those with no price
    owner,     \* BillableCall.invoiceId
    worker,    \* the Invoices worker: its next step and what it has read
    faults,    \* kills and lost orders so far
    contested  \* history: calls added between the marking and the reading of a
               \* PDF, taken by one invoice from another, or let go of by a worker
               \* that was killed before it marked them again

invoiceVars == <<status, period, checked, billed>>
orderVars   == <<unsent, queue>>
callVars    == <<calls, unmetered, owner>>
workerVars  == <<worker, faults, contested>>
vars == <<invoiceVars, orderVars, callVars, workerVars>>

Status == {"new", "blank", "waiting", "processing", "created", "error", "deleted"}
WorkerStep == {"idle", "reset", "find", "assign", "read", "finish"}
Job == [step: WorkerStep, inv: Invoice \cup {NoInvoice}, days: SUBSET Day,
        pdf: SUBSET Call, free: SUBSET Call]
Idle == [step |-> "idle", inv |-> NoInvoice, days |-> {}, pdf |-> {}, free |-> {}]

Exists(i) == status[i] \notin {"new", "deleted"}

(* Types, and the foreign key of BillableCalls.invoiceId.                  *)
TypeOK ==
    /\ status \in [Invoice -> Status]
    /\ period \in [Invoice -> SUBSET Day]
    /\ checked \subseteq Invoice
    /\ unsent \subseteq Invoice
    /\ queue \in Seq(Invoice)
    /\ billed \in [Invoice -> SUBSET Call]
    /\ calls \subseteq Call
    /\ unmetered \subseteq Call
    /\ owner \in [Call -> Invoice \cup {NoInvoice}]
    /\ \A c \in Call : owner[c] \in Invoice => Exists(owner[c])
    /\ worker \in Job
    /\ worker.step = "idle" \/ worker.inv \in Invoice
    /\ faults \in Nat
    /\ contested \subseteq Call

Init ==
    /\ status = [i \in Invoice |-> "new"]
    /\ period = [i \in Invoice |-> {}]
    /\ checked = {} /\ unsent = {} /\ queue = <<>>
    /\ billed = [i \in Invoice |-> {}]
    /\ calls \in IF LateCalls THEN {{}} ELSE {Call}
    /\ unmetered \in SUBSET calls
    /\ owner = [c \in Call |-> NoInvoice]
    /\ worker = Idle /\ faults = 0 /\ contested = {}

-----------------------------------------------------------------------------
(* Invoice::sanitizeValues: $onGoing.                                      *)
OnGoing(i) == status[i] \in {"waiting", "processing"}

(* BillableCallRepository::getConditionsByInvoice.                         *)
CallsIn(days) == {c \in calls : DayOf[c] \in days}

(* Mutant: an invoice is found only when its period covers the new one.    *)
InRangeCovering(i, days) == {j \in Invoice \ {i} : Exists(j) /\ days \subseteq period[j]}

(* InvoiceRepository::fetchInvoiceNumberInRange.                           *)
InRange(i, days) == {j \in Invoice \ {i} : Exists(j) /\ period[j] \cap days # {}}

(* Mutant: unmetered calls are not asserted.                               *)
ValidPeriodOnly(i, days, left) == InRange(i, days) = {}

(* CheckValidity::execute, when the calls in left have no price.           *)
Valid(i, days, left) == CallsIn(days) \cap left = {} /\ InRange(i, days) = {}

(* AutoRateCalls, for a scheduled invoice: what stays unmetered after it.  *)
StillUnmetered(i, days) ==
    IF i \in Scheduled
    THEN {unmetered \ S : S \in SUBSET {c \in CallsIn(days) : owner[c] = NoInvoice}}
    ELSE {unmetered}

(* Requests that check and save in one step do not run between the check   *)
(* and the save of another one, unless Race.                               *)
Alone == Race \/ checked = {}

(* Mutant: a status that becomes waiting sends no order.                   *)
OrderForgotten(i) == UNCHANGED orderVars

(* SendGenerateOrder, on the commit of an invoice that became waiting.     *)
Order(i) == unsent' = unsent \cup {i} /\ UNCHANGED queue

-----------------------------------------------------------------------------
(* Requests.                                                               *)

(* POST /invoices and Invoice\CreateByScheduler, up to the INSERT.         *)
CheckNew(i) ==
    /\ status[i] = "new" /\ i \notin checked /\ Alone
    /\ \E days \in Period : \E left \in StillUnmetered(i, days) :
        /\ Valid(i, days, left)
        /\ unmetered' = left
        /\ period' = [period EXCEPT ![i] = days]
    /\ checked' = checked \cup {i}
    /\ UNCHANGED <<status, billed, orderVars, calls, owner, workerVars>>

(* A manual invoice waits for the operator, a scheduled one for its PDF.   *)
SaveNew(i) ==
    /\ i \in checked
    /\ checked' = checked \ {i}
    /\ \/ /\ i \notin Scheduled
          /\ status' = [status EXCEPT ![i] = "blank"]
          /\ UNCHANGED orderVars
       \/ /\ i \in Scheduled
          /\ status' = [status EXCEPT ![i] = "waiting"]
          /\ Order(i)
    /\ UNCHANGED <<period, billed, callVars, workerVars>>

(* PUT /invoices/{id}: the invoice is reset, so that it must be valid.     *)
Edit(i) ==
    /\ Exists(i) /\ ~OnGoing(i) /\ Alone
    /\ \E days \in Period :
        /\ Valid(i, days, unmetered)
        /\ period' = [period EXCEPT ![i] = days]
    /\ status' = [status EXCEPT ![i] = "blank"]
    /\ billed' = [billed EXCEPT ![i] = {}]
    /\ UNCHANGED <<checked, orderVars, callVars, workerVars>>

(* The same on an invoice that is on its way: its status stays, and its    *)
(* validity is not looked at.                                              *)
EditOnGoing(i) ==
    /\ EditOngoing /\ OnGoing(i)
    /\ \E days \in Period : period' = [period EXCEPT ![i] = days]
    /\ UNCHANGED <<status, checked, billed, orderVars, callVars, workerVars>>

(* What runs before an invoice becomes waiting: a scheduled one has its     *)
(* calls rated and its validity checked once more.                         *)
CheckOrdered(i) ==
    \E left \in StillUnmetered(i, period[i]) :
        /\ i \in Scheduled => Valid(i, period[i], left)
        /\ unmetered' = left

(* Regenerate::execute.  Pressed on an invoice that waits already, it      *)
(* changes no status and sends no order.                                   *)
Regenerate(i) ==
    /\ Exists(i) /\ status[i] # "waiting" /\ Alone
    /\ Len(queue) + Cardinality(unsent) < MaxQueue
    /\ CheckOrdered(i)
    /\ status' = [status EXCEPT ![i] = "waiting"]
    /\ Order(i)
    /\ UNCHANGED <<period, checked, billed, calls, owner, workerVars>>

(* The same on an invoice that has no number: SetInvoiceNumber gives it    *)
(* one, a change that resets it to blank (module InvoiceNumbers).  It      *)
(* takes another press to order the PDF.                                   *)
GetNumber(i) ==
    /\ Exists(i) /\ ~OnGoing(i) /\ Alone
    /\ CheckOrdered(i)
    /\ status' = [status EXCEPT ![i] = "blank"]
    /\ billed' = [billed EXCEPT ![i] = {}]
    /\ UNCHANGED <<period, checked, orderVars, calls, owner, workerVars>>

(* Mutant: the calls of a deleted invoice keep its id.                     *)
DeleteKeepsCalls(i) ==
    /\ Exists(i)
    /\ status' = [status EXCEPT ![i] = "deleted"]
    /\ billed' = [billed EXCEPT ![i] = {}]
    /\ UNCHANGED <<period, checked, orderVars, callVars, workerVars>>

(* DELETE: the foreign key frees the calls; an order stays in the list.    *)
Delete(i) ==
    /\ Exists(i)
    /\ status' = [status EXCEPT ![i] = "deleted"]
    /\ owner' = [c \in Call |-> IF owner[c] = i THEN NoInvoice ELSE owner[c]]
    /\ billed' = [billed EXCEPT ![i] = {}]
    /\ UNCHANGED <<period, checked, orderVars, calls, unmetered, workerVars>>

(* Invoicer::send.                                                         *)
Send(i) ==
    /\ i \in unsent
    /\ unsent' = unsent \ {i}
    /\ queue' = Append(queue, i)
    /\ UNCHANGED <<invoiceVars, callVars, workerVars>>

(* Redis cannot be reached: the exception is logged and the order lost.    *)
SendFails(i) ==
    /\ i \in unsent /\ faults < MaxFaults
    /\ unsent' = unsent \ {i}
    /\ faults' = faults + 1
    /\ UNCHANGED <<queue, worker, contested, invoiceVars, callVars>>

-----------------------------------------------------------------------------
(* The mixer and rerate requests (module CallBilling).                     *)

AddCall(c) ==
    /\ LateCalls /\ c \notin calls
    /\ calls' = calls \cup {c}
    /\ unmetered' \in {unmetered, unmetered \cup {c}}
    /\ contested' = IF worker.step = "read" /\ DayOf[c] \in worker.days
                    THEN contested \cup {c} ELSE contested
    /\ UNCHANGED <<owner, worker, faults, invoiceVars, orderVars>>

(* An invoiced call keeps the price it has.                                *)
RateCall(c) ==
    /\ c \in unmetered /\ owner[c] = NoInvoice
    /\ unmetered' = unmetered \ {c}
    /\ UNCHANGED <<calls, owner, invoiceVars, orderVars, workerVars>>

(* BillableCallRepository::resetPricingData erases any price, an invoiced  *)
(* call's too: RerateAction has looked at the invoice some time before.    *)
RerateCall(c) ==
    /\ LateCalls /\ c \in calls \ unmetered
    /\ unmetered' = unmetered \cup {c}
    /\ UNCHANGED <<calls, owner, invoiceVars, orderVars, workerVars>>

-----------------------------------------------------------------------------
(* The worker: Invoices::create.                                           *)

WorkerAt(step) == worker.step = step

Pop ==
    /\ WorkerAt("idle") /\ queue # <<>>
    /\ worker' = [Idle EXCEPT !.step = "reset", !.inv = Head(queue)]
    /\ queue' = Tail(queue)
    /\ UNCHANGED <<unsent, faults, contested, invoiceVars, callVars>>

(* Mutant: the calls of an earlier run keep their invoice.                 *)
NoResetInvoiceId ==
    /\ WorkerAt("reset")
    /\ worker' = [worker EXCEPT !.step = "find"]
    /\ UNCHANGED <<faults, contested, invoiceVars, orderVars, callVars>>

ResetInvoiceId ==
    /\ WorkerAt("reset")
    /\ owner' = [c \in Call |-> IF owner[c] = worker.inv THEN NoInvoice ELSE owner[c]]
    /\ worker' = [worker EXCEPT !.step = "find"]
    /\ UNCHANGED <<calls, unmetered, faults, contested, invoiceVars, orderVars>>

InvoiceNotFound ==
    /\ WorkerAt("find") /\ ~Exists(worker.inv)
    /\ worker' = Idle
    /\ UNCHANGED <<faults, contested, invoiceVars, orderVars, callVars>>

(* The invoice is loaded once, with the period it has now.                 *)
SetProcessing ==
    /\ WorkerAt("find") /\ Exists(worker.inv)
    /\ status' = [status EXCEPT ![worker.inv] = "processing"]
    /\ worker' = [worker EXCEPT !.step = "assign", !.days = period[worker.inv]]
    /\ UNCHANGED <<period, checked, billed, faults, contested, orderVars, callVars>>

(* Mutant: calls that another invoice marked before stay with it.          *)
SetInvoiceIdOfFree ==
    /\ WorkerAt("assign")
    /\ Exists(worker.inv) \/ CallsIn(worker.days) = {}
    /\ owner' = [c \in Call |->
                    IF c \in CallsIn(worker.days) /\ owner[c] = NoInvoice
                    THEN worker.inv ELSE owner[c]]
    /\ worker' = [worker EXCEPT !.step = "read"]
    /\ UNCHANGED <<calls, unmetered, faults, contested, invoiceVars, orderVars>>

(* BillableCallRepository::setInvoiceId, called by Generator; the foreign  *)
(* key refuses an invoice that was deleted.                                *)
SetInvoiceId ==
    /\ WorkerAt("assign")
    /\ Exists(worker.inv) \/ CallsIn(worker.days) = {}
    /\ owner' = [c \in Call |-> IF c \in CallsIn(worker.days) THEN worker.inv ELSE owner[c]]
    /\ contested' = contested \cup
          {c \in CallsIn(worker.days) : owner[c] \notin {NoInvoice, worker.inv}}
    /\ worker' = [worker EXCEPT !.step = "read"]
    /\ UNCHANGED <<calls, unmetered, faults, invoiceVars, orderVars>>

(* getGeneratorByInvoice reads the calls of the period once more.          *)
ReadCalls ==
    /\ WorkerAt("read")
    /\ worker' = [worker EXCEPT !.step = "finish",
                     !.pdf = CallsIn(worker.days),
                     !.free = CallsIn(worker.days) \cap unmetered]
    /\ UNCHANGED <<faults, contested, invoiceVars, orderVars, callVars>>

(* UPDATE Invoices: of no row, when the invoice was deleted.               *)
SetStatus(s) ==
    status' = IF Exists(worker.inv) THEN [status EXCEPT ![worker.inv] = s] ELSE status

Finish ==
    /\ WorkerAt("finish")
    /\ SetStatus("created")
    /\ billed' = IF Exists(worker.inv)
                 THEN [billed EXCEPT ![worker.inv] = worker.pdf] ELSE billed
    /\ worker' = Idle
    /\ UNCHANGED <<period, checked, faults, contested, orderVars, callVars>>

(* Any exception on the way.                                               *)
Fail ==
    /\ worker.step \in {"assign", "read", "finish"}
    /\ SetStatus("error")
    /\ worker' = Idle
    /\ UNCHANGED <<period, checked, billed, faults, contested, orderVars, callVars>>

(* supervisord stops the worker with KILL and starts it again.             *)
Kill ==
    /\ ~WorkerAt("idle") /\ faults < MaxFaults
    /\ faults' = faults + 1
    /\ worker' = Idle
    /\ contested' = IF WorkerAt("find") THEN contested \cup billed[worker.inv] ELSE contested
    /\ UNCHANGED <<invoiceVars, orderVars, callVars>>

-----------------------------------------------------------------------------
Work == \/ Pop \/ ResetInvoiceId \/ InvoiceNotFound \/ SetProcessing
        \/ SetInvoiceId \/ ReadCalls \/ Finish \/ Fail

Next ==
    \/ \E i \in Invoice :
        \/ CheckNew(i) \/ SaveNew(i) \/ Edit(i) \/ EditOnGoing(i)
        \/ Regenerate(i) \/ GetNumber(i) \/ Delete(i) \/ Send(i) \/ SendFails(i)
    \/ \E c \in Call : AddCall(c) \/ RateCall(c) \/ RerateCall(c)
    \/ Work
    \/ Kill

Spec == Init /\ [][Next]_vars

(* A PHP process goes on to save what it checked and to push the orders of *)
(* what it committed; supervisord keeps the worker running.                *)
Fairness ==
    /\ \A i \in Invoice : WF_vars(SaveNew(i))
    /\ \A i \in Invoice : WF_vars(Send(i) \/ SendFails(i))
    /\ WF_vars(Work)

FairSpec == Spec /\ Fairness

(* An operator who presses "Generate invoice" again and again.             *)
PersistentSpec == FairSpec /\ \A i \in Invoice : SF_vars(Regenerate(i))

-----------------------------------------------------------------------------
(* Properties.                                                             *)

Created(i) == status[i] = "created"

(* "One call, one invoice": no call is in the PDFs of two invoices, so     *)
(* that no customer pays it twice.                                         *)
OneCallOneInvoice ==
    \A i, j \in Invoice :
        i # j /\ Created(i) /\ Created(j) => billed[i] \cap billed[j] = {}

Issued == {i \in Invoice : Created(i)}

Ledger == INSTANCE InvoiceLedger WITH
    issued <- Issued,
    bill <- [i \in Invoice |-> IF Created(i) THEN billed[i] ELSE {}]

(* Whatever steps it takes to check, save, order, mark and print, an       *)
(* invoice gets its calls at once, none that another one has, and they     *)
(* stay as they are until it is edited, ordered again or deleted.          *)
IsLedger == Ledger!Spec

(* Every call that the list of calls of a finished invoice shows is in     *)
(* its PDF, whatever was edited, killed or regenerated before.             *)
OwnedAreBilled ==
    \A c \in Call : \A i \in Invoice :
        owner[c] = i /\ Created(i) => c \in billed[i]

(* Every call in the PDF of a finished invoice belongs to that invoice,    *)
(* which freezes its price, unless the worker has let go of them to make   *)
(* it again, and but for the three ways in which the code loses one: a     *)
(* call added between marking and reading, one that a second invoice took, *)
(* and a worker killed before it marked them again.                        *)
BilledAreOwned ==
    \A i \in Invoice :
        Created(i) /\ ~(WorkerAt("find") /\ worker.inv = i) =>
            \A c \in billed[i] \ contested : owner[c] = i

(* "All calls in interval must be billed": no PDF has a call without price.*)
OnlyMeteredCallsAreBilled == worker.free = {}

(* An invoice that waits for its PDF gets one, an error, or is deleted.    *)
EveryOrderEnds ==
    \A i \in Invoice :
        status[i] = "waiting" ~> status[i] \in {"created", "error", "deleted"}
=============================================================================

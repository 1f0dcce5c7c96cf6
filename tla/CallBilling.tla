----------------------------- MODULE CallBilling -----------------------------
(***************************************************************************)
(* The billing of external calls.  Kamailio leaves one TrunksCdr row per   *)
(* call; the CDR mixer (a systemd timer that starts the scheduler          *)
(* microservice every minute) turns it into a BillableCall whose price is  *)
(* read from the TpCdr rows that the rating engine (CGRateS) wrote.  A     *)
(* brand operator may rerate a list of calls over REST at any time; the    *)
(* request runs in another PHP process, one SQL statement at a time.  An   *)
(* external rater may set the price of any outbound call over REST: that   *)
(* request loads the call in one step and saves it in another.             *)
(*                                                                         *)
(* The calls are outbound ones.  A TrunksCdr, its BillableCall and its     *)
(* TpCdr rows share one name: a member of Cdr.  A price stands for the     *)
(* version of the rating plan that produced it.                            *)
(***************************************************************************)
EXTENDS Integers, FiniteSets

CONSTANTS
    Cdr,          \* the calls
    Rateable,     \* outbound calls of companies that have a billing method
    CarrierCalls, \* calls whose BillableCall has a carrier
    BatchSize,    \* MigrateFromUnparsedTrunksCdr::BATCH_SIZE
    NoPrice,      \* SQL NULL in BillableCalls.price, no TpCdr row
    RatingError,  \* a TpCdr row with empty cost details
    Negative,     \* a TpCdr row with a cost below zero
    MaxTariff,    \* bound: how often the rating plan changes
    MaxRequests,  \* bound: how many rerate requests are made
    MaxPuts       \* bound: how many calls are being rated over REST at a time

ASSUME BillingConstants ==
    /\ Rateable \subseteq Cdr
    /\ CarrierCalls \subseteq Cdr
    /\ BatchSize \in Nat \ {0}
    /\ MaxTariff \in Nat
    /\ MaxRequests \in Nat
    /\ MaxPuts \in Nat
    /\ NoPrice \notin Int /\ RatingError \notin Int /\ Negative \notin Int
    /\ NoPrice # RatingError /\ NoPrice # Negative /\ RatingError # Negative

VARIABLES
    parsed,     \* cdrs with TrunksCdr.parsed = 1
    due,        \* cdrs whose parserScheduledAt is at least 10 seconds old
    cgrid,      \* cdrs whose TrunksCdr.cgrid is set
    tpCost,     \* cost of the *default run TpCdr, NoPrice when there is none
    singleRun,  \* cdrs with one TpCdr row only (no carrier run beside it)
    rows,       \* number of BillableCall rows of a cdr
    price,      \* BillableCall.price
    invoiced,   \* calls with BillableCall.invoiceId set
    tariff,     \* current version of the rating plan
    batch,      \* mixer: cdrs fetched and not migrated yet
    loadedId,   \* mixer: cdrs of the batch that had a cgrid when fetched
    work,       \* mixer: changes queued in the entity manager, by cdr
    step,       \* rerate request: its next statement
    ids,        \* rerate request: the calls it was sent
    named,      \* rerate request: those that had a cgrid when it started
    failed,     \* rerate request: its $error flag
    asked,      \* rerate request: the plan in force when it started
    requests,   \* rerate requests made so far
    puts,       \* PUT requests that have loaded a call and not saved it, by cdr
    owed,       \* history: the oldest plan a rerated call may be priced with
    crossed,    \* history: calls that were in an open batch during their last rerate
    external,   \* history: calls whose price was last set by a PUT
    late        \* history: invoiced calls of which a change of price is on its
                \* way since before the invoice took them

cdrVars   == <<parsed, due, cgrid>>
ratingVars == <<tpCost, singleRun, tariff>>
callVars  == <<rows, price, invoiced>>
mixerVars == <<batch, loadedId, work>>
requestVars == <<step, ids, named, failed, asked, requests, owed, crossed>>
putVars   == <<puts, external, late>>
vars == <<cdrVars, ratingVars, callVars, mixerVars, requestVars, putVars>>

Cost    == 0..MaxTariff
Price   == Cost \cup {NoPrice}
TpCosts == Cost \cup {NoPrice, RatingError, Negative}
NoWork  == [c \in {} |-> NoPrice]
Steps   == {"idle", "fix", "orphan", "rate", "offline", "price", "parse"}
Change  == [isNew: BOOLEAN, from: Price, to: Price, newId: BOOLEAN]
Put     == [from: Price, to: Cost]

TypeOK ==
    /\ parsed \subseteq Cdr
    /\ due \subseteq Cdr
    /\ cgrid \subseteq Cdr
    /\ tpCost \in [Cdr -> TpCosts]
    /\ singleRun \subseteq Cdr
    /\ rows \in [Cdr -> Nat]
    /\ price \in [Cdr -> Price]
    /\ invoiced \subseteq Cdr
    /\ tariff \in Cost
    /\ batch \subseteq Cdr
    /\ loadedId \subseteq Cdr
    /\ DOMAIN work \subseteq Cdr
    /\ \A c \in DOMAIN work : work[c] \in Change
    /\ step \in Steps
    /\ ids \subseteq Cdr
    /\ named \subseteq Cdr
    /\ failed \in BOOLEAN
    /\ asked \in Cost
    /\ owed \in [Cdr -> Cost]
    /\ requests \in 0..MaxRequests
    /\ DOMAIN puts \subseteq Cdr
    /\ \A c \in DOMAIN puts : puts[c] \in Put
    /\ crossed \subseteq Cdr
    /\ external \subseteq Cdr
    /\ late \subseteq invoiced

(* Calls have ended and nothing is parsed yet.  CGRateS rated some of them *)
(* online (cgrid set), completely, with one run only, or with an error.    *)
Init ==
    /\ parsed = {} /\ due = {}
    /\ cgrid \in SUBSET Rateable
    /\ tariff = 0
    /\ tpCost \in [Cdr -> {NoPrice, RatingError, Negative, 0}]
    /\ \A c \in Cdr : c \notin cgrid => tpCost[c] = NoPrice
    /\ singleRun \in SUBSET cgrid
    /\ rows = [c \in Cdr |-> 0]
    /\ price = [c \in Cdr |-> NoPrice]
    /\ invoiced = {}
    /\ batch = {} /\ loadedId = {} /\ work = NoWork
    /\ step = "idle" /\ ids = {} /\ named = {} /\ failed = FALSE
    /\ asked = 0 /\ requests = 0 /\ owed = [c \in Cdr |-> 0]
    /\ puts = NoWork /\ crossed = {} /\ external = {} /\ late = {}

-----------------------------------------------------------------------------
(* The rating engine.                                                      *)

(* The operator edits the rating plan and CGRateS reloads it.              *)
ChangeTariff ==
    /\ tariff < MaxTariff
    /\ tariff' = tariff + 1
    /\ UNCHANGED <<tpCost, singleRun, cdrVars, callVars, mixerVars, requestVars, putVars>>

(* CGRateS writes the TpCdr rows of the calls S: rated with the current    *)
(* plan, with an error or at a negative cost, and for some of them one row *)
(* only.                                                                   *)
Rates(S) ==
    \E cost \in [S -> {tariff, RatingError, Negative}], single \in SUBSET S :
        /\ tpCost' = [c \in Cdr |-> IF c \in S THEN cost[c] ELSE tpCost[c]]
        /\ singleRun' = (singleRun \ S) \cup single

HasTpCdr(c) == tpCost[c] # NoPrice \/ c \in singleRun

-----------------------------------------------------------------------------
(* The CDR mixer.                                                          *)

(* The calls that the mixer has read and not saved.                        *)
Held == batch \cup DOMAIN work
MixerIdle == Held = {}

Unparsed == due \ parsed

(* Ten seconds pass since the cdr was written or rescheduled.              *)
BecomeDue(c) ==
    /\ c \notin due
    /\ due' = due \cup {c}
    /\ UNCHANGED <<parsed, cgrid, ratingVars, callVars, mixerVars, requestVars, putVars>>

(* S is read, with the cgrids that its cdrs have by now.                   *)
Fetches(S) ==
    /\ batch' = S
    /\ loadedId' = S \cap cgrid
    /\ crossed' = crossed \cup (S \cap ids)
    /\ UNCHANGED <<work, step, ids, named, failed, asked, requests, owed,
                   cdrVars, ratingVars, callVars, putVars>>

(* The unparsed cdrs are read, at most BatchSize of them and in no order.  *)
FetchBatch ==
    /\ MixerIdle
    /\ \E S \in SUBSET Unparsed :
        /\ S # {}
        /\ \/ Cardinality(S) = BatchSize
           \/ S = Unparsed /\ Cardinality(S) < BatchSize
        /\ Fetches(S)

(* Mutants: the TpCdr is read before the call is rated offline; a run with *)
(* no cost details is not skipped.                                         *)
PriceReadTooEarly(c) ==
    IF tpCost[c] \in {NoPrice, RatingError} THEN price[c] ELSE tpCost[c]
PriceUnchecked(c) == tpCost'[c]

(* The price that the BillableCall gets from the *default run: a run with  *)
(* no cost details leaves the price that the call had; a negative cost is  *)
(* logged as an error, but it is set as the price all the same.            *)
PriceFromDefaultRun(c) ==
    IF tpCost'[c] \in {NoPrice, RatingError} THEN price[c] ELSE tpCost'[c]

(* A call without cgrid is rated offline.  When that fails, CGRateS may    *)
(* have rated it all the same, but the cdr does not learn its cgrid.       *)
ProcessExternalCdr(c, hasId) ==
    \/ Rates({c})
    \/ ~hasId /\ UNCHANGED <<tpCost, singleRun>>

(* The TrunksCdrWasMigrated handler: what a migrated cdr does to its price *)
(* and whether it gets a cgrid.  For a company without billing method the  *)
(* offline rating itself returns before any request (ProcessExternalCdr),  *)
(* and the handler after it.                                               *)
UpdateByTpCdr(c, hasId, newPrice) ==
    \/ /\ c \notin Rateable
       /\ ~hasId /\ newPrice = price[c]
       /\ UNCHANGED <<tpCost, singleRun>>
    \/ /\ c \in Rateable /\ c \in loadedId
       /\ ~hasId /\ UNCHANGED <<tpCost, singleRun>>
       /\ newPrice = PriceFromDefaultRun(c)
    \/ /\ c \in Rateable /\ c \notin loadedId
       /\ ProcessExternalCdr(c, hasId)
       /\ newPrice = IF hasId THEN PriceFromDefaultRun(c) ELSE price[c]

(* Mutant: the price of an invoiced call may change.                       *)
NotSanitized(c, newPrice) == newPrice # Negative

(* BillableCall::sanitizeValues: no price is negative, and a call that was *)
(* in an invoice when it was loaded keeps its price.                       *)
Sanitized(c, newPrice) ==
    /\ newPrice # Negative
    /\ newPrice # price[c] => c \notin invoiced

(* Mutant: an earlier BillableCall of the cdr is not looked up.            *)
AlwaysNew(c) == FALSE

(* BillableCallRepository::findOneByTrunksCdrId decides create or update.  *)
HasRow(c) == rows[c] > 0

(* What is to be written of a cdr: a new row or the columns that changed.  *)
CreateOrUpdate(c, hasId, newPrice) ==
    [isNew |-> ~HasRow(c), from |-> price[c], to |-> newPrice, newId |-> hasId]

(* The calls whose price the mixer or a PUT is going to set.               *)
Repriced == {c \in DOMAIN work : work[c].from # work[c].to}
Pending == Repriced \cup DOMAIN puts
StaysLate == late' = late \cap Pending'

(* One cdr of the batch is migrated: everything is queued, nothing is      *)
(* written.                                                                *)
Migrate(c) ==
    /\ c \in batch
    /\ \E hasId \in BOOLEAN, newPrice \in TpCosts :
        /\ UpdateByTpCdr(c, hasId, newPrice)
        /\ Sanitized(c, newPrice)
        /\ work' = [d \in DOMAIN work \cup {c} |->
                      IF d = c THEN CreateOrUpdate(c, hasId, newPrice) ELSE work[d]]
    /\ batch' = batch \ {c}
    /\ UNCHANGED <<tariff, loadedId, cdrVars, callVars, requestVars, putVars>>

(* The DomainException of sanitizeValues leaves the run: it is raised      *)
(* outside the try block of the batch, and what was queued is lost.        *)
MigrateThrows(c) ==
    /\ c \in batch
    /\ \E hasId \in BOOLEAN, newPrice \in TpCosts :
        /\ UpdateByTpCdr(c, hasId, newPrice)
        /\ ~Sanitized(c, newPrice)
    /\ batch' = {} /\ loadedId' = {} /\ work' = NoWork
    /\ UNCHANGED <<tariff, puts, external, cdrVars, callVars, requestVars>>
    /\ StaysLate

(* Mutant: only a call that gets a price is marked as parsed.              *)
FlushPriced ==
    /\ batch = {} /\ DOMAIN work # {}
    /\ parsed' = parsed \cup Repriced
    /\ cgrid' = cgrid \cup {c \in DOMAIN work : work[c].newId}
    /\ rows' = [c \in Cdr |-> IF c \in DOMAIN work /\ work[c].isNew
                              THEN rows[c] + 1 ELSE rows[c]]
    /\ price' = [c \in Cdr |-> IF c \in Repriced THEN work[c].to ELSE price[c]]
    /\ external' = external \ Repriced
    /\ loadedId' = {} /\ work' = NoWork
    /\ UNCHANGED <<due, invoiced, batch, puts, ratingVars, requestVars>>
    /\ StaysLate

(* dispatchQueuedOperations: one transaction writes the changed columns.   *)
Flush ==
    /\ batch = {} /\ DOMAIN work # {}
    /\ parsed' = parsed \cup DOMAIN work
    /\ cgrid' = cgrid \cup {c \in DOMAIN work : work[c].newId}
    /\ rows' = [c \in Cdr |-> IF c \in DOMAIN work /\ work[c].isNew
                              THEN rows[c] + 1 ELSE rows[c]]
    /\ price' = [c \in Cdr |-> IF c \in Repriced THEN work[c].to ELSE price[c]]
    /\ external' = external \ Repriced
    /\ loadedId' = {} /\ work' = NoWork
    /\ UNCHANGED <<due, invoiced, batch, puts, ratingVars, requestVars>>
    /\ StaysLate

(* The transaction fails and is rolled back; the mixer keeps going.  What  *)
(* its entity manager (of a library that is not in the repository) keeps   *)
(* of the failed batch is left out: the model goes on as a new run does.   *)
FlushFails ==
    /\ batch = {} /\ DOMAIN work # {}
    /\ loadedId' = {} /\ work' = NoWork
    /\ UNCHANGED <<batch, puts, external, cdrVars, ratingVars, callVars, requestVars>>
    /\ StaysLate

-----------------------------------------------------------------------------
(* A rerate request: RerateAction calls RerateCallService::execute.        *)

Goto(s) == step' = s

RerateRequest ==
    /\ step = "idle" /\ requests < MaxRequests
    /\ \E S \in SUBSET {c \in Cdr : rows[c] > 0} :
        /\ S # {}
        /\ ids' = S
        /\ named' = S \cap cgrid
        /\ crossed' = (crossed \ S) \cup (S \cap Held)
    /\ failed' = FALSE /\ asked' = tariff
    /\ requests' = requests + 1
    /\ Goto("fix")
    /\ UNCHANGED <<owed, cdrVars, ratingVars, callVars, mixerVars, putVars>>

(* TpCdrs that are alone under their cgrid are deleted, whatever calls the *)
(* request names.                                                          *)
FixCorrupted ==
    /\ step = "fix" /\ Goto("orphan")
    /\ tpCost' = [c \in Cdr |-> IF c \in singleRun THEN NoPrice ELSE tpCost[c]]
    /\ singleRun' = {}
    /\ UNCHANGED <<tariff, ids, named, failed, asked, requests, owed, crossed,
                   cdrVars, callVars, mixerVars, putVars>>

(* The cgrids of the request that no TpCdr has any more are cleared.       *)
ResetOrphanCgrids ==
    /\ step = "orphan" /\ Goto("rate")
    /\ cgrid' = {c \in cgrid : c \in named => HasTpCdr(c)}
    /\ UNCHANGED <<parsed, due, ids, named, failed, asked, requests, owed, crossed,
                   ratingVars, callVars, mixerVars, putVars>>

(* findRerateableCgridsInGroup: the calls that RateCDRs is asked for.      *)
Rerateable == (ids \cap cgrid \cap Rateable) \ CarrierCalls

(* Mutant: the failure of RateCDRs is not reported.                        *)
RateCdrsQuietly ==
    /\ step = "rate" /\ Goto("offline")
    /\ \E S \in SUBSET Rerateable : Rates(S)
    /\ UNCHANGED <<tariff, ids, named, failed, asked, requests, owed, crossed,
                   cdrVars, callVars, mixerVars, putVars>>

(* CdrsV1.RateCDRs: a failure, which may come after some of the calls were *)
(* rated, is reported at the end of the request only.                      *)
RateCdrs ==
    /\ step = "rate" /\ Goto("offline")
    /\ \/ Rates(Rerateable) /\ UNCHANGED failed
       \/ /\ Rerateable # {} /\ failed' = TRUE
          /\ \E S \in SUBSET Rerateable : Rates(S)
    /\ UNCHANGED <<tariff, ids, named, asked, requests, owed, crossed,
                   cdrVars, callVars, mixerVars, putVars>>

(* findUnratedInGroup: calls with neither cgrid nor carrier nor invoice    *)
(* are rated offline one by one, and any of them may fail.  The cgrid that *)
(* was found is queued without a dispatch: it may be saved or not.  Those   *)
(* of which no answer is heard may have been rated too.                    *)
Unrated == (ids \cap Rateable) \ (CarrierCalls \cup cgrid \cup invoiced)

RateOffline ==
    /\ step = "offline" /\ Goto("price")
    /\ \E rated \in SUBSET Unrated, unheard \in SUBSET Unrated :
        /\ Rates(rated \cup unheard)
        /\ failed' = (failed \/ rated # Unrated)
        /\ \E saved \in SUBSET rated : cgrid' = cgrid \cup saved
    /\ UNCHANGED <<parsed, due, tariff, ids, named, asked, requests, owed, crossed,
                   callVars, mixerVars, putVars>>

(* BillableCalls.price := NULL, in SQL and whether invoiced or not.        *)
ResetPricingData ==
    /\ step = "price" /\ Goto("parse")
    /\ price' = [c \in Cdr |-> IF c \in ids THEN NoPrice ELSE price[c]]
    /\ external' = external \ ids
    /\ UNCHANGED <<rows, invoiced, ids, named, failed, asked, requests, owed, crossed,
                   puts, late, cdrVars, ratingVars, mixerVars>>

(* The cdrs of the request are put back in the mixer's queue.              *)
ResetParsed ==
    /\ step = "parse" /\ Goto("idle")
    /\ parsed' = parsed \ ids
    /\ due' = due \ ids
    /\ owed' = [c \in Cdr |-> IF c \in ids \ crossed /\ ~failed THEN asked ELSE owed[c]]
    /\ ids' = {} /\ named' = {} /\ failed' = FALSE /\ asked' = 0
    /\ UNCHANGED <<cgrid, requests, crossed, ratingVars, callVars, mixerVars, putVars>>

(* The list also has an id that is no call, or the same one twice:         *)
(* idsToTrunkCdrId throws when the prices are gone already, and the calls  *)
(* are not put back in the queue.                                          *)
IdsNotFound ==
    /\ step = "parse" /\ Goto("idle")
    /\ ids' = {} /\ named' = {} /\ failed' = FALSE /\ asked' = 0
    /\ UNCHANGED <<requests, owed, crossed, cdrVars, ratingVars, callVars, mixerVars,
                   putVars>>

Rerate == \/ FixCorrupted \/ ResetOrphanCgrids \/ RateCdrs \/ RateOffline
          \/ ResetPricingData \/ ResetParsed \/ IdsNotFound

-----------------------------------------------------------------------------
(* The invoice that owns the calls (module Invoicing has its life cycle).  *)

(* The worker marks the calls of an invoice.  That they all had a price    *)
(* (CheckValidity) was so when the invoice was ordered, not necessarily    *)
(* now; and neither batches nor requests look at what is being invoiced.   *)
InvoiceCalls ==
    /\ invoiced = {}
    /\ \E S \in SUBSET {c \in Cdr : rows[c] > 0} :
        /\ S # {}
        /\ invoiced' = S
        /\ late' = S \cap Pending
    /\ UNCHANGED <<rows, price, puts, external, cdrVars, ratingVars, mixerVars, requestVars>>

(* Deleting an invoice frees its calls (ON DELETE SET NULL).               *)
DeleteInvoice ==
    /\ invoiced # {}
    /\ invoiced' = {} /\ late' = {}
    /\ UNCHANGED <<rows, price, puts, external, cdrVars, ratingVars, mixerVars, requestVars>>

-----------------------------------------------------------------------------
(* PUT .../rating by an external rater, for any outbound call.             *)

(* The call is loaded and populated; sanitizeValues looks at it as loaded. *)
PutLoads(c) ==
    /\ rows[c] > 0 /\ c \notin DOMAIN puts
    /\ Cardinality(DOMAIN puts) < MaxPuts
    /\ \E newPrice \in Cost :
        /\ newPrice # price[c]
        /\ Sanitized(c, newPrice)
        /\ puts' = [d \in DOMAIN puts \cup {c} |->
                      IF d = c THEN [from |-> price[c], to |-> newPrice] ELSE puts[d]]
    /\ UNCHANGED <<external, late, cdrVars, ratingVars, callVars, mixerVars, requestVars>>

(* The changed column is written, whatever the call has become since.      *)
PutCommits(c) ==
    /\ c \in DOMAIN puts
    /\ price' = [price EXCEPT ![c] = puts[c].to]
    /\ external' = external \cup {c}
    /\ puts' = [d \in DOMAIN puts \ {c} |-> puts[d]]
    /\ UNCHANGED <<rows, invoiced, cdrVars, ratingVars, mixerVars, requestVars>>
    /\ StaysLate

-----------------------------------------------------------------------------
Next ==
    \/ ChangeTariff
    \/ \E c \in Cdr : BecomeDue(c)
    \/ FetchBatch
    \/ \E c \in Cdr : Migrate(c)
    \/ \E c \in Cdr : MigrateThrows(c)
    \/ Flush
    \/ FlushFails
    \/ RerateRequest
    \/ Rerate
    \/ InvoiceCalls
    \/ DeleteInvoice
    \/ \E c \in Cdr : PutLoads(c)
    \/ \E c \in Cdr : PutCommits(c)

Spec == Init /\ [][Next]_vars

(* The clock runs, systemd restarts the mixer every minute, PHP runs a     *)
(* request to its end, and a batch does not fail to commit forever.        *)
Fairness ==
    /\ \A c \in Cdr : WF_vars(BecomeDue(c))
    /\ WF_vars(FetchBatch)
    /\ \A c \in Cdr : WF_vars(Migrate(c) \/ MigrateThrows(c))
    /\ SF_vars(Flush)
    /\ WF_vars(Rerate)

FairSpec == Spec /\ Fairness

-----------------------------------------------------------------------------
(* Properties.                                                             *)

(* A TrunksCdr never gets a second BillableCall, however often it is       *)
(* parsed, reset and parsed again: the customer pays a call once.          *)
OneCallPerCdr == \A c \in Cdr : rows[c] <= 1

(* When mixer and request rest, the price of a parsed call is the cost of  *)
(* its *default run: no step of a rerate leaves the two apart.  It is not  *)
(* said of a call that an external rater priced last, nor of one that was  *)
(* in an open batch during its last rerate (crossed): the stale batch may  *)
(* overwrite what that rerate did.                                         *)
RatedPriceIsItsCost ==
    MixerIdle /\ step = "idle" =>
        \A c \in (Rateable \cap parsed) \ (external \cup crossed) :
            price[c] # NoPrice /\ tpCost[c] \in Cost => price[c] = tpCost[c]

(* A call whose rerates took effect: its price, if it has one and not from *)
(* an external rater, comes from the rating plan that was in force when    *)
(* the operator last asked for a rerate that answered without error, or    *)
(* from a later plan.                                                      *)
PricedAsPromised(c) ==
    c \in parsed /\ c \notin external /\ price[c] # NoPrice => price[c] >= owed[c]

(* A rerate that answered without error takes effect, once the mixer has   *)
(* parsed the call again, for every call that no batch held meanwhile and  *)
(* that has no carrier: whatever other requests, batches, failures and     *)
(* invoices there are.                                                     *)
RerateTakesEffect ==
    MixerIdle /\ step = "idle" => \A c \in Rateable \ CarrierCalls : PricedAsPromised(c)

(* "If rating of any call included in an invoice is wrong, External Calls  *)
(* section allows rerating it": the same of the calls with a carrier.      *)
AnyCallIsRerated ==
    MixerIdle /\ step = "idle" => \A c \in Rateable : PricedAsPromised(c)

(* While a call belongs to an invoice its price changes in two ways only:  *)
(* a rerate that names the call erases it, or a change is saved that was   *)
(* on its way already when the invoice took the call.                      *)
InvoicedPriceKept ==
    [][\A c \in invoiced \cap invoiced' :
           price'[c] # price[c] =>
             \/ step = "price" /\ c \in ids /\ price'[c] = NoPrice
             \/ c \in late]_vars

(* Migrating the cdr ends the run: its price would be negative, or would   *)
(* change although the call is invoiced.                                   *)
Poisoned(c) == c \in Rateable \ parsed /\ (tpCost[c] = Negative \/ c \in invoiced)

(* Every call that waits to be parsed gets parsed, in however small        *)
(* batches, and whatever commits fail, if no cdr that waits throws for     *)
(* ever.                                                                   *)
EveryCallIsParsed ==
    <>[](\A c \in Cdr : ~Poisoned(c)) => \A c \in Cdr : c \notin parsed ~> c \in parsed

(* "Keep going": a call that is in no invoice and has no negative cost is  *)
(* parsed, whatever happens to the calls it shares a batch with.           *)
KeepsGoing ==
    \A c \in Cdr : <>[](~Poisoned(c)) => (c \notin parsed ~> c \in parsed)
=============================================================================

------------------------- MODULE CallBilling_proofs -------------------------
(***************************************************************************)
(* Proofs about module CallBilling, for every set of calls, with carriers  *)
(* or without, every batch size and any number of tariffs, rerate requests *)
(* and ratings over REST.                                                  *)
(***************************************************************************)
EXTENDS CallBilling, TLAPS

(* What the rating engine leaves is a cost, an error or nothing.           *)
LEMMA RatesType ==
    ASSUME TypeOK, NEW S \in SUBSET Cdr, Rates(S)
    PROVE  tpCost' \in [Cdr -> TpCosts] /\ singleRun' \subseteq Cdr
BY DEF TypeOK, Rates, TpCosts, Cost

(* So does one migrated cdr, rated offline or not; an error is no price,   *)
(* and what sanitizeValues lets pass is not negative.                      *)
LEMMA UpdateType ==
    ASSUME TypeOK, NEW c \in Cdr, NEW hasId, NEW newPrice,
           UpdateByTpCdr(c, hasId, newPrice)
    PROVE  /\ tpCost' \in [Cdr -> TpCosts] /\ singleRun' \subseteq Cdr
           /\ newPrice # Negative => newPrice \in Price
<1>1. tpCost' \in [Cdr -> TpCosts] /\ singleRun' \subseteq Cdr
  BY RatesType DEF TypeOK, UpdateByTpCdr, ProcessExternalCdr
<1>2. price[c] \in Price
  BY DEF TypeOK
<1>3. PriceFromDefaultRun(c) \in Price \cup {Negative}
  BY <1>1, <1>2 DEF PriceFromDefaultRun, TpCosts, Price
<1> QED BY <1>1, <1>2, <1>3 DEF UpdateByTpCdr

(* Every reachable state is well typed.                                    *)
THEOREM TypeCorrect == Spec => []TypeOK
<1> USE BillingConstants
<1>1. Init => TypeOK
  <2> SUFFICES ASSUME Init PROVE TypeOK
    OBVIOUS
  <2>1. 0 \in Cost /\ Cost \subseteq TpCosts /\ {NoPrice, RatingError, Negative} \subseteq TpCosts
    BY DEF Cost, TpCosts
  <2>2. tpCost \in [Cdr -> TpCosts]
    BY <2>1 DEF Init
  <2>3. price = [c \in Cdr |-> NoPrice] /\ rows = [c \in Cdr |-> 0]
        /\ owed = [c \in Cdr |-> 0]
    BY DEF Init
  <2>4. DOMAIN work = {}
    BY DEF Init, NoWork
  <2>5. parsed = {} /\ due = {} /\ cgrid \subseteq Cdr /\ singleRun \subseteq Cdr
        /\ invoiced = {} /\ batch = {} /\ loadedId = {} /\ ids = {} /\ named = {}
    BY DEF Init
  <2>6. tariff = 0 /\ step = "idle" /\ asked = 0 /\ requests = 0
    BY DEF Init
  <2>7. failed \in BOOLEAN
    BY DEF Init
  <2>8. price \in [Cdr -> Price] /\ rows \in [Cdr -> Nat] /\ owed \in [Cdr -> Cost]
    BY <2>1, <2>3 DEF Price
  <2>9. 0 \in 0..MaxRequests /\ "idle" \in Steps
    BY DEF Steps
  <2>10. DOMAIN puts = {} /\ crossed = {} /\ external = {} /\ late = {}
    BY DEF Init, NoWork
  <2> QED BY <2>1, <2>2, <2>4, <2>5, <2>6, <2>7, <2>8, <2>9, <2>10 DEF TypeOK
<1>2. TypeOK /\ [Next]_vars => TypeOK'
  <2> SUFFICES ASSUME TypeOK, [Next]_vars PROVE TypeOK'
    OBVIOUS
  <2> USE DEF TypeOK, cdrVars, ratingVars, callVars, mixerVars, requestVars, putVars,
          Goto, Steps, StaysLate
  <2>1. CASE ChangeTariff
    BY <2>1 DEF ChangeTariff, Cost
  <2>2. ASSUME NEW c \in Cdr, BecomeDue(c) PROVE TypeOK'
    BY <2>2 DEF BecomeDue
  <2>3. CASE FetchBatch
    BY <2>3 DEF FetchBatch, Fetches, Unparsed
  <2>4. ASSUME NEW c \in Cdr, Migrate(c) PROVE TypeOK'
    <3>1. PICK hasId \in BOOLEAN, newPrice \in TpCosts :
            /\ UpdateByTpCdr(c, hasId, newPrice)
            /\ newPrice # Negative
            /\ work' = [d \in DOMAIN work \cup {c} |->
                          IF d = c THEN CreateOrUpdate(c, hasId, newPrice) ELSE work[d]]
      <4> USE <2>4 DEF Migrate, Sanitized
      <4> QED OBVIOUS
    <3>2. price[c] \in Price /\ newPrice \in Price
      BY <3>1, UpdateType
    <3>3. DOMAIN work' \subseteq Cdr /\ \A d \in DOMAIN work' : work'[d] \in Change
      <4>1. CreateOrUpdate(c, hasId, newPrice) \in Change
        BY <3>2 DEF Change, CreateOrUpdate
      <4> QED BY <3>1, <4>1
    <3>4. tpCost' \in [Cdr -> TpCosts] /\ singleRun' \subseteq Cdr
      BY <3>1, UpdateType
    <3> QED BY <2>4, <3>3, <3>4 DEF Migrate
  <2>5. ASSUME NEW c \in Cdr, MigrateThrows(c) PROVE TypeOK'
    <3>1. tpCost' \in [Cdr -> TpCosts] /\ singleRun' \subseteq Cdr
      BY <2>5, UpdateType DEF MigrateThrows
    <3> QED BY <2>5, <3>1 DEF MigrateThrows, NoWork
  <2>6. CASE Flush
    <3>1. DOMAIN work' = {}
      BY <2>6 DEF Flush, NoWork
    <3>2. rows' \in [Cdr -> Nat]
      BY <2>6 DEF Flush
    <3>3. price' \in [Cdr -> Price]
      BY <2>6 DEF Flush, Change, Repriced
    <3>4. parsed' \subseteq Cdr /\ cgrid' \subseteq Cdr /\ loadedId' = {}
      BY <2>6 DEF Flush
    <3>5. UNCHANGED <<due, invoiced, batch, puts, ratingVars, requestVars>>
      BY <2>6 DEF Flush
    <3>6. external' \subseteq Cdr /\ late' \subseteq invoiced'
      BY <2>6 DEF Flush
    <3> QED BY <3>1, <3>2, <3>3, <3>4, <3>5, <3>6
  <2>7. CASE FlushFails
    BY <2>7 DEF FlushFails, NoWork
  <2>8. CASE RerateRequest
    <3>1. failed' \in BOOLEAN
      BY <2>8 DEF RerateRequest
    <3>2. ids' \subseteq Cdr /\ named' \subseteq Cdr /\ asked' = tariff /\ step' = "fix"
      BY <2>8 DEF RerateRequest
    <3>3. requests' \in 0..MaxRequests
      BY <2>8 DEF RerateRequest
    <3>4. UNCHANGED <<owed, cdrVars, ratingVars, callVars, mixerVars, putVars>>
      BY <2>8 DEF RerateRequest
    <3>5. crossed' \subseteq Cdr
      BY <2>8 DEF RerateRequest
    <3> QED BY <3>1, <3>2, <3>3, <3>4, <3>5
  <2>9. CASE Rerate
    <3>1. CASE FixCorrupted
      BY <3>1 DEF FixCorrupted, TpCosts
    <3>2. CASE ResetOrphanCgrids
      BY <3>2 DEF ResetOrphanCgrids
    <3>3. CASE RateCdrs
      <4>1. Rerateable \in SUBSET Cdr
        BY DEF Rerateable
      <4>2. tpCost' \in [Cdr -> TpCosts] /\ singleRun' \subseteq Cdr
        BY <3>3, <4>1, RatesType DEF RateCdrs
      <4> QED BY <3>3, <4>2 DEF RateCdrs
    <3>4. CASE RateOffline
      <4>1. Unrated \subseteq Cdr
        BY DEF Unrated
      <4>2. PICK rated \in SUBSET Unrated, unheard \in SUBSET Unrated :
              /\ Rates(rated \cup unheard)
              /\ failed' = (failed \/ rated # Unrated)
              /\ \E saved \in SUBSET rated : cgrid' = cgrid \cup saved
        BY <3>4 DEF RateOffline
      <4>3. tpCost' \in [Cdr -> TpCosts] /\ singleRun' \subseteq Cdr
        BY <4>1, <4>2, RatesType
      <4>4. cgrid' \subseteq Cdr /\ failed' \in BOOLEAN
        BY <4>1, <4>2
      <4> QED BY <3>4, <4>3, <4>4 DEF RateOffline
    <3>5. CASE ResetPricingData
      BY <3>5 DEF ResetPricingData, Price
    <3>6. CASE ResetParsed
      <4>1. failed' \in BOOLEAN
        BY <3>6 DEF ResetParsed
      <4>2. owed' \in [Cdr -> Cost]
        BY <3>6 DEF ResetParsed
      <4>3. asked' \in Cost
        BY <3>6 DEF ResetParsed, Cost
      <4>4. parsed' \subseteq Cdr /\ due' \subseteq Cdr /\ ids' = {} /\ named' = {}
            /\ step' = "idle"
        BY <3>6 DEF ResetParsed
      <4>5. UNCHANGED <<cgrid, requests, crossed, ratingVars, callVars, mixerVars, putVars>>
        BY <3>6 DEF ResetParsed
      <4> QED BY <4>1, <4>2, <4>3, <4>4, <4>5
    <3>7. CASE IdsNotFound
      <4>0. 0 \in Cost
        BY DEF Cost
      <4>1. /\ failed' = FALSE /\ asked' = 0 /\ step' = "idle"
            /\ ids' = {} /\ named' = {}
        BY <3>7 DEF IdsNotFound
      <4>2. UNCHANGED <<requests, owed, crossed, cdrVars, ratingVars, callVars, mixerVars,
                        putVars>>
        BY <3>7 DEF IdsNotFound
      <4> QED BY <4>0, <4>1, <4>2
    <3> QED BY <2>9, <3>1, <3>2, <3>3, <3>4, <3>5, <3>6, <3>7 DEF Rerate
  <2>10. CASE InvoiceCalls
    BY <2>10 DEF InvoiceCalls
  <2>11. CASE DeleteInvoice
    BY <2>11 DEF DeleteInvoice
  <2>12. ASSUME NEW c \in Cdr, PutLoads(c) PROVE TypeOK'
    <3>1. PICK newPrice \in Cost :
            puts' = [d \in DOMAIN puts \cup {c} |->
                       IF d = c THEN [from |-> price[c], to |-> newPrice] ELSE puts[d]]
      BY <2>12 DEF PutLoads
    <3>2. [from |-> price[c], to |-> newPrice] \in Put
      BY DEF Put
    <3>3. DOMAIN puts' \subseteq Cdr /\ \A d \in DOMAIN puts' : puts'[d] \in Put
      BY <3>1, <3>2
    <3> QED BY <2>12, <3>3 DEF PutLoads
  <2>13. ASSUME NEW c \in Cdr, PutCommits(c) PROVE TypeOK'
    <3>1. puts[c].to \in Price
      BY <2>13 DEF PutCommits, Put, Price
    <3>2. DOMAIN puts' \subseteq Cdr /\ \A d \in DOMAIN puts' : puts'[d] \in Put
      BY <2>13 DEF PutCommits
    <3> QED BY <2>13, <3>1, <3>2 DEF PutCommits
  <2>14. CASE UNCHANGED vars
    BY <2>14 DEF vars
  <2> QED BY <2>1, <2>2, <2>3, <2>4, <2>5, <2>6, <2>7, <2>8, <2>9, <2>10, <2>11,
             <2>12, <2>13, <2>14 DEF Next
<1> QED BY <1>1, <1>2, PTL DEF Spec

-----------------------------------------------------------------------------
(* One BillableCall per TrunksCdr: a queued insert is the first one, since *)
(* the row was looked for when the cdr was migrated, and only the mixer,   *)
(* which runs once at a time, inserts.                                     *)
NewHasNoRow == \A c \in DOMAIN work : work[c].isNew => rows[c] = 0

RowsInv == OneCallPerCdr /\ NewHasNoRow

(* No TrunksCdr gets two BillableCalls, whatever rerates, failed commits   *)
(* and interleavings there are.                                            *)
THEOREM OneCall == Spec => []OneCallPerCdr
<1>1. Init => RowsInv
  BY DEF Init, RowsInv, OneCallPerCdr, NewHasNoRow, NoWork
<1>2. TypeOK /\ RowsInv /\ [Next]_vars => RowsInv'
  <2> SUFFICES ASSUME TypeOK, RowsInv, [Next]_vars PROVE RowsInv'
    OBVIOUS
  <2>1. ASSUME UNCHANGED <<rows, work>> PROVE RowsInv'
    BY <2>1 DEF RowsInv, OneCallPerCdr, NewHasNoRow
  <2>2. ASSUME rows' = rows, work' = NoWork PROVE RowsInv'
    BY <2>2 DEF RowsInv, OneCallPerCdr, NewHasNoRow, NoWork
  <2>3. ASSUME NEW c \in Cdr, Migrate(c) PROVE RowsInv'
    <3>1. PICK hasId \in BOOLEAN, newPrice \in TpCosts :
            work' = [d \in DOMAIN work \cup {c} |->
                       IF d = c THEN CreateOrUpdate(c, hasId, newPrice) ELSE work[d]]
      BY <2>3 DEF Migrate
    <3>2. rows' = rows
      BY <2>3 DEF Migrate, callVars
    <3>3. ~HasRow(c) => rows[c] = 0
      BY DEF HasRow, TypeOK
    <3>4. work'[c].isNew => rows[c] = 0
      BY <3>1, <3>3 DEF CreateOrUpdate
    <3>5. NewHasNoRow'
      BY <3>1, <3>2, <3>4 DEF RowsInv, NewHasNoRow
    <3> QED BY <3>2, <3>5 DEF RowsInv, OneCallPerCdr
  <2>4. CASE Flush
    <3>1. \A c \in Cdr : rows'[c] = IF c \in DOMAIN work /\ work[c].isNew
                                     THEN rows[c] + 1 ELSE rows[c]
      BY <2>4 DEF Flush
    <3>2. OneCallPerCdr'
      BY <3>1 DEF RowsInv, OneCallPerCdr, NewHasNoRow, TypeOK
    <3>3. DOMAIN work' = {}
      BY <2>4 DEF Flush, NoWork
    <3> QED BY <3>2, <3>3 DEF RowsInv, NewHasNoRow
  <2>5. ASSUME NEW c \in Cdr, MigrateThrows(c) PROVE RowsInv'
    BY <2>2, <2>5 DEF MigrateThrows, callVars
  <2>6. CASE FlushFails
    BY <2>2, <2>6 DEF FlushFails, callVars
  <2>7. CASE Rerate
    BY <2>1, <2>7 DEF Rerate, FixCorrupted, ResetOrphanCgrids, RateCdrs, RateOffline,
       ResetPricingData, ResetParsed, IdsNotFound, callVars, mixerVars
  <2>8. ASSUME ChangeTariff \/ FetchBatch \/ RerateRequest \/ InvoiceCalls
               \/ DeleteInvoice
               \/ \E c \in Cdr : BecomeDue(c) \/ PutLoads(c) \/ PutCommits(c)
        PROVE  RowsInv'
    BY <2>1, <2>8 DEF ChangeTariff, FetchBatch, Fetches, RerateRequest, InvoiceCalls,
       DeleteInvoice, BecomeDue, PutLoads, PutCommits, callVars, mixerVars
  <2>9. CASE UNCHANGED vars
    BY <2>1, <2>9 DEF vars, callVars, mixerVars
  <2> QED BY <2>3, <2>4, <2>5, <2>6, <2>7, <2>8, <2>9 DEF Next
<1>3. RowsInv => OneCallPerCdr
  BY DEF RowsInv
<1> QED BY <1>1, <1>2, <1>3, TypeCorrect, PTL DEF Spec

-----------------------------------------------------------------------------
(* The price of an invoiced call.  A change of price is checked when it is *)
(* made and saved later, by the mixer and by a PUT alike: an invoice may   *)
(* take the call in between.  These calls, and no others, are late.        *)
PendingIsLate == Pending \cap invoiced \subseteq late

(* A step that leaves prices on their way, invoices and history alone.     *)
LEMMA PendingStays ==
    ASSUME PendingIsLate, UNCHANGED <<work, puts, invoiced, late>>
    PROVE  PendingIsLate'
BY DEF PendingIsLate, Pending, Repriced

(* A step after which fewer prices are on their way.                       *)
LEMMA FewerPending ==
    ASSUME PendingIsLate, StaysLate, Pending' \subseteq Pending, UNCHANGED invoiced
    PROVE  PendingIsLate'
BY DEF PendingIsLate, StaysLate

LEMMA PendingStep ==
    ASSUME TypeOK, PendingIsLate, [Next]_vars
    PROVE  PendingIsLate'
<1> USE DEF cdrVars, ratingVars, callVars, mixerVars, requestVars, putVars
<1>1. CASE ChangeTariff \/ FetchBatch \/ RerateRequest \/ Rerate
           \/ \E c \in Cdr : BecomeDue(c)
  BY <1>1, PendingStays DEF ChangeTariff, FetchBatch, Fetches, RerateRequest, BecomeDue,
     Rerate, FixCorrupted, ResetOrphanCgrids, RateCdrs, RateOffline, ResetPricingData,
     ResetParsed, IdsNotFound
<1>2. ASSUME NEW c \in Cdr, Migrate(c) PROVE PendingIsLate'
  <2>1. PICK hasId \in BOOLEAN, newPrice \in TpCosts :
          /\ Sanitized(c, newPrice)
          /\ work' = [d \in DOMAIN work \cup {c} |->
                        IF d = c THEN CreateOrUpdate(c, hasId, newPrice) ELSE work[d]]
    BY <1>2 DEF Migrate
  <2>2. UNCHANGED <<invoiced, puts, late>>
    BY <1>2 DEF Migrate
  <2>3. newPrice # price[c] => c \notin invoiced
    BY <2>1 DEF Sanitized
  <2>4. Repriced' \cap invoiced \subseteq Repriced
    BY <2>1, <2>3 DEF Repriced, CreateOrUpdate
  <2> QED BY <2>2, <2>4 DEF PendingIsLate, Pending
<1>3. ASSUME NEW c \in Cdr, MigrateThrows(c) PROVE PendingIsLate'
  <2>1. Pending' \subseteq Pending
    BY <1>3 DEF MigrateThrows, Pending, Repriced, NoWork
  <2> QED BY <1>3, <2>1, FewerPending DEF MigrateThrows
<1>4. CASE Flush
  <2>1. Pending' \subseteq Pending
    BY <1>4 DEF Flush, Pending, Repriced, NoWork
  <2> QED BY <1>4, <2>1, FewerPending DEF Flush
<1>5. CASE FlushFails
  <2>1. Pending' \subseteq Pending
    BY <1>5 DEF FlushFails, Pending, Repriced, NoWork
  <2> QED BY <1>5, <2>1, FewerPending DEF FlushFails
<1>6. CASE InvoiceCalls
  <2>1. Pending' = Pending /\ late' = invoiced' \cap Pending
    BY <1>6 DEF InvoiceCalls, Pending, Repriced
  <2> QED BY <2>1 DEF PendingIsLate
<1>7. CASE DeleteInvoice
  BY <1>7 DEF DeleteInvoice, PendingIsLate
<1>8. ASSUME NEW c \in Cdr, PutLoads(c) PROVE PendingIsLate'
  <2>1. c \notin invoiced /\ DOMAIN puts' = DOMAIN puts \cup {c}
    BY <1>8 DEF PutLoads, Sanitized
  <2>2. UNCHANGED <<work, invoiced, late>>
    BY <1>8 DEF PutLoads
  <2> QED BY <2>1, <2>2 DEF PendingIsLate, Pending, Repriced
<1>9. ASSUME NEW c \in Cdr, PutCommits(c) PROVE PendingIsLate'
  <2>1. Pending' \subseteq Pending
    BY <1>9 DEF PutCommits, Pending, Repriced
  <2> QED BY <1>9, <2>1, FewerPending DEF PutCommits
<1>10. CASE UNCHANGED vars
  BY <1>10, PendingStays DEF vars
<1> QED BY <1>1, <1>2, <1>3, <1>4, <1>5, <1>6, <1>7, <1>8, <1>9, <1>10 DEF Next

LEMMA PendingInvariant == Spec => [](TypeOK /\ PendingIsLate)
<1>1. Init => PendingIsLate
  BY DEF Init, PendingIsLate
<1>2. TypeOK /\ PendingIsLate /\ [Next]_vars => PendingIsLate'
  BY PendingStep
<1> QED BY <1>1, <1>2, TypeCorrect, PTL DEF Spec

(* What a step may do to the price of an invoiced call.                    *)
LEMMA PriceWrites ==
    ASSUME TypeOK, PendingIsLate, [Next]_vars,
           NEW c \in invoiced \cap invoiced', price'[c] # price[c]
    PROVE  \/ step = "price" /\ c \in ids /\ price'[c] = NoPrice
           \/ c \in late
<1> USE DEF TypeOK, cdrVars, ratingVars, callVars, mixerVars, requestVars, putVars
<1>1. CASE Flush
  BY <1>1 DEF Flush, PendingIsLate, Pending
<1>2. CASE ResetPricingData
  BY <1>2 DEF ResetPricingData
<1>3. ASSUME NEW d \in Cdr, PutCommits(d)
      PROVE  c \in late
  BY <1>3 DEF PutCommits, PendingIsLate, Pending
<1>4. ASSUME \/ ChangeTariff \/ FetchBatch \/ FlushFails \/ RerateRequest
             \/ InvoiceCalls \/ DeleteInvoice \/ UNCHANGED vars
             \/ \E d \in Cdr : BecomeDue(d) \/ Migrate(d) \/ MigrateThrows(d) \/ PutLoads(d)
      PROVE  FALSE
  BY <1>4 DEF ChangeTariff, FetchBatch, Fetches, FlushFails, RerateRequest, InvoiceCalls,
     DeleteInvoice, BecomeDue, Migrate, MigrateThrows, PutLoads, vars
<1>5. ASSUME \/ FixCorrupted \/ ResetOrphanCgrids \/ RateCdrs \/ RateOffline
             \/ ResetParsed \/ IdsNotFound
      PROVE  FALSE
  BY <1>5 DEF FixCorrupted, ResetOrphanCgrids, RateCdrs, RateOffline, ResetParsed, IdsNotFound
<1> QED BY <1>1, <1>2, <1>3, <1>4, <1>5 DEF Next, Rerate

(* The price of an invoiced call is erased by a rerate that names it, or   *)
(* replaced by a change that was on its way when the invoice took the      *)
(* call, and changes in no other way.                                      *)
THEOREM InvoicedPriceChanges == Spec => InvoicedPriceKept
<1> DEFINE Kept == \A c \in invoiced \cap invoiced' :
      price'[c] # price[c] =>
        \/ step = "price" /\ c \in ids /\ price'[c] = NoPrice
        \/ c \in late
<1>1. TypeOK /\ PendingIsLate /\ [Next]_vars => Kept
  BY PriceWrites
<1>2. TypeOK /\ PendingIsLate /\ [Next]_vars => [Kept]_vars
  BY <1>1
<1> QED BY <1>2, PendingInvariant, PTL DEF Spec, InvoicedPriceKept

-----------------------------------------------------------------------------
(* What a call was rated with, and when.  A request rates the calls it     *)
(* names before it erases their prices, and a call without cgrid is rated  *)
(* again when it is migrated; so whatever price is queued comes from a     *)
(* plan no older than the last request that promised one.  The calls that  *)
(* a batch held during their request are told apart (crossed): such a      *)
(* request promises them nothing, and they may be left with the price of   *)
(* an earlier rating.                                                      *)
Promised == Rateable \ CarrierCalls

(* A batch holds unparsed calls; of an open request, only crossed ones.    *)
HeldApart ==
    /\ Held \cap parsed = {}
    /\ loadedId \subseteq Held
    /\ Held \cap ids \subseteq crossed

OwedIsPast == asked <= tariff /\ \A c \in Cdr : owed[c] <= tariff

(* Nothing is named outside a request.                                     *)
NamesInRequest == step = "idle" => ids = {}

(* The calls whose price is not in order: those of a request that has not  *)
(* erased their prices yet, and the crossed ones.                          *)
Dirty == crossed \cup (IF step = "parse" THEN {} ELSE ids)

(* A call that waits to be parsed has no price, unless it was put there.   *)
UnparsedUnpriced ==
    \A c \in Rateable \ (parsed \cup external \cup Dirty) : price[c] = NoPrice

ErasedBeforeQueued ==
    step = "parse" => \A c \in (ids \cap Rateable) \ (external \cup Dirty) : price[c] = NoPrice

PricedAtCost ==
    \A c \in (Rateable \cap parsed) \ (external \cup Dirty) :
        price[c] # NoPrice /\ tpCost[c] \in Cost => price[c] = tpCost[c]

PricedAsOwed ==
    \A c \in Promised \ external : price[c] # NoPrice => price[c] >= owed[c]

(* What the mixer is about to write.                                       *)
QueuedFrom ==
    \A c \in (DOMAIN work \cap Rateable) \ (external \cup crossed) : work[c].from = NoPrice

QueuedAtCost ==
    \A c \in Repriced :
        /\ work[c].to \in Cost
        /\ c \in Rateable
        /\ c \in Promised => work[c].to >= owed[c]
        /\ c \notin crossed /\ tpCost[c] \in Cost => work[c].to = tpCost[c]

(* The cost under a known cgrid is not older than what is owed ...         *)
Known == cgrid \cup loadedId \cup {c \in DOMAIN work : work[c].newId}

KnownAsOwed ==
    \A c \in Promised \cap Known : tpCost[c] \in Cost => tpCost[c] >= owed[c]

(* ... nor than the request that is going to owe it.                       *)
RatedAsAsked ==
    step \in {"offline", "price", "parse"} /\ ~failed =>
        \A c \in (ids \cap Promised \cap cgrid) \ crossed :
            tpCost[c] \in Cost => tpCost[c] >= asked

RatingInv == /\ HeldApart
             /\ OwedIsPast
             /\ NamesInRequest
             /\ UnparsedUnpriced
             /\ ErasedBeforeQueued
             /\ PricedAtCost
             /\ PricedAsOwed
             /\ QueuedFrom
             /\ QueuedAtCost
             /\ KnownAsOwed
             /\ RatedAsAsked

(* What CGRateS writes is of the plan in force, and of the calls it is     *)
(* asked for.                                                              *)
LEMMA RatesNow ==
    ASSUME TypeOK, NEW S \in SUBSET Cdr, Rates(S)
    PROVE  \A c \in Cdr : IF c \in S THEN tpCost'[c] \in {tariff, RatingError, Negative}
                                     ELSE tpCost'[c] = tpCost[c]
<1>1. PICK cost \in [S -> {tariff, RatingError, Negative}] :
        tpCost' = [c \in Cdr |-> IF c \in S THEN cost[c] ELSE tpCost[c]]
  BY DEF Rates
<1> QED BY <1>1

(* What a migrated call is priced with.                                    *)
LEMMA MigratedPrice ==
    ASSUME TypeOK, NEW c \in Cdr, NEW hasId \in BOOLEAN, NEW newPrice \in TpCosts,
           UpdateByTpCdr(c, hasId, newPrice)
    PROVE  /\ \A d \in Cdr : d # c => tpCost'[d] = tpCost[d]
           /\ hasId => tpCost'[c] \in {tariff, RatingError, Negative}
           /\ tpCost'[c] \in {tariff, RatingError, Negative, tpCost[c]}
           /\ c \in loadedId => tpCost'[c] = tpCost[c]
           /\ newPrice # price[c] => /\ c \in Rateable /\ newPrice = tpCost'[c]
                                     /\ newPrice \in Cost \cup {Negative}
                                     /\ hasId \/ c \in loadedId
           /\ newPrice = price[c] \/ newPrice = tpCost'[c]
<1> USE BillingConstants DEF TypeOK
<1>1. CASE c \notin Rateable
  BY <1>1 DEF UpdateByTpCdr
<1>2. CASE c \in Rateable /\ c \in loadedId
  BY <1>2 DEF UpdateByTpCdr, PriceFromDefaultRun, TpCosts
<1>3. CASE c \in Rateable /\ c \notin loadedId
  <2>1. /\ ProcessExternalCdr(c, hasId)
        /\ newPrice = IF hasId THEN PriceFromDefaultRun(c) ELSE price[c]
    BY <1>3 DEF UpdateByTpCdr
  <2>2. \/ \A d \in Cdr : IF d \in {c} THEN tpCost'[d] \in {tariff, RatingError, Negative}
                                        ELSE tpCost'[d] = tpCost[d]
        \/ ~hasId /\ tpCost' = tpCost
    <3>1. CASE Rates({c})
      BY <3>1, RatesNow
    <3>2. CASE ~Rates({c})
      BY <2>1, <3>2 DEF ProcessExternalCdr
    <3> QED BY <3>1, <3>2
  <2>3. CASE hasId
    <3>1. tpCost'[c] \in {tariff, RatingError, Negative} /\ tariff \in Cost
      BY <2>2, <2>3
    <3>2. newPrice = PriceFromDefaultRun(c)
      BY <2>1, <2>3
    <3>3. newPrice # price[c] => newPrice = tpCost'[c] /\ newPrice \in Cost \cup {Negative}
      BY <3>1, <3>2 DEF PriceFromDefaultRun
    <3> QED BY <1>3, <2>2, <2>3, <3>1, <3>3
  <2>4. CASE ~hasId
    BY <1>3, <2>1, <2>2, <2>4
  <2> QED BY <2>3, <2>4
<1> QED BY <1>1, <1>2, <1>3

(* RatingInv is inductive.                                                 *)
LEMMA RatingInvStep ==
    ASSUME TypeOK, TypeOK', RatingInv, [Next]_vars
    PROVE  RatingInv'
<1> USE DEF RatingInv, Held, MixerIdle, HeldApart, OwedIsPast, NamesInRequest, Dirty,
        UnparsedUnpriced, ErasedBeforeQueued, PricedAtCost, PricedAsOwed, QueuedFrom,
        QueuedAtCost, Repriced, Promised, Known, KnownAsOwed, RatedAsAsked,
        cdrVars, ratingVars, callVars, mixerVars, requestVars, putVars, Goto
<1>0. /\ tariff \in Cost /\ asked \in Cost /\ owed \in [Cdr -> Cost]
      /\ price \in [Cdr -> Price] /\ tpCost \in [Cdr -> TpCosts]
      /\ Rateable \subseteq Cdr /\ NoPrice \notin Cost
      /\ RatingError \notin Cost /\ Negative \notin Cost
      /\ NoPrice # RatingError /\ NoPrice # Negative /\ Cost \subseteq Int
  BY BillingConstants DEF TypeOK, Cost
<1>1. CASE ChangeTariff
  <2>1. tariff' = tariff + 1 /\ UNCHANGED <<tpCost, singleRun, cdrVars, callVars, mixerVars,
                                            requestVars, putVars>>
    BY <1>1 DEF ChangeTariff
  <2> QED BY <1>0, <2>1 DEF Cost
<1>2. ASSUME NEW c \in Cdr, BecomeDue(c) PROVE RatingInv'
  BY <1>2 DEF BecomeDue
<1>3. CASE FetchBatch
  <2>1. PICK S \in SUBSET (Cdr \ parsed) :
          /\ batch' = S /\ loadedId' = S \cap cgrid /\ crossed' = crossed \cup (S \cap ids)
    BY <1>3 DEF FetchBatch, Fetches, Unparsed, TypeOK
  <2>2. /\ Held = {} /\ DOMAIN work = {}
        /\ UNCHANGED <<work, step, ids, named, failed, asked, requests, owed,
                       cdrVars, ratingVars, callVars, putVars>>
    BY <1>3 DEF FetchBatch, Fetches
  <2> QED BY <2>1, <2>2
<1>4. ASSUME NEW c \in Cdr, Migrate(c) PROVE RatingInv'
  <2>1. PICK hasId \in BOOLEAN, newPrice \in TpCosts :
          /\ UpdateByTpCdr(c, hasId, newPrice)
          /\ newPrice # Negative
          /\ work' = [d \in DOMAIN work \cup {c} |->
                        IF d = c THEN CreateOrUpdate(c, hasId, newPrice) ELSE work[d]]
    BY <1>4 DEF Migrate, Sanitized
  <2>2. /\ c \in batch /\ batch' = batch \ {c}
        /\ UNCHANGED <<tariff, loadedId, cdrVars, callVars, requestVars, putVars>>
    BY <1>4 DEF Migrate
  <2>3. c \notin parsed /\ (c \in ids => c \in crossed)
    BY <2>2
  <2>4. DOMAIN work' = DOMAIN work \cup {c} /\ \A d \in DOMAIN work \ {c} : work'[d] = work[d]
    BY <2>1
  <2>5. work'[c].from = price[c] /\ work'[c].to = newPrice /\ work'[c].newId = hasId
    BY <2>1 DEF CreateOrUpdate
  <2>6. /\ \A d \in Cdr : d # c => tpCost'[d] = tpCost[d]
        /\ hasId => tpCost'[c] \in {tariff, RatingError, Negative}
        /\ tpCost'[c] \in {tariff, RatingError, Negative, tpCost[c]}
        /\ c \in loadedId => tpCost'[c] = tpCost[c]
        /\ newPrice # price[c] => /\ c \in Rateable /\ newPrice = tpCost'[c]
                                  /\ newPrice \in Cost
                                  /\ hasId \/ c \in loadedId
    BY <2>1, MigratedPrice
  <2>7. Held' = Held
    BY <2>2, <2>4
  <2>8. HeldApart' /\ OwedIsPast' /\ NamesInRequest' /\ UnparsedUnpriced' /\ ErasedBeforeQueued'
        /\ PricedAsOwed'
    <3> HIDE DEF Held
    <3> QED BY <2>2, <2>7
  <2>9. PricedAtCost'
    BY <1>0, <2>2, <2>3, <2>6
  <2>10. QueuedFrom'
    BY <2>2, <2>3, <2>4, <2>5
  <2>11. QueuedAtCost'
    <3>1. ASSUME newPrice # price[c], c \in Promised
          PROVE  newPrice >= owed[c]
      BY <1>0, <2>6, <3>1
    <3> QED BY <1>0, <2>2, <2>4, <2>5, <2>6, <3>1
  <2>12. KnownAsOwed'
    BY <1>0, <2>2, <2>4, <2>5, <2>6
  <2>13. RatedAsAsked'
    BY <1>0, <2>2, <2>3, <2>6
  <2> QED BY <2>8, <2>9, <2>10, <2>11, <2>12, <2>13
<1>5. ASSUME NEW c \in Cdr, MigrateThrows(c) PROVE RatingInv'
  <2>1. PICK hasId \in BOOLEAN, newPrice \in TpCosts : UpdateByTpCdr(c, hasId, newPrice)
    BY <1>5 DEF MigrateThrows
  <2>2. /\ c \in batch /\ batch' = {} /\ loadedId' = {} /\ DOMAIN work' = {}
        /\ UNCHANGED <<tariff, puts, external, cdrVars, callVars, requestVars>>
    BY <1>5 DEF MigrateThrows, NoWork
  <2>3. c \notin parsed /\ (c \in ids => c \in crossed)
    BY <2>2
  <2>4. /\ \A d \in Cdr : d # c => tpCost'[d] = tpCost[d]
        /\ tpCost'[c] \in {tariff, RatingError, Negative, tpCost[c]}
    BY <2>1, MigratedPrice
  <2>5. KnownAsOwed'
    BY <1>0, <2>2, <2>4
  <2>6. RatedAsAsked'
    BY <1>0, <2>2, <2>3, <2>4
  <2>7. PricedAtCost'
    BY <1>0, <2>2, <2>3, <2>4
  <2>8. HeldApart' /\ OwedIsPast' /\ NamesInRequest' /\ UnparsedUnpriced' /\ ErasedBeforeQueued'
        /\ PricedAsOwed' /\ QueuedFrom' /\ QueuedAtCost'
    BY <2>2
  <2> QED BY <2>5, <2>6, <2>7, <2>8
<1>6. CASE Flush
  <2>1. DOMAIN work' = {} /\ batch = {} /\ batch' = {} /\ loadedId' = {}
    BY <1>6 DEF Flush, NoWork
  <2>2. /\ parsed' = parsed \cup DOMAIN work
        /\ cgrid' = cgrid \cup {c \in DOMAIN work : work[c].newId}
        /\ external' = external \ Repriced
        /\ UNCHANGED <<due, invoiced, batch, puts, ratingVars, requestVars>>
    BY <1>6 DEF Flush
  <2>3. \A c \in Cdr : price'[c] = IF c \in Repriced THEN work[c].to ELSE price[c]
    BY <1>6 DEF Flush
  <2>4. \A c \in DOMAIN work \cap ids : c \in crossed
    OBVIOUS
  <2>5. ASSUME NEW c \in (DOMAIN work \cap Rateable) \ (external' \cup Dirty), c \notin Repriced
        PROVE  price[c] = NoPrice
    BY <2>2, <2>5
  <2>6. HeldApart' /\ OwedIsPast' /\ NamesInRequest'
    BY <2>1, <2>2
  <2>7. UnparsedUnpriced' /\ ErasedBeforeQueued'
    BY <1>0, <2>2, <2>3, <2>4
  <2>8. PricedAtCost'
    <3> SUFFICES ASSUME NEW c \in (Rateable \cap parsed') \ (external' \cup Dirty),
                        price'[c] # NoPrice, tpCost[c] \in Cost
                 PROVE  price'[c] = tpCost[c]
      BY <2>2
    <3>1. CASE c \in Repriced
      BY <1>0, <2>3, <3>1
    <3>2. CASE c \notin Repriced /\ c \in DOMAIN work
      BY <1>0, <2>3, <2>5, <3>2
    <3>3. CASE c \notin DOMAIN work
      BY <1>0, <2>2, <2>3, <3>3
    <3> QED BY <3>1, <3>2, <3>3
  <2>9. PricedAsOwed'
    BY <1>0, <2>2, <2>3
  <2>10. QueuedFrom' /\ QueuedAtCost'
    BY <2>1
  <2>11. KnownAsOwed'
    BY <2>1, <2>2
  <2>12. RatedAsAsked'
    BY <2>2, <2>4
  <2> QED BY <2>6, <2>7, <2>8, <2>9, <2>10, <2>11, <2>12
<1>7. CASE FlushFails
  <2>1. /\ DOMAIN work' = {} /\ batch = {} /\ batch' = {} /\ loadedId' = {}
        /\ UNCHANGED <<puts, external, cdrVars, ratingVars, callVars, requestVars>>
    BY <1>7 DEF FlushFails, NoWork
  <2> QED BY <2>1
<1>8. CASE RerateRequest
  <2>1. PICK S \in SUBSET Cdr : ids' = S /\ crossed' = (crossed \ S) \cup (S \cap Held)
    BY <1>8 DEF RerateRequest
  <2>2. /\ step = "idle" /\ step' = "fix" /\ asked' = tariff /\ ids = {}
        /\ UNCHANGED <<owed, cdrVars, ratingVars, callVars, mixerVars, putVars>>
    BY <1>8 DEF RerateRequest
  <2>3. crossed \subseteq Dirty' /\ Held \cap crossed \subseteq crossed'
    BY <2>1, <2>2
  <2>4. HeldApart' /\ OwedIsPast' /\ NamesInRequest'
    BY <1>0, <2>1, <2>2
  <2>5. UnparsedUnpriced' /\ ErasedBeforeQueued' /\ PricedAtCost' /\ PricedAsOwed'
    BY <2>2, <2>3
  <2>6. QueuedFrom' /\ QueuedAtCost' /\ KnownAsOwed' /\ RatedAsAsked'
    BY <2>2, <2>3
  <2> QED BY <2>4, <2>5, <2>6
<1>9. CASE Rerate
  <2>1. CASE FixCorrupted
    <3>1. \A c \in Cdr : tpCost'[c] \in {NoPrice, tpCost[c]}
      BY <1>0, <2>1 DEF FixCorrupted
    <3>2. /\ step = "fix" /\ step' = "orphan"
          /\ UNCHANGED <<tariff, ids, named, failed, asked, requests, owed, crossed,
                         cdrVars, callVars, mixerVars, putVars>>
      BY <2>1 DEF FixCorrupted
    <3>3. QueuedFrom' /\ QueuedAtCost' /\ KnownAsOwed' /\ RatedAsAsked'
      BY <1>0, <3>1, <3>2 DEF TypeOK
    <3>4. HeldApart' /\ OwedIsPast' /\ NamesInRequest' /\ UnparsedUnpriced'
          /\ ErasedBeforeQueued' /\ PricedAsOwed'
      BY <3>2
    <3>5. PricedAtCost'
      BY <1>0, <3>1, <3>2
    <3> QED BY <3>3, <3>4, <3>5
  <2>2. CASE ResetOrphanCgrids
    BY <2>2 DEF ResetOrphanCgrids
  <2>3. CASE RateCdrs
    <3>1. /\ step = "rate" /\ step' = "offline"
          /\ UNCHANGED <<tariff, ids, named, asked, requests, owed, crossed,
                         cdrVars, callVars, mixerVars, putVars>>
      BY <2>3 DEF RateCdrs
    <3>2. PICK S \in SUBSET Rerateable : Rates(S) /\ (failed' \/ S = Rerateable)
      BY <2>3 DEF RateCdrs
    <3>3. \A c \in Cdr : IF c \in S THEN tpCost'[c] \in {tariff, RatingError, Negative}
                                    ELSE tpCost'[c] = tpCost[c]
      BY <3>2, RatesNow DEF Rerateable, TypeOK
    <3>4. S \subseteq ids
      BY DEF Rerateable
    <3>5. PricedAtCost'
      BY <1>0, <3>1, <3>3, <3>4
    <3>6. KnownAsOwed'
      BY <1>0, <3>1, <3>3
    <3>7. QueuedAtCost'
      BY <3>1, <3>3, <3>4 DEF TypeOK
    <3>8. RatedAsAsked'
      <4>1. ~failed' => ids \cap cgrid \cap Promised \subseteq S
        BY <3>2 DEF Rerateable
      <4> QED BY <1>0, <3>1, <3>3, <4>1
    <3>9. HeldApart' /\ OwedIsPast' /\ NamesInRequest' /\ UnparsedUnpriced'
          /\ ErasedBeforeQueued' /\ PricedAsOwed' /\ QueuedFrom'
      BY <3>1
    <3> QED BY <3>5, <3>6, <3>7, <3>8, <3>9
  <2>4. CASE RateOffline
    <3>1. /\ step = "offline" /\ step' = "price"
          /\ UNCHANGED <<parsed, due, tariff, ids, named, asked, requests, owed, crossed,
                         callVars, mixerVars, putVars>>
      BY <2>4 DEF RateOffline
    <3>2. PICK rated \in SUBSET Unrated, unheard \in SUBSET Unrated :
            /\ Rates(rated \cup unheard)
            /\ failed' = (failed \/ rated # Unrated)
            /\ \E saved \in SUBSET rated : cgrid' = cgrid \cup saved
      BY <2>4 DEF RateOffline
    <3> DEFINE S == rated \cup unheard
    <3>3. \A c \in Cdr : IF c \in S THEN tpCost'[c] \in {tariff, RatingError, Negative}
                                    ELSE tpCost'[c] = tpCost[c]
      <4>1. S \in SUBSET Cdr
        BY DEF Unrated, TypeOK
      <4>2. Rates(S)
        BY <3>2
      <4> HIDE DEF S
      <4> QED BY <4>1, <4>2, RatesNow
    <3>4. S \subseteq ids /\ cgrid' \subseteq cgrid \cup S /\ (~failed' => ~failed)
      <4>1. S \subseteq ids
        BY DEF Unrated
      <4>2. cgrid' \subseteq cgrid \cup S
        BY <3>2
      <4>3. ~failed' => ~failed
        BY <3>2
      <4> QED BY <4>1, <4>2, <4>3
    <3> HIDE DEF S
    <3>5. PricedAtCost'
      BY <1>0, <3>1, <3>3, <3>4
    <3>6. KnownAsOwed'
      BY <1>0, <3>1, <3>3, <3>4
    <3>7. QueuedAtCost'
      BY <3>1, <3>3, <3>4 DEF TypeOK
    <3>8. RatedAsAsked'
      BY <1>0, <3>1, <3>3, <3>4
    <3>9. HeldApart' /\ OwedIsPast' /\ NamesInRequest' /\ UnparsedUnpriced'
          /\ ErasedBeforeQueued' /\ PricedAsOwed' /\ QueuedFrom'
      BY <3>1
    <3> QED BY <3>5, <3>6, <3>7, <3>8, <3>9
  <2>5. CASE ResetPricingData
    <3>1. /\ step = "price" /\ step' = "parse" /\ external' = external \ ids
          /\ UNCHANGED <<rows, invoiced, ids, named, failed, asked, requests, owed, crossed,
                         puts, late, cdrVars, ratingVars, mixerVars>>
      BY <2>5 DEF ResetPricingData
    <3>2. \A c \in Cdr : price'[c] = IF c \in ids THEN NoPrice ELSE price[c]
      BY <2>5 DEF ResetPricingData
    <3>3. Dirty = crossed \cup ids /\ Dirty' = crossed
      BY <3>1
    <3>4. UnparsedUnpriced' /\ ErasedBeforeQueued' /\ PricedAtCost'
      BY <1>0, <3>1, <3>2, <3>3
    <3>5. PricedAsOwed'
      BY <1>0, <3>1, <3>2
    <3>6. QueuedFrom' /\ QueuedAtCost' /\ KnownAsOwed' /\ RatedAsAsked'
      BY <3>1
    <3>7. HeldApart' /\ OwedIsPast' /\ NamesInRequest'
      BY <3>1
    <3> QED BY <3>4, <3>5, <3>6, <3>7
  <2>6. CASE ResetParsed
    <3>1. /\ step = "parse" /\ step' = "idle" /\ asked' = 0 /\ ids' = {}
          /\ parsed' = parsed \ ids
          /\ UNCHANGED <<cgrid, requests, crossed, ratingVars, callVars, mixerVars, putVars>>
      BY <2>6 DEF ResetParsed
    <3>2. \A c \in Cdr : owed'[c] = IF c \in ids \ crossed /\ ~failed THEN asked ELSE owed[c]
      BY <2>6 DEF ResetParsed
    <3>3. Dirty = crossed /\ Dirty' = crossed
      BY <3>1
    <3>4. HeldApart' /\ NamesInRequest'
      BY <3>1
    <3>5. OwedIsPast'
      BY <1>0, <3>1, <3>2 DEF Cost
    <3>6. UnparsedUnpriced' /\ ErasedBeforeQueued' /\ PricedAtCost'
      BY <3>1, <3>3
    <3>7. PricedAsOwed'
      BY <1>0, <3>1, <3>2, <3>3
    <3>8. \A c \in Held : owed'[c] = owed[c]
      BY <3>2 DEF TypeOK
    <3>9. QueuedFrom' /\ QueuedAtCost'
      BY <3>1, <3>8
    <3>10. KnownAsOwed'
      BY <1>0, <3>1, <3>2, <3>8
    <3>11. RatedAsAsked'
      BY <3>1
    <3> QED BY <3>4, <3>5, <3>6, <3>7, <3>9, <3>10, <3>11
  <2>7. CASE IdsNotFound
    <3>1. /\ step = "parse" /\ step' = "idle" /\ asked' = 0 /\ ids' = {}
          /\ UNCHANGED <<requests, owed, crossed, cdrVars, ratingVars, callVars, mixerVars,
                         putVars>>
      BY <2>7 DEF IdsNotFound
    <3> QED BY <1>0, <3>1 DEF Cost
  <2> QED BY <1>9, <2>1, <2>2, <2>3, <2>4, <2>5, <2>6, <2>7 DEF Rerate
<1>10. CASE InvoiceCalls
  BY <1>10 DEF InvoiceCalls
<1>11. CASE DeleteInvoice
  BY <1>11 DEF DeleteInvoice
<1>12. ASSUME NEW c \in Cdr, PutLoads(c) PROVE RatingInv'
  BY <1>12 DEF PutLoads
<1>13. ASSUME NEW c \in Cdr, PutCommits(c) PROVE RatingInv'
  <2>1. \A d \in Cdr : d # c => price'[d] = price[d]
    BY <1>0, <1>13 DEF PutCommits
  <2>2. /\ external' = external \cup {c}
        /\ UNCHANGED <<rows, invoiced, cdrVars, ratingVars, mixerVars, requestVars>>
    BY <1>13 DEF PutCommits
  <2>3. \A d \in Rateable \ external' : price'[d] = price[d]
    BY <1>0, <2>1, <2>2
  <2> QED BY <2>2, <2>3
<1>14. CASE UNCHANGED vars
  BY <1>14 DEF vars
<1> QED BY <1>1, <1>2, <1>3, <1>4, <1>5, <1>6, <1>7, <1>8, <1>9, <1>10, <1>11,
           <1>12, <1>13, <1>14 DEF Next

LEMMA RatingInvariant == Spec => []RatingInv
<1>1. ASSUME Init PROVE RatingInv
  <2>1. parsed = {} /\ batch = {} /\ loadedId = {} /\ step = "idle" /\ asked = 0
        /\ tariff = 0 /\ owed = [c \in Cdr |-> 0] /\ price = [c \in Cdr |-> NoPrice]
        /\ ids = {} /\ crossed = {} /\ external = {}
    BY <1>1 DEF Init
  <2>2. DOMAIN work = {}
    BY <1>1 DEF Init, NoWork
  <2>3. \A c \in Cdr : tpCost[c] \in {NoPrice, RatingError, Negative, 0}
    BY <1>1 DEF Init
  <2>4. HeldApart /\ OwedIsPast /\ NamesInRequest /\ RatedAsAsked
    BY <2>1, <2>2 DEF HeldApart, OwedIsPast, NamesInRequest, RatedAsAsked, Held
  <2>5. UnparsedUnpriced /\ ErasedBeforeQueued /\ PricedAtCost /\ PricedAsOwed
    BY <2>1, BillingConstants
       DEF UnparsedUnpriced, ErasedBeforeQueued, PricedAtCost, PricedAsOwed, Promised
  <2>6. QueuedFrom /\ QueuedAtCost
    BY <2>2 DEF QueuedFrom, QueuedAtCost, Repriced
  <2>7. KnownAsOwed
    BY <2>1, <2>3, BillingConstants DEF KnownAsOwed, Promised, Cost
  <2> QED BY <2>4, <2>5, <2>6, <2>7 DEF RatingInv
<1>2. TypeOK /\ TypeOK' /\ RatingInv /\ [Next]_vars => RatingInv'
  BY RatingInvStep
<1> QED BY <1>1, <1>2, TypeCorrect, PTL DEF Spec

(* At rest the price of a parsed call is the cost of its default run,      *)
(* unless it was rated over REST or held by a batch during its rerate.     *)
THEOREM PricesAreCosts == Spec => []RatedPriceIsItsCost
<1>1. RatingInv => RatedPriceIsItsCost
  BY DEF RatingInv, PricedAtCost, Dirty, NamesInRequest, RatedPriceIsItsCost
<1> QED BY <1>1, RatingInvariant, PTL

(* A rerate that succeeded takes effect for every call without a carrier   *)
(* that no batch held meanwhile.                                           *)
THEOREM ReratesTakeEffect == Spec => []RerateTakesEffect
<1>1. RatingInv => RerateTakesEffect
  BY DEF RatingInv, PricedAsOwed, Promised, PricedAsPromised, RerateTakesEffect
<1> QED BY <1>1, RatingInvariant, PTL
=============================================================================

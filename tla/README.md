# TLA+ verification of ivozprovider

ivozprovider is a multi-tenant VoIP platform: Kamailio proxies and Asterisk
application servers route calls, CGRateS rates them, and a PHP domain library
(`library/Ivoz`), a few microservices and REST APIs keep the configuration,
bill calls and make invoices. This directory holds TLA+ models of the parts
whose correctness depends on the order of steps of several processes, the TLC
configurations that check them, and TLAPS proofs about them.

    tlc -config CallBilling.cfg MCCallBilling     # one run
    tlapm CallBilling_proofs.tla                  # one proof module

## 1. Inventory

| Component | State it keeps | Operations | Hard behaviour | What makes it correct |
|---|---|---|---|---|
| **CDR mixer** (`microservices/scheduler`, `Application/Service/BillableCall`, `Domain/Service/BillableCall`) | `TrunksCdr.parsed/parserScheduledAt/cgrid`, `BillableCall` rows and prices, the entity manager's queue | fetch a batch of unparsed cdrs, migrate each, commit | failed commits, exceptions in the middle of a batch, stale reads | one BillableCall per cdr, every cdr parsed, price = cost of its rating |
| **Rerate and external rating** (`RerateAction`, `RerateCallService`, `ProcessExternalCdr`, `PutBillableCallRatingAction`) | the same rows, TpCdrs of CGRateS | delete corrupt TpCdrs, clear orphan cgrids, RateCDRs, rate offline, erase prices, queue again; set a price over REST | seven statements without a transaction, racing the mixer and the invoices; a PUT saved after it was checked | a reported success takes effect; which steps may touch an invoiced price |
| **Invoices** (`Domain/Service/Invoice`, `Invoice.php`, `workers/Invoices.php`, Redis list) | invoice status, period, PDF, `BillableCall.invoiceId`, the order list | create, edit, regenerate, delete, order, make the PDF | asynchronous worker, kill, lost orders, edits meanwhile | one call - one invoice, list of calls = PDF, every order ends |
| **Invoice numbers** (`NextValGenerator`, `InvoiceNumberSequence`) | iteration, version, latest value | take the next number in the transaction of an invoice | optimistic lock, taken numbers | unique, gap-free, never reissued |
| **Invoice schedulers** (`microservices/scheduler`, `Domain/Service/InvoiceScheduler`, `CreateByScheduler`) | `nextExecution`, `lastExecution` and its error | run what is due, create the invoice, advance; operators edit | failures of one among many, kill between invoice and date, dates read before they are edited, checks overtaken before the commit | no day billed twice or skipped silently |
| **Report schedulers** (call CSV) | the same dates | as above, with a file instead of an invoice | as above | as above, without overlaps to check |
| **Reload workers** (`KamRpc`, `Cgrates`, `AsteriskHintUpdater`, `AsteriskDialplan`, the jobs of `Infrastructure/Redis/Job`) | Redis lists of orders; what each server has loaded | push on commit, pop, call every server, retry after a delay | lost orders, failed calls, orders that carry a state and cross | a server with an old copy is told |
| **Realtime** (Kamailio's `route[REALTIME]`, the Go service `microservices/realtime`) | `lastCallState` of dialogs, one Redis record per call, connections | publish, keep records, snapshot, forward | gap between snapshot and subscription, crashes, at-most-once delivery | records follow dialogs; what a page is told goes forward |
| **Active calls pages** (`web/admin` jQuery plugin; the hooks of the three React portals) | rows, timers, sockets | insert, update, age, reconnect | updates between two renders, old sockets | rows are current, ghosts leave |
| **Portal sessions** (`web/portal/client` store, router, ACL filter) | token, profile, entity map, menu | log in and out, impersonate, load the profile, filter | answers of an earlier identity, filters that change their input | profile and menu are those of the token |
| **Historic calls** | `BillableCalls` / `HistoricCalls` | copy old calls in chunks | the calls copied may be rerated later | no call lost or doubled |
| **Rates and multimedia workers** | importer / encoder status | import a CSV, transcode | kill in the middle | status tells the truth |
| **AGI routing** | none (reads the configuration) | resolve a call's destination | forwarding loops | routing ends, filters apply |
| **Lifecycle services** | derived rows | some 300 handlers on persist / remove | ordering of handlers | derived rows follow |
| **Entities of the portals** (`web/portal/*/src/entities`) | none | columns, forms, choices that ivoz-ui interprets | - | data, see section 5 |
| **Recordings, balances, provisioning, e-mails, REST APIs, other pages, schema, packaging** | - | - | mostly I/O, rendering or generated code | see `PROJECT.json` |

How they interact: Kamailio inserts a TrunksCdr per call and CGRateS (in the
call, or asked by PHP) the TpCdr rows under its cgrid. A systemd timer starts
the mixer every minute; REST requests run in other PHP processes on the same
database. Invoices read the calls of a period, order their PDF through a Redis
list on commit, and a supervisord-run worker answers by marking the calls and
writing the invoice. The entity manager (ivoz-core, not in this repository)
queues changes and writes the changed columns of each entity in a transaction;
handlers that run after the commit push orders on Redis lists, one list per kind
of worker, and a worker calls every proxy or application server concerned. Calls
in progress take another way: the proxy publishes an event on a Redis channel per
call, the control subscriber of the realtime service keeps one record per call,
and a websocket connection first sends the records and then forwards the events to
a page.

## 2. Modules

| Module | Role |
|---|---|
| `CallBilling` | mixer, rerate request, external rating as a request of two steps, and the part of invoices that touches prices |
| `MCCallBilling` | two calls for TLC |
| `CallBilling_proofs` | theorems about `CallBilling` |
| `InvoiceLedger` | abstract: invoices issued in one step, with calls that no other one has |
| `Invoicing` | invoices of one client, the order list and the worker; implements `InvoiceLedger` |
| `MCInvoicing` | two invoices, two days, one call each day |
| `Invoicing_proofs` | theorems about `Invoicing` |
| `NumberRegister` | abstract: registers that hand out numbers one by one |
| `InvoiceNumbers` | optimistic allocation of invoice numbers; implements `NumberRegister` |
| `MCInvoiceNumbers` | two schedulers, one manual invoice, one request, one sequence |
| `InvoiceNumbers_proofs` | theorems about `InvoiceNumbers` |
| `InvoiceSchedulers` | due schedulers, their runs, edits and invoices by hand |
| `MCInvoiceSchedulers` | two schedulers with intervals of one and two days, one of a client in another time zone |
| `InvoiceSchedulers_proofs` | theorems about `InvoiceSchedulers` |
| `CallEvents` | the states of a call, their order, and what may follow what: shared by the two modules below |
| `ActiveCalls` | proxy, Redis records, websocket connection, rows of the administration portal |
| `MCActiveCalls` | one call through either proxy |
| `ActiveCalls_proofs` | theorems about `ActiveCalls` |
| `CallsTable` | the table of active calls of the React portals |
| `MCCallsTable` | one call, two sockets |
| `CallsTable_proofs` | theorems about `CallsTable` |
| `PortalSession` | token, profile and menu of a tab of a portal |
| `MCPortalSession` | two administrators, four items of the entity map |
| `PortalSession_proofs` | theorems about `PortalSession` |
| `Reloads` | reload orders from the commit to the servers |
| `MCReloads` | two processes, four tables, one route lock, four lists |
| `Reloads_proofs` | theorems about `Reloads` |

### CallBilling

A TrunksCdr, its BillableCall and its TpCdr rows share a name in `Cdr`. A
price is the version of the rating plan that produced it (`0..MaxTariff`), so
"old price" and "new price" can be told apart; `NoPrice` is NULL and
`RatingError` a run without cost details.

* *Mixer.* `FetchBatch` is one query of the generator, `Migrate(c)` one turn of
  the inner loop (look-up of the row, update, TrunksCdrWasMigrated handler with
  offline rating), `MigrateThrows(c)` the DomainException of `sanitizeValues`,
  which leaves the run, `Flush` and `FlushFails` the commit. Reads happen in
  `FetchBatch` and `Migrate`, writes in `Flush`: a change record keeps the value
  read and the new one, and only a column that changed is written.
* *Rerate.* `RerateRequest`, then one action per statement of
  `RerateCallService::execute`: `FixCorrupted`, `ResetOrphanCgrids`, `RateCdrs`,
  `RateOffline`, `ResetPricingData`, `ResetParsed`. A rating may fail before or
  after CGRateS did its work. `IdsNotFound` is the exception for a list with an
  unknown or repeated id: the prices are erased and nothing is queued.
* *External rating.* A PUT sets the price of any outbound call, also of one that
  CGRateS rates. `PutLoads` finds the call and lets `sanitizeValues` look at it;
  `PutCommits` writes the column later, whatever has become of the call.
* *Around them.* `ChangeTariff`, and invoices as `InvoiceCalls` (calls with a price
  only) and `DeleteInvoice`.

`Sanitized` is `sanitizeValues`: no negative price (a TpCdr may have a negative
cost, `Negative`, which the mixer sets as the price all the same), and no new price
for a call that was invoiced when it was loaded. What an entity manager keeps of a
batch that failed to commit depends on ivoz-core, and is left out: the model goes on
as a new run does.

Four history variables guard nothing. `owed` is the oldest plan that a call whose
rerate was answered without error may be priced with; it is raised in `ResetParsed`,
but not for `crossed` calls, which an open batch held during the request. `external`
has the calls that a PUT priced last. `late` has the invoiced calls of which a change
of price was on its way, in the mixer or in a PUT, when the invoice took them. The
properties about prices name these calls, because the code leaves them in another
state: a stale batch overwrites what a rerate did, and a late change replaces the
price of an invoiced call.

### Invoicing

A period is a set of days. `status` follows `Invoice.status` (`blank` is NULL,
`new` and `deleted` stand for no row). `CheckNew` is everything up to the INSERT
(AutoRateCalls for a scheduled invoice, then CheckValidity), `SaveNew` the
INSERT: the two are the check and the act. `Edit`, `EditOnGoing`, `Regenerate`,
`Delete` are the requests, `GetNumber` the press of Generate invoice that only
gives a number, `Send`/`SendFails` the push after the commit. The
worker is `Pop`, `ResetInvoiceId`, `InvoiceNotFound` or `SetProcessing`,
`SetInvoiceId`, `ReadCalls`, `Finish`, or `Fail` and `Kill`; `worker` holds what
it has read. The foreign key appears in `Delete` (calls freed) and in
`SetInvoiceId` (no deleted invoice may be set). `AddCall`, `RateCall` and
`RerateCall` summarise `CallBilling` for the calls of the client.

`InvoiceLedger` is the promise: an invoice is issued in one step, with calls that are
on no other issued invoice, and its bill stays as it is until it is withdrawn. The
refinement maps `issued` to the invoices whose status is created and `bill` to the
calls in their PDFs; checking, saving, ordering, marking and reading are stutters,
`Finish` issues, and an edit, a new order or a deletion withdraws.

`RerateCall` erases the price of a call whether it is invoiced or not, as
`resetPricingData` does. `contested` is history: the calls that may be in the PDF of
an invoice without being its own, because they were added between the marking and the
reading, because a second invoice took them, or because the worker died after it let go
of them. `BilledAreOwned` says that there are no others.

`Race`, `EditOngoing` and `LateCalls` switch on, in turn, validity checks that
race, edits of waiting or processing invoices, and calls that appear or lose
their price while invoices are made. The code allows all three.

### InvoiceNumbers

An invoice that becomes waiting without a number takes the next one of its
sequence in the transaction that saves it. A PHP process (`proc`) reads the
invoice (`StartScheduled`, `Press`), computes the number on its copy of the
sequence (`SetInvoiceNumber`, with `NextValGenerator` and `nextval`) and commits
both rows or none: `CommitNumber` has Doctrine's version clause (`SameVersion`)
and the unique key `(number, brandId)` (`Free`) as guards, `Abort` is every
failure. `copy` is Doctrine's identity map: a request starts with an empty one,
the scheduler keeps the sequences it loaded for all the schedulers of its loop
(`Loaded`, `Done`, `EndScheduler`). `StatusAfter` says what a number does to the
status of an existing invoice. `Create`, `Renumber`, `Delete`, `EditSequence` are
requests of operators, `MakePdf` summarises the worker of `Invoicing`.

A number is the prefix with the value of the iteration and the digits `str_pad`
leaves it with, so that `A-9`, `A-09` and `A-10` differ. Prefixes that end in
digits (`A1` and `A`) are not told apart from numbers by concatenation.

`NumberRegister` is the promise: `last` counts what each sequence has handed out,
and one step gives the next number to an invoice that no other has. The refinement
maps `last` to `iteration` and `number` to itself.

### InvoiceSchedulers

`now` counts half-days: the brand's days begin at even ones, and a client in another
time zone (`Elsewhere`) has its midnight at odd ones. `next` and `every` are the columns
that `getInterval` and `nextExecution` give, `error` whether `lastExecutionError` is
set. `Start` finds the schedulers that are due and reads them all (`todo`, `seen`). For
each one `CheckInvoice` is CheckValidity at PRE_PERSIST and `CreateInvoice` the commit;
`Refuse` is a period that CheckValidity does not accept, `AddCosts` and `CostsFail` the
fixed costs, and `Done` writes the dates. What throws sets the error and the next date
and ends the whole loop (`Abort`), so that the schedulers that are left wait for the next
run; `Kill` ends it wherever it is and writes nothing.

The period is the brand's days before the date (`PeriodOf`), and its end is moved to
the end of the client's day (`EndOfDay`, `Invoice::sanitizeOutDate`). So the invoice of
a client in another zone ends in the first day of the next period, and that period is
then refused for the overlap, which shows as an error of the scheduler.

Operators save a scheduler (`Save`, possibly while the run holds what it read before,
and then overwritten) and make, edit and delete invoices: `Check` validates a new
invoice or one whose period is edited, `Commit` saves it later, and `EditOngoing`
changes the period of an invoice on its way, which the code does not validate.

`commits` and `checked` tell a check that still holds at its commit from one that
another commit of the client has overtaken. The invoices committed on the latter, and
those edited on their way, are `unsure`: CheckValidity does not protect them, and two of
them may have a day in common. `removed` (what operators took off invoices), `since`
and `refused` are history too.

### ActiveCalls

The proxy is `Invite`, `ProvisionalReply`, `Answer`, `GatewayFails`, `NextGateway`,
`Hangup`, `MoveParty` and `CrashProxy`; all publish through `REALTIME`, which lets a
state through if `lastCallState` says that it goes forward. `Publish` reaches only
who is subscribed (Redis pub/sub: at most once). `UpdateCurrentCallsStatus` is the
control subscriber and `Expire` the three hours that a record lives;
`RestartService` loses what it had not handled; it also stands for a client of Redis
that connects again, which loses the same and cuts no connection. A connection is `Open`, `Register`
or `Refuse`, `ListKeys`, `SendCurrentState`, `Subscribe`, then forwards until `Cut`;
between `ListKeys` and `Subscribe` it hears nothing, which `missed` records. The page
is `InsertData`, `HideRow` and `TimeRefresh`.

Three things are coarser than the code. The check of `lastCallState`, its update and
the publication are one step, although several workers of the proxy run the route. A
call here has the gateways of one carrier: for the next carrier `RT_NEWCALL` computes
another channel, key and row, which is another member of `Call` (and a `BYE` of a dialog
that a crash lost is published on the first key with its Call-ID). And a dialog lasts
three hours from its answer but its key and row three hours from an earlier moment: the
end of calls that long is left out.

### CallsTable

`useRealtimeCalls` keeps the rows twice: `calls`, the rendered state, and `sync`, a
reference that handlers read and change at once. A `setCalls` is evaluated at once
or at the next `Render`, as React chooses; `Tick` makes the whole reference the
state. `OnMessage` is `CreateCall` or `UpdateCall`; `Age` the row that is too old.
Sockets are those of `useWsClient`: `NewToken` opens one while the last event of the
old one may still come (`OnClose`). `Subscribing` brings the records that the service
has `Found`. They are what the control subscriber keeps (`Kept`), which may be no record,
the state of the call or one that it has passed, because the next event was lost or is
not handled yet; and none is sent at all if one listed key is gone. A call whose
record is not its state is `missed`, and `behind` if the record is of an earlier state:
a new socket then sets its row back. It comes when nothing waits for a render, because a
connection takes answers of the network. Without that the row of a call that ended
could wait to be removed while another gateway's set-up is missed, and its next update
would make a row of one field. The portals differ in when they hide the table, in what they do
with the rows then, and in which proxies they follow; `portal` is chosen in `Init`. What
the socket delivers is any feed that goes forward, `CallEvents!Follows`, which is
what `ActiveCalls` shows of the service (a part of `NothingGoesBack`): the two modules
are composed by that promise.

### PortalSession

A store change is followed by its render and effects before anything else happens:
easy-peasy 5.2 uses React's external store, so an action is a handler with the
effects that follow it. The entity map is local state of a hook, so the filtered map
and the menu are rendered later (`RenderMap`, `RenderMenu`, `due`), and a pending
render may be taken together with a change of profile. `Filter` changes the map in
place, as `useAclFilteredEntityMap` does. `Open` is a page, with the parameters
`target` and `username` of an impersonation; `LogIn`, `LogOut`; the answers are
`LoadSpec`, `ExchangeToken`, `RefuseExchange`, `LoadProfile` and `LoadProfileFails`,
and `loads` has the requests for profiles that are still on their way, each with the
identity of its token. The profile in localStorage is never read but right after it
was set. Nested items have neither `isAccessible` nor an override. A failure of the
request of an earlier identity logs the later one out; no text promises otherwise.

### Reloads

A table is the number of its changes and `loaded` the number that each server has
read. A process commits (`CommitChange`, `CreateLock`, `DeleteLock`, `SetLock` after
`FindLock`) and then pushes its orders one by one (`Push`); `PushFails` rethrows,
which skips the handlers behind, except for the jobs that swallow the exception,
and `KillProcess` may fall in between. A worker pops (`Pop`) and calls each server
(`CallSucceeds`, `CallFails`); only `KamRpc`'s second list is retried, by
`FallsAsleep` and `PushesAgain`, and `LosesOrder` is a kill. Reload orders make the
server read what the database has when it is called, so that their order does not
matter; hint orders carry the state of the lock, so theirs does, and two processes
that change one lock before either pushes may leave the older state in the hint
(`crossed`). Ids of locks are not used again, and servers start with what the
database has. The worker of CGRateS is one more list of the kind that is not retried.

## 3. Runs

Deadlock is not checked in any run: the system rests when every call is parsed,
every invoice made, and the bounded counters are used up.

| Run | Result | Question |
|---|---|---|
| `CallBilling` | pass | with rerates and PUTs that overlap batches and invoices, a changed plan, failed commits and failed or negative ratings: is there one BillableCall per cdr, do prices agree with ratings, do successful rerates take effect, what may change an invoiced price, is every call parsed? |
| `CallBillingJam` | violated | a call with a negative cost, or one that was rerated while invoiced, makes the mixer throw, and calls that share its batch may wait forever |
| `CallBillingCarrier` | violated | a rerate of a call with a carrier answers without error and leaves the old price |
| `Invoicing` | pass | whatever races, is edited, arrives late or is killed: are the calls listed under a finished invoice in its PDF, and which calls of a PDF are not its own? |
| `InvoicingQuiet` | pass | when nothing races and calls stand still: are the invoices a ledger (no call billed twice, no bill changed before it is withdrawn), do the calls of a PDF have a price, does every waiting invoice end? |
| `InvoicingEditOngoing` | violated | editing an invoice on its way skips validation |
| `InvoiceNumbers` | pass | under conflicts, failures, edits and deletions, is a sequence an atomic register, and does every scheduler get its invoice numbered? |
| `InvoiceSchedulers` | pass | with late runs, refusals, failures, kills, two time zones, edits of schedulers and of invoices during a run, and checks that are overtaken before the commit: is no day invoiced twice but for such checks, is none skipped, does the last hole show, does every scheduler catch up? |
| `ActiveCalls` | pass | with crashes, restarts, cut connections and pages opened in the middle of a call: does the record follow the dialog, does what record, feed and page say of a call ever go back, is a quiet page current, do ghosts leave? |
| `CallsTable` | pass | with updates that wait for a render, ticks, aged rows, records that are behind and an old socket beside a new one: do rows go forward, what can be lost, do rows of ended calls leave? |
| `PortalSession` | pass | with two administrators in one tab, impersonations and late answers: is the profile the token's, is the menu the profile's, does a logout last, does a session settle? |
| `Reloads` | pass | with two processes, failed pushes and calls, kills and retries: is a server with an old copy told, does a hint follow its lock, do servers catch up? |

The violated runs are the findings of `PROJECT.json`, each with the line of the
documentation it contradicts.

Other behaviours of the code were met while modelling. They have no run of their own:
the properties name the calls, invoices or days concerned, so that they say what holds
of the others, and that nothing else is affected.

| Behaviour | Where it is named |
|---|---|
| a batch that is open during a rerate overwrites what the rerate did | `crossed` in `RatedPriceIsItsCost`, `owed` |
| a price loaded before an invoice took the call is saved after it | `late` in `InvoicedPriceKept` |
| a call added while an invoice is made is in the PDF and not in its list of calls; so are the calls of an invoice whose worker was killed | `contested` in `BilledAreOwned` |
| two checks of a period before either commit, or an edit of an invoice on its way, put a day on two invoices | `unsure` in `NoDayIsInvoicedTwice`; `Race`, `EditOngoing` in `InvoicingQuiet` |
| a lost order of an invoice leaves it waiting, and it cannot be sent again | `MaxFaults` in `InvoicingQuiet` |
| an operator who types the next number of a sequence stops its schedulers | not in the run of `ScheduledAreNumbered` |
| an edit of a scheduler during its run is overwritten | `since` in `NoDayIsForgotten` begins anew |
| an event lost by a restart, a cut or the gap between snapshot and subscription | `unsynced`, `missed` in `ActiveCalls`, `missed` in `CallsTable` |
| the page hides a running call after a gateway has refused it | `tried` in `QuietViewIsCurrent` |
| a socket begins with a record that is behind its call, and sets a row back | `behind` in `ShownGoesForward` |
| an update that meets another one not rendered yet is lost, or a removed row comes back for a tick | `calm` in `CalmTableIsCurrent` |
| an event of an old socket hides the table of the new one | `SubscribedIsShown` |
| an answer with a profile overtakes an older one | `overtaken` in `ProfileIsOwn` |
| the second exchange of an impersonation logs in who has logged out | `asked` in `LogoutLasts` |
| a lost order; two processes that change a route lock before either pushes | `missed`, `crossed` in `Reloads` |
| the record of an answered call keeps the time of its set-up | times of calls are left out |

*Assumptions of the passing runs.* `InvoicingQuiet` runs with `Race`, `EditOngoing` and
`LateCalls` FALSE and no faults. These are not promises of the code: two validity
checks that race, a call that is added between the marking and the reading of an
invoice, an invoice generated again after a call of it was rerated, or a worker
killed after it popped an order each break a property this run checks. No other
passing run rests on an assumption that the code does not enforce, but for the bounds.

*Bounds.* Two calls are needed for one call to disturb another (batch, invoice).
`BATCH_SIZE` is 100 in the code, and only "full or not" matters: in `CallBilling` it is
1, so that a batch may be full of the other call, and in `CallBillingJam` and
`CallBillingCarrier` 2, so that calls share one. Of the two calls of `CallBilling`
CGRateS rates one, and the other belongs to a company without billing method. `MaxTariff = 1` gives an old and a new
price. `MaxRequests = 1` is one rerate, before, during or after any batch, PUT and
invoice; `MaxPuts = 1` bounds the PUTs under way at a time, not how many are made. The
run has some 470,000 states. Two invoices, one of each kind, are the
actors of an overlap; with two days the periods may be equal, nested or disjoint
(touching periods are disjoint sets of days, as in the code, whose periods end one
second before midnight). `Invoicing` (2.4 million states) uses the nested periods only, which is where
invoices can share calls. `MaxQueue` bounds the orders that wait (a duplicate order
needs two), `MaxFaults` the kills and lost orders. In `InvoiceNumbers` two
schedulers share a process and a sequence, and a request and an operator compete
with them; `MaxEdits = 1` is one edit of the sequence or of a number, which is
enough for a stale copy, and `IterationLimit` is the real width of the column
(65535). The sequence starts at 8, so that the numbers grow a digit.

`ActiveCalls` has one call, since channels, keys and rows of different calls meet
nowhere (288,533 states); two queued events are enough for one to be behind the
other, two openings for a page after another, one gateway that fails for a state that
goes back. `CallsTable`
(491,326 states) needs two pending updates for one to wait behind another and two
sockets for an old one. `InvoiceSchedulers` (543,928 states) goes up to half-day 5, with
intervals of one and two days, so that one scheduler is due twice while the other is due
once or twice; one deed of an operator (an edit of a scheduler, or an invoice made,
edited or deleted) and one kill fall anywhere. A commit that fails at every run, and so
keeps the schedulers behind it waiting, is beyond one kill. `PortalSession` (62,233 states) has four tokens and three pages: two
logins, an exchange and its double. `Reloads` (114,200 states) has two changes and two faults:
two orders for one list, and a failure of each; three changes also keep its safety
(2.3 million states).

*Fairness.* `CallBilling`: the clock (`BecomeDue`); the timer
`ivozprovider-cdrs.timer` starts the mixer every minute (`FetchBatch`), PHP
goes through the batch (`Migrate`) and through a request (`Rerate`); strong
fairness of `Flush` says that commits do not fail forever. `Invoicing`: a PHP
process goes on to save and to push (`SaveNew`, `Send`), and supervisord restarts
the worker (`Work`). `PersistentSpec` adds an operator who keeps pressing
Generate invoice. `InvoiceNumbers`: the process of the scheduler goes on;
`ivozprovider-scheduler.timer` comes back every 15 minutes to a scheduler that is
due (strong fairness of `StartScheduled`: after a failed commit Doctrine's entity
manager is closed and the date of the scheduler stays, after another failure it is
due again a period later); and strong fairness of the allocation says that its
commit, once possible again and again, does not fail forever.
`InvoiceSchedulers`: the timer fires and a run goes on to its end (`Run`).
`ActiveCalls`: subscribers read what they receive, and timers of Redis and of the
page fire; nothing is assumed of callers. `CallsTable`: React renders and the
interval fires; messages are delivered and hours pass (strong fairness, because both
wait for a moment in which `MaxPending` is not used up by ticks). `PortalSession`:
each request is answered and React renders; nothing is assumed of the user.
`Reloads`: processes push and workers go on; strong fairness of the calls of the
retried list says that a proxy does not refuse forever. Nothing is assumed
of operators otherwise.

## 4. Proofs

For every value of the constants that satisfies the modules' ASSUMEs:

* `CallBilling_proofs!TypeCorrect`: `Spec => []TypeOK`. A price is never a rating
  error.
* `CallBilling_proofs!OneCall`: `Spec => []OneCallPerCdr`, with no assumption on
  overlap. `OneCallPerCdr` alone is not inductive: a queued insert could meet a
  row. `RowsInv` adds `NewHasNoRow`: a queued insert is of a cdr without row.
* `CallBilling_proofs!InvoicedPriceChanges`: `Spec => InvoicedPriceKept`. The price of
  an invoiced call is erased by a rerate that names it, or replaced by a change that was
  on its way when the invoice took the call. The invariant `PendingIsLate` says that
  these are all: a change that `sanitizeValues` let pass was of a call in no invoice, so
  that a change on its way of an invoiced call is one the invoice found there.
  `PriceWrites` names the steps that write a price.
* `CallBilling_proofs!PricesAreCosts` and `ReratesTakeEffect`. The invariant `RatingInv`
  follows a cost from the rating to the price: a cost under a known cgrid is not older
  than what is owed (`KnownAsOwed`), a request that has not failed has rated its calls
  with a plan no older than when it was asked before it owes them (`RatedAsAsked`), a
  call that waits to be parsed has no price (`UnparsedUnpriced`), and what the mixer
  queues is the cost (`QueuedAtCost`). A call without cgrid may hold an older cost, but
  it is rated again before it gets a price. Each conjunct names the calls it is not
  about: those a PUT priced, those a batch held during their rerate (`crossed`, which
  are all that a batch can hold of an open request, `HeldApart`) and, of what is owed,
  those with a carrier.
* `Invoicing_proofs!TypeCorrect`, with the foreign key of `invoiceId`.
* `Invoicing_proofs!LedgerImplemented` (when `~Race` and `~EditOngoing`, with any late
  calls, kills and lost orders): `Spec => Ledger!Spec`. The inductive invariant
  `BookingInv` says that periods of existing and of checked invoices are disjoint,
  that at most one invoice is between check and save, that the worker's copy of the
  period is the invoice's unless it was deleted, and that a PDF has calls of its
  period only. So what `Finish` puts in the PDF is of a period that no issued invoice
  shares (`LedgerIssues`), and each other step withdraws the invoice it touches or
  leaves the ledger alone. `OneInvoicePerCall` follows from the same invariant.
* `Invoicing_proofs!ListedCallsAreBilled`: `OwnedAreBilled` with no assumption.
  The invariant adds that the calls the worker has marked are known to it, and that
  an invoice is not `created` while it is being made.
* `Invoicing_proofs!BilledCallsAreOwned`: `BilledAreOwned` with no assumption. The
  invariant adds that what the worker has read is what it marked, but for contested
  calls (`MarkedByWorker`).
* `Invoicing_proofs!BilledCallsAreMetered` (when `~LateCalls` and `~EditOngoing`): the
  period of every invoice, and the worker's copy of it, was checked when it was set
  and without late calls an unmetered call can only be rated (`MeteredPeriods`).

* `InvoiceNumbers_proofs!TypeCorrect`: types, and that no two invoices share a
  number. `InvoiceNumbers_proofs!Implementation`: `Spec => Register!Spec`. The
  inductive invariant says that a process's copy of a sequence is never ahead of
  the row, and that a copy of the row's own version has the row's iteration, plus
  one while its number waits for the commit (`CopyOK`), and that what waits was
  computed from a loaded row (`PendingLoaded`). So a commit that passes the version
  clause writes exactly the next iteration, which is a step of the register; every
  other step leaves the register alone or is an operator's edit.

* `InvoiceSchedulers_proofs!NeverTwice`, `NeverForgotten`, `HolesAreShown`, with no
  assumption. `NumbersAreTaken`: a number is given once, and a form is about the client
  of its invoice. `ChecksHold`: a check that no commit of its client has overtaken still
  holds, so that an invoice committed on it meets no other. `RunIsCoherent` says
  that the run works on a scheduler it has found and that, once its invoice was created,
  all days of the period that the run has read are on invoices or were taken off them by
  an operator, whatever was edited meanwhile.
* `ActiveCalls_proofs!RecordsFollow`, `QuietViewCurrent` and `NeverBack`. The
  invariant says that the dialog fits the call (`Dialogs`), that the events the control
  subscriber has not handled take the record forward, one by one, to the dialog's
  state (`Traces`), and that a connection which forwards the events of a call it did
  not miss was last told the dialog's state (`Told`). A property of the moment when a
  queue is empty is not inductive; `EndsWell` says of any queue that there is a
  sequence of records, each the one before after a message and never behind it, that
  ends in agreement with the dialog, and is preserved by adding a message at the end
  and by taking one from the front. `Views` says the same of the row on the page and
  the messages on the wire, and that a Terminated comes last and nothing comes for a
  row that is leaving (`EndsLast`): without that, the row that leaves would be made
  again by what follows, or taken away while a later call of it is shown. Between
  snapshot and subscription the view is of the state that was read, and `Subscribe`
  keeps it for the calls whose dialog is still in that state; the others are missed.
  A dialog that a crash lost ends in any agreement, since only its Terminated can
  follow.
* `CallsTable_proofs!RowsGoForward`, `CalmTableCurrent`, `SubscribedShown` and
  `RenderedChangesFindTheirRow`. The pending updates are a queue of functions, and a
  render applies them in order (`Rendered`). What it computes is proved by induction
  over their number, which the library's theorems do not offer for a prover that
  cannot instantiate an operator: `SetInduction` takes a set instead, and `StepsExist`
  gets the recursive function from it. `Queue` says that each update that changes a
  row finds it when the render comes to it, and that the row of a call that is over is
  going (`Changeable`, `Ended`); it is what makes the types of rows inductive, since
  an update of a missing row would make a record of one field. It rests on the guard of
  `Subscribing` that nothing waits for a render. `Forward` orders what may be shown of a call with its first gateway and no record that was behind
  (`Straight`): the state of the row now, those that pending updates and the reference
  bring, and the latest that the socket was told are each at most the next. `Calm`
  says of a table in which no change met another that the rows of the next render are
  those of the dialogs.
* `PortalSession_proofs!OwnProfile`, `OwnMenu`, `LogoutsLast`. `LastIsOwn`: the
  last request for a profile on its way is that of the token, and with none on its way the
  profile is (unless an answer overtook another). `RoutesFit`: the map has no more than that of the code, the filtered routes
  fit the profile, and once the fresh map was rendered they are exactly its own.
  `ExchangesEnd`: an exchange on its way is the first one, with the address still
  naming whom to impersonate, or the second; who has logged out waits for no first.
* `Reloads_proofs!StaleOwed`: a change and its order are made in one step, each
  later step hands the order on, and a call reads the version of the moment, so a
  stale copy always has an order before it or a failure behind it.
  `HintsFollow`: of the orders of a lock that has not crossed, the newest is the last
  on the way from process through list and worker to the hint (`Fresh`).

Conjuncts of the inductive invariants were checked by TLC on the runs' instances
where the proof was not obvious; the proofs do not depend on it.

*Only model-checked:* the liveness properties, under the fairness of section 3, which
this prover does not reach: `EveryCallIsParsed`, `EveryOrderEnds`,
`ScheduledAreNumbered`, `EverySchedulerCatchesUp`, `EveryGhostLeaves`, `EveryRowLeaves`,
`SessionSettles` and `ServersCatchUp`. Each safety property of a passing run is proved
for every value of the constants, under no more assumptions than its run makes
(`OneCallOneInvoice`, which a violated run refutes without them, among them).

## 5. Not modelled

CGRateS, Doctrine and ivoz-core are external and modelled by how the code uses
them; that ivoz-core writes an invoice and the sequence its number is from in one
transaction, that it rethrows what a handler after the commit throws, and the
calendar arithmetic of its DateTimeHelper (intervals are numbers of days here) are
assumptions. ivoz-ui, the React components that interpret the portals' declarations,
and Kamailio's transaction machine are not in the repository either. Deleting a
sequence (which unsets it in its invoices) and its `latestValue`, which repeats the
last number, are left out. So are totals of invoices and their rounding (binary
floats), PDF and e-mail rendering, the fields copied from cdrs, and the feeder of
the realtime service, a generator of test calls. 

*How much of the code is covered.* Most lines of JavaScript and TypeScript in the
repository, some 44,000 of 61,000, are declarations under
`web/portal/*/src/entities`: columns, labels, form groups, choices and toggles, with
no state and no order of steps, and an interpreter that is elsewhere. Most of the
rest are views, styles, entity maps, test stubs, Swagger bootstrap and third-party
plugins. The parts of it that keep state over time, the sessions and the two
families of active calls pages, are modelled, and so are the Go service and the PHP
that bills calls; the share of lines that the map names stays small because the rest
has nothing a state machine could get wrong.

*Left for later.* `HistoricCalls` copies ids in (last historic id, until id] in
chunks of 500 and deletes nothing, so that the question is which calls are copied before their last
rerate; `Rates` imports a CSV in transactions of a file. Both are small state machines with little
interleaving. Call routing of the AGI is a function of a large configuration. The
other components of section 1 that have no module are listed, with the reason, in
`PROJECT.json`.

## 6. Plan

Done: `CallBilling`, `Invoicing`, `InvoiceNumbers`, `InvoiceSchedulers`,
`ActiveCalls` and `CallsTable`, `PortalSession`, `Reloads`, and the proofs of all
their safety properties. Next, in this order:

1. `BillingSystem`: `CallBilling` and `Invoicing` composed on shared calls, with
   the abstract `AddCall`/`RateCall`/`RerateCall` refined by the mixer and requests.
   (`CallBilling` lets invoices take calls with a price only, which `Invoicing` keeps
   when there are no late calls: `OnlyMeteredCallsAreBilled`.)
2. `HistoricCalls` and `RateImports`, the chunked jobs.
3. The service codes that record locutions, in the portals and in the AGI.
4. Call routing of the AGI (forwarding, hunt groups, filters) as functions over
   small configurations, checked against a reference definition.
5. That the feed of `ActiveCalls` implements the feed that `CallsTable` assumes, as a
   refinement instead of the shared definition.
6. The steps behind the liveness properties that are safety: that each order, record
   and row that must go has a step that takes it away, and no other one takes it back.

# NG Property ERP: a TLA+ model of its operations

NG Property ERP manages the rentals and the land sales of an African property
company, with the money, the stock, the staff and the maintenance that go with
them: a NestJS server (`src/backend`), a React client (`src/frontend`) and
PostgreSQL (`src/database`). The client holds no state the server relies on, the
server holds no state between requests except the database, and almost every
hazard comes from one place: HTTP requests and cron jobs that run READ COMMITTED
transactions over the same rows.

This directory models the components that keep derived state: what is billed,
booked, sold, stored, paid and sent. Paths below are relative to `src/`, and
`saas` stands for `backend/src/saas/saas.service.ts`.

## The system

| component | where | state | operations | what must hold | model |
|---|---|---|---|---|---|
| Invoices and payments | `payments.service.ts`, `invoices.service.ts`, trash and restore in `saas` | `invoices`, `payments`, `payment_allocations`, the view `invoice_payment_summary` | create, update, validate, cancel, remove; create, update, trash, restore | the status follows the amounts; no payment beyond the balance or on a settled invoice | `PaymentLedger`, `InvoiceAccount` |
| Tenant credits | `saas` 3825-4365, 10884-11441, 13014-13520 | `tenant_credits`, `tenant_credit_refunds`, `tenant_credit_allocations`, their cash movements | create, draw on an invoice, refund, cancel, correct, trash, restore | nothing is used twice; oldest first; the cash books agree | `TenantCredit` |
| Rent billing | `automations.service.ts` | `automation_runs`, rent invoices, leases | minute cron, manual run, first invoice of a lease | every month billed, no day billed twice, one run at a time | `RentBilling` |
| Billing periods | `utils/billing-period.ts` | none | first period, next period, cycle and proration | no day lost or repeated, grouping neutral | `BillingPeriod`, `BillingBooks`, `BillingChain` |
| Cash desk, transfers, shareholders | `saas` 2362-3660, 8650-9912, 11630-13014 | `cash_sessions`, `cash_movements`, `bank_transactions`, transfers, payout batches | open, close, record, edit, trash, transfer, pay out | a transfer within its balance and whole; a payout paid once; the closing counts every movement | `Treasury` |
| Guarantees | `saas` 9913-10251, 11562-11620 | `lease_guarantees`, payments, refunds | pay, refund, trash, restore | the amount paid is what the live rows leave | `Guarantee`, `GuaranteeBooks` |
| Sale of lots | `sales/sales.service.ts`, `sales.repository.ts` | lots, reservations, fees, subscriptions, allocations | reserve, pay, allocate, refund, subscribe, decide, submit again | one buyer per lot; what was allocated stays in the desk | `LotSales` |
| Invoices of sales | `sales/sales-financials.service.ts`, `sales-automation.service.ts` | installments, sales invoices, payments, the run of a day | invoice, issue, pay, cancel, refund; the daily automation | the amounts follow the payments; every due installment invoiced | `SalesBilling`, `SalesBooks` |
| Payment plans | `sales/subscription-schedule.ts` | none | simulate a plan | the plan adds up to the price | `SubscriptionSchedule`, `PlanBooks` |
| Leases and units | `saas` 6564-7236, 15644-15782, 16900-17000 | `leases`, `units` | create, edit, activate, terminate, trash, restore, archive, purge, delete | one lease in force per unit; the unit follows | `Leases`; the lease as the billing sees it is in `RentBilling` |
| Staff | `saas` 1666-2361 | employees, leaves, advances, attendance, payrolls | request, approve, pay, attend, generate, validate | an advance is approved before it is paid, and had before it is deducted | `Payroll` |
| Workflows | `saas` 1555-1657, 15551-15627 | approval instances and steps | start, approve, reject, cancel | one decision | inside `Payroll` and `Maintenance` |
| Stock | `saas` 4465-5448, 6360-6551, 15900-16100 | articles, movements, purchases, receipts, payments, inventories, alerts | enter, issue, order, receive, pay, count, validate | the quantity is the sum of the movements | `Stock` |
| Maintenance | `saas` 5449-6337 | tickets, expenses, consumptions | diagnose, approve, assign, start, resolve, validate, close, charge | charged while worked on; what is closed stays closed | `Maintenance` |
| Email | `email/email.service.ts` | `email_logs` | send, retry every five minutes | one email per key; every email settled | `EmailOutbox` |
| Database access | `database.service.ts` | a pool of ten connections | `query`, `transaction` | rollback leaves nothing | in every module; the pool is not modelled |
| Authentication | `auth/**` | user and organization rows | guard, switch organization | a pure decision per request | no |
| Records, text and reports | tenants, buildings, BTP, activity, dashboard, documents, contracts, web client | rows and text | CRUD, rendering and queries | nothing beyond the database's constraints | no |

How they interact: an invoice created by a user or by the billing draws the
tenant's credits in the same transaction; a payment locks its invoice,
rewrites its status and posts a movement in the open cash session; deleting
that movement puts the payment, the credit, the refund, the payout line or the
leg of a transfer behind it in the trash; the billing reads leases and invoices
that users edit meanwhile; activation of a lease calls the billing for its first
invoice after its own commit; a subscription takes the fee of its reservation;
advances, payrolls and guarantees are paid from the desk; maintenance consumes
stock; most of them send emails.

What makes it hard: a READ COMMITTED statement that waits for a row re-reads
that row and nothing else of what it joined; derived amounts and statuses are
computed from one statement and written by another, often over a second
connection; checks look at rows that nobody locks, so that only a unique index
stands behind them; locks are taken in different orders by different endpoints;
the automations are chains of separate transactions that a crash may cut
anywhere. `PROJECT.json` lists each hazard at its line.

## How the models are built

A session is a concurrent HTTP request. Its record in `req` (or `pc` and its
locals in `RentBilling`) is the transaction it runs: the endpoint, how far it
is (`stage`), what it has read so far (`seen`, `read`), the locks it holds
(`held`), and in the ledger the rows it has rewritten. One action is one
statement that waits or reads, and the commit publishes what was written; where
everything from a lock to the commit is under that lock, it is one step.
`Rollback` is a refusal, an error or a lost connection (`database.service.ts`
77-82). `Endpoints` says which endpoints the clients call.

* `InvoiceAccount`: what the ledger promises, every endpoint as one step that
  leaves each status it touches as the amounts call for.
* `PaymentLedger`: the ledger as the code runs it. `CreatePayment` starts the
  locking SELECT and reads the balance, `AcceptPayment` is the granted lock and
  the checks, `BeginRefresh` and `WriteRefresh` are the read and the write of one
  `refreshStatus`, `Commit` publishes, `FlipPayment` is the trash and the
  restore. Row locks (`FOR UPDATE`, rewritten rows, `FOR KEY SHARE` of foreign
  keys) are read off the transactions, and `DeadlockVictim` is PostgreSQL's
  deadlock check.
* `TenantCredit`: each request locks rows in stages (`Wanted`, `Stages`,
  `Acquire`) and then commits its effect in one step. What it reads before the
  last lock is kept (`seen`, `label`, `candidates`): there the code can be stale.
* `BillingPeriod`: the calendar and the two cycle calculators, money in cents,
  `roundMoney` as rounding halves up. `BillingChain`: the periods of one lease,
  one after another, with the sums of `BillingBooks` kept beside them.
* `RentBilling`: the automation. A worker is an invocation: `pc` goes through
  opening, check, reserve, fetch, bill, create and notify. A day has three ticks,
  before the execution time and the two half hours after it, and a RUNNING row is
  stale from the next tick on (30 minutes in the code). `Crash` loses the workers
  and leaves the rows.
* `Treasury`: the desk, the accounts and the payouts. The expected balance of a
  closing is summed in one step and stored in another; a transfer reads its
  source under the locks it takes; a payout batch and its lines go to the trash
  from two screens that lock in opposite orders.
* `Guarantee`: two advisory locks, one for payments and one for refunds, over one
  row that both rewrite; the trash adds the rows up again. `GuaranteeBooks` has these rows.
* `LotSales`: the lot is locked by those who reserve and subscribe, the
  reservation by those who pay, and nothing by those who decide, cancel and refund.
* `SalesBilling` over `SalesBooks`: the sequence row of each kind of document is the only lock; the
  scheduler invoices all that is due in one transaction a day.
* `SubscriptionSchedule`: `simulateSalesSubscriptionPlan` as operators on a plan; `PlanBooks` has the
  plan that was asked for and what its installments must come to.
* `Leases`: the conflict check locks nothing; the UPDATE takes the key of
  `leases_one_active_per_unit`, and the refresh of the building reads, and then writes.
* `Payroll`: nothing is locked; advances, leaves, attendance and the payroll of a month.
  `POST /salary-advances`, `/leaves` and `/payrolls/generate` store the status that the
  client gives (`saas` 2006, 2095, 2310). A row may so be PAID from the start, and nothing
  leaves the desk for it: it is marked `recorded`, and the properties tell it from a row
  that was paid out. An advance was `Had` when it was handed out or recorded.
* `Stock`: every movement locks its article and stores a computed quantity;
  purchases lock themselves; lines are taken in the order of the document.
* `PayrollBooks`, `StockBooks` and `EmailLogs` have the tables that `Payroll`, `Stock` and
  `EmailOutbox` read and write, and what these tables must agree on.
* `Maintenance`: tickets under a row lock, but for starting and validating, which
  check in one transaction and write in another.
* `EmailOutbox`: callers and overlapping ticks over the same rows; the unique index
  over the keys that are under way or done; lost answers and crashes.
* `MC...`: instances for TLC. `..._proofs`: proofs.

Each `MC` module holds several small instances, and a variable `scene`, chosen
with the initial state and never changed, says which one runs and what its clients
do. Scenes never meet: a run with scenes is the union of small checks. Properties
that hold in some scenes only name them.

Operators named after another one (`ForUpdateNone` beside `ForUpdate`) are
variants with a plausible bug. No run uses them; with one in place of the
original, the property paired with it in `PROJECT.json` fails, which shows that
the property depends on that code.

## Runs

Nine runs pass and three show a disagreement. Deadlock is checked in the billing
runs, where the clock ends; elsewhere identifiers run out by design. Two requests
are the least that race, and two rows of a kind the least that can be mixed up or
locked in either order; amounts are chosen so that partial, full and excess
payments occur. Bounds are constants of the `.cfg` files and of the instances.

| run | module | scenes and their bounds | what it checks |
|---|---|---|---|
| `ledger` | `MCLedger` | *intake*: 2 sessions, 2 invoices, 2 payments, totals 0 and 3, the endpoints that lock the invoice. *races*: payments of 1 split over 2 invoices in any order, trashed and restored | `StatusMatchesPaid`, `NoLockCycle`, the refinement `ImplementsAccount`; `RacesFollow`: amounts counted once, nothing paid on a settled invoice, CANCELLED and DRAFT never overwritten |
| `ledger_serial` | `MCPaymentLedger` | 1 session at a time of 2, every endpoint, 2 invoices, 2 payments | `ImplementsAccount` of every endpoint, `WithinBalance` |
| `credit` | `MCTenantCredit` | *use*: 2 sessions, 2 credits up to 2, 2 invoices, a refund or cancellation, corrections. *book*: a credit in cash and one by bank, bills with and without rounding of the syndic part | `CreditUsedOnce`: the balance is what is left, no invoice overdrawn, one lock order; `OldestFirst`; `BooksFollow`: cash and syndic cash lose nothing, invoices follow their draws |
| `billing_serial` | `MCRentBilling` | one invocation at a time (`SerialSpec`) over a monthly and a quarterly mid-month lease, 3 months, a crash, a failing lease, a manual run of any month | `Contiguous`, `NoOverlap`; `SuccessIsFinal`: a closed month is not run again and leaves nothing due |
| `billing_races` | `MCRentRaces` | *races*: 2 runs that may take over each other's stale row, 1 quarterly lease, 2 months, users who write and delete invoices. *quarters*: 2 leases on one cycle whose anchor moves, a run cut short, 4 months: the anchor moves after both have started | `OneRunning`, `NeverBilledAgain` |
| `progress` | `MCProgress` | one scene per component: *sales*, *rent* (2 months), *credit*, *ledger*, *wires*, *payouts*, *mail*; 2 sessions where locks can close a cycle | liveness: `DueIsInvoiced`, `MonthsBilled`, `RequestsEnd`, `MailSettles`, see below |
| `treasury` | `MCTreasury` | *alone*: every endpoint in turn. *desk*, *wires*, *payouts*: two at once; 2 sessions of the desk, 2 accounts, 2 holders, a desk that opens with 1, amounts of 1. *guarantee ...*: 3 receipts and 2 refunds of a guarantee of 2 | `TransfersBalance`, `TransferWithinBalance`, `PayoutIsItsMovements`; `GuaranteeFollows`: the amount paid is what remains |
| `office` | `MCOffice` | *lots*, *fees*, *rush*, *till*, *resubmitted*: 2 lots, 2 reservations, 2 subscriptions, 2 payments of a fee up to 2. *cashier*, *payers*, *automation*: 2 installments. *approvals*, *decisions*, *handouts*, *payday*: 2 employees, an advance, a leave; in *handouts* payrolls are generated VALIDATED for all, two requests at once, in *payday* one employee works and is paid by payrolls of any status, a DRAFT with a bonus of 0 or 1, and both scenes enter an advance as DRAFT or PAID. *site*, *workshop*, *permits*: a ticket, 2 workflows. *post*: 2 emails, a tick, a crash. *plans*: about 6000 plans over 24 months with a leap February | `OneBuyerPerLot`, `FeesKept`, `InvoiceFollowsPayments`, `PayrollFollows`, `DecisionsHold`, `TicketsKept`, `DeliveredOnce`, `PlanIsKept` |
| `operations` | `MCOperations` | *letting*, *editing*, *keys*: 2 leases of 2 units and their building. *billing*: 14 real months with a leap February, 121 start days, frequencies 1, 3 and 4 changed at will. *store*, *supplies*, *dues*, *orders*, *count*: 2 articles, a purchase, an inventory | `OneActivePerUnit`, `BuildingFollows`; `BillingFollows`: each day billed once at a price independent of the grouping; `StockFollows`, `PurchasesFollow` |
| `ledger_overpaid` | `MCPaymentLedger` | 1 invoice of 3, 3 payments | `WithinBalance`, expected violation |
| `treasury_close` | `MCTreasury` | as `treasury` | `ClosingCountsAll`, expected violation |
| `sales_resold` | `MCLotSales` | *resold* | `KeptForTheReservation`, expected violation |

`progress`, `office` and `operations` also check the types of all their modules
(`TypesOK`). A property of an `MC` module is a conjunction of the properties of the
modules, each under the scenes it is claimed for; the comment above it says so.

### Fairness

`progress` conjoins the fairness that each module states.

* Ledger, credits, treasury: strong fairness of a session's steps: the event loop
  continues every promise, and PostgreSQL serves lock waiters in a queue, so a
  lock that is released again and again is obtained in the end. The deadlock check
  is weakly fair (`deadlock_timeout`). No client is obliged to send a request.
* Rent billing: weak fairness of a worker's steps, of the cron (a running server
  fires it every minute, so at least once per half hour: the guard of `Tick`) and of time.
* Sales billing: weak fairness of the scheduler, of the days, and of the end of a user's transaction.
* Email: weak fairness of the caller and of the tick (a cron every five minutes,
  `email.service.ts` 442), and of the delays between attempts.

No run of `progress` crashes, so it assumes that the server stays up: a crash in
the second half hour of the first of a month loses that month, and one while an email is out
leaves its row SENDING for good.

### Three disagreements with the code

* `ledger_overpaid`: `lockInvoiceForPayment` (`payments.service.ts` 715) reads
  `remaining_amount` from the view in the statement that locks only the invoice
  row. When it waits for another payment, PostgreSQL re-reads the locked row and
  not the view. Two partial payments are then both accepted, although `create`
  refuses a payment above the balance ("Le paiement depasse le restant dû"). A
  settled invoice is still refused, because its status is in the locked row
  (`NoPaymentOnSettled`, proved).
* `treasury_close`: `closeCash` (`saas` 2381) sums the movements and then stores the
  balance, without a lock; a movement committed in between is in neither the expected
  balance nor the difference, against "La fermeture caisse calcule entrees,
  sorties, solde attendu et difference" (`docs/architecture.md` 115).
* `sales_resold`: `changeSubscriptionStatus` (`sales.service.ts` 1545) takes a
  REJECTED subscription back to SUBMITTED without a look at the lot, and approves it
  although another buyer has reserved the lot meanwhile. The contract promises to
  keep the lot unavailable during a validated reservation
  (`SalesV3Pages.tsx` 2498).

### Where the passing runs draw a line

Some properties hold only for a part of the endpoints, or for one request at a
time; the constants, the scenes and the definitions of the `MC` modules say
which. Widening them shows what the code does:

Ledger, credits and billing:

* `StatusMatchesPaid` fails when `trashPayment` or `restorePayment` run beside a
  payment (the refresh of `saas` 13575 writes what it read before the other
  commit) and when a draft that was already paid is validated
  (`invoices.service.ts` 263 always writes UNPAID). A payment and its allocation
  disagree after `updatePayment` (`payments.service.ts` 571).
* The two halves of `CreditUsedOnce`, `RemainingIsUnused` and `DrawnWithinTotal`, fail
  with `trashRefund` (`saas` 3983 forgets what invoices drew, and reads before it waits)
  and with `restoreCredit` (`saas` 4217 multiplies sums by joining two tables).
* The halves of `BooksFollow`: `InvoiceFollowsDraws` fails with `trashCredit`, whose
  invoices stay PAID (`saas` 3901); `CashFollowsCredit` fails with `update` once a refund is
  the newest movement (`saas` 13026), and for a draw after a refund: the syndic part is
  taken from the refund's movement.
* `SuccessBlocksRerun` (in `SuccessIsFinal`) fails with two workers: `reserveRun`
  (`automations.service.ts` 1083) does not look again at the status that was
  checked before. The second run finds everything billed, so no day is charged twice.
  `NothingLeftDue`, its other half, needs that no lease is activated beside a run
  (`OneAtATime`): a lease that starts on the first of a future month, activated while a manual
  run of that month is past its snapshot, is due and not billed when the run ends as SUCCESS.
* `Contiguous` is claimed of leases with their own dates (`LeftAlone`: users write and
  delete no rent invoice, no cycle is shared). Leases of one tenant that share a quarterly cycle
  follow the oldest of them: when it is terminated, the anchor moves to the start of the
  next one, the cycles of the other leases are cut elsewhere, and a month between the
  old cut and the new one can stay without an invoice.
* `NoMonthLeftBehind` (in `MonthsBilled`) fails with a crash in the last half hour of the
  first of a month, with a run made in advance, and when the shared cycle moves: a lease is
  billed in no other month than the one after its last invoice (line 1650), so a missed
  month stays missed.
* `NoOverlap` fails with hand-written invoices: `invoices.service.ts` 484
  compares the month only. The automation's own invoices never overlap
  (`NeverBilledAgain`, proved).

Treasury:

* `TransferWithinBalance` holds where no payment of the cash book is removed beside a transfer:
  its removal (`trashPaymentInTransaction`) lowers the balance of the desk without the lock
  under which the transfer compared it.
* `PaidIsWhatRemains` and `PaymentsWithinDue` (in `GuaranteeFollows`) hold where the requests that
  meet at a guarantee are of one kind: payments queue for one lock and refunds for another,
  so a payment beside a refund, or either beside the trash, each write their own sum. The recalculation does not see refunds by bank, and a receipt
  may go to the trash under its refund; both are kept out.
* Nothing is claimed of the sum of payouts against the desk: two batches of
  different keys spend the same money (`saas` 12788).

Sales:

* `AllocatedIsKept` and `KeptWithinOwed` (in `FeesKept`) hold
  for one request at a time, and `InvoiceFollowsPayments` for payments at once, not for a
  cancellation or a refund beside a payment. A payment of a fee is cancelled only where no
  subscription follows, because the allocation also takes cancelled ones
  (`sales.repository.ts` 2479).
* `FeePaidWithinFee` needs that payments are not both cancelled and refunded: a refund
  that read a payment before it was cancelled writes it back as paid in part, and the
  sum that the next payment is checked against never saw it.
* `OneBuyerPerLot` needs that the reservation a subscription is made of is not
  edited meanwhile, since the edit brings it back to ACTIVE, that a status is decided
  while nobody else works on the lots, and that no refused subscription is submitted again.
* `DueIsInvoiced` excuses the days on which an installment that cannot be invoiced
  aborts the transaction of all.

Leases, stock:

* `NoConflict` (in `BuildingFollows`) fails with two requests at once: a unit and its building may be
  let together, since the index only knows equal units.
* `OccupiedIffLet` fails with edits and deletions, which do not refresh the
  units they leave.
* `PaidIsLivePayments` and `AdjustedOnce` (in `PurchasesFollow` and `StockFollows`) fail with a payment beside the trash of
  another, and with two validations of one inventory.

Staff and maintenance:

* `DecidedOnce` (in `DecisionsHold`) fails when two requests decide one workflow at once:
  both find its step pending. `PaidIsNet` and `PayrollFollowsAttendance` hold for one request
  at a time, and for what the screens offer: no PAID payroll or advance is validated again.
  The program lets a client deduct an advance that never left the desk, or close a month that
  was never paid, by giving the status PAID; `PayrollFollows` speaks of such rows as recorded:
  it says what a payroll deducts and shows, not that the desk paid for every PAID row.
* `ApprovedWasApproved` (in `TicketsKept`) is checked for one request at a time. `FinishedStays` fails in
  *site*, where a start or a validation that looked before is written after the closing.

Email:

* `DeliveredOnce` is checked where no answer of the mail server is lost and a tick
  reads the queue while no caller sends: otherwise one row goes out twice.
* `MailSettles` needs `EMAIL_MAX_PER_RUN` to reach every row that waits: rows that
  their index refuses for ever come first in the queue of each tick.

## Proofs

Each theorem holds for every number of sessions, rows, workers, calendars and
amounts that the named assumptions of the modules allow. Two facts recur. A request
that locks a row owns it until it commits, so no row has two owners
(`Exclusion`); and what a request read under its lock is still so when it writes.
An invariant about committed rows alone is seldom inductive, because a commit
publishes what was computed earlier: most of the strengthenings below say what a
request in progress carries. Where a theorem assumes something of the clients, the
assumption is the one the run with the same property makes, and *Where the passing
runs draw a line* says what the code does without it.

* `Sums`: sums over finite sets, from the community modules' `SumFunctionOnSet`. The
  library defines them by folds over a `CHOOSE`n order; that the order does not matter
  is proved by taking a least counterexample (`SumTakeOne`, `SumChangeOne`,
  `SumOfSupport`, `SumGrows`, `SumAtMost`), and every module below that speaks of totals cites these.
* `PaymentLedger_proofs`
  * `TypeCorrect`: the type invariant, with the shape of running transactions.
  * `SettledIsFinal` (`NoPaymentOnSettled`), from `LockInv`: a row has one owner, so
    what `create` checked under the lock (`Unsettled`) stays true.
  * `StatusIsSticky` (`StickyStatus`), from `KeepInv`: a private copy of a row keeps a DRAFT or CANCELLED status.
  * `IntakeStatusMatches` (`StatusMatchesPaid`), for the intake endpoints and payments
    of one invoice. `IntakeInv` adds that a transaction owns its only invoice
    (`OneInvoice`) and that what it read is still so (`FreshCopies`).
  * `IntakeIsAtomic` (`ImplementsAccount`): under the same assumptions each commit is
    one step of `InvoiceAccount`, and every other step a stutter.
  * `PaymentsWithinBalance` (`WithinBalance`), assuming `PaymentsApart`: while a payment of an
    invoice is recorded nobody else works on that invoice. `BalanceKept` says that the balance
    the payment read is still the balance. `ledger_overpaid` violates the property without it.
  * `PaidFollowsPayments` (`PaidIsSumOfActive`, the first part of `RacesFollow`), for every endpoint: a
    transaction publishes the allocations it read (`SourceAt`), because no other works on
    its payment (`OneWriter`), and a commit changes one term of the sum.
  * `NobodyWaitsInACircle` (`NoLockCycle`), for payments of one invoice each: who waits
    for a row owns none, and who waits in the queue of `create` holds nothing at all.
* `RentBilling_proofs`
  * `BillsEachDayOnce` (`NeverBilledAgain`): the three actions that insert
    for the automation go through `Billable`, under the lease's row lock.
  * `NoDayTwice` (`NoOverlap`), assuming users write no rent invoices.
  * `AtMostOneRunning` (`OneRunning`), from `RunInv`: the rows and workers
    keep their shapes, reservation takes the only RUNNING row out of the way,
    and a late `FinishRun` never writes RUNNING.
  * `NoDayForgotten` (`Contiguous`), assuming `LeftAlone` and a calendar that reaches
    one cycle beyond the last month. `ChainInv`: the invoices of a lease are the cycles between
    its start and a boundary, and a cycle under work starts at that boundary. It
    rests on lemmas about the calendar: a day is in one month, months do not overlap, and
    the end of a cycle is the day before the next.
  * `SerialRunsAreFinal` (`SuccessIsFinal`), for one invocation at a time (`OneAtATime`),
    assuming `Undisturbed`: no invoice is deleted or written by hand, and no lease that
    sets the cycle of others is terminated. `WorkerOK` says what a run may rely on at each
    phase: the month it is about to reserve is not closed; its row is of its month; and
    a lease that is due is still to be looked at unless one failed, with the period that
    the snapshot found for it (`LeasesOK`). A termination beside the run only makes leases
    not due (`DueStays`).
  * `BillingIsFollowed` (`BillingFollows`), about `BillingChain` as an instance (`L`): any calendar,
    any start dates, monthly amounts and frequencies (`ChainRows`). A period that ends with
    month n has one line of each component per month (`PeriodLines`); by induction over the months
    (`LinesComeTo`) they come to the days and to the price of those months, a
    month pro rata over all its days being the month (`WholeMonth`). So after each invoice the
    sums are those of one period from the start to its end (`BilledTo`).
  * `PlansAreKept` (`PlanIsKept`), for any price, discount, deposit, count, frequency and first
    day, over a calendar that has the months the installments reach (`PlanRow`). The equal
    installments are a rounded quotient, off by half a cent at most (`Rounding`), so the last,
    which takes what is left, stays within the tolerance; `SumOfEqual` adds them up and
    `SumOfRest` puts the deposit in front. A date that is put off stays in the month it was
    put off to (`PutOff`), so the installments fall due in order.
* `TenantCredit_proofs`
  * `TypeCorrect` (`TypeOK`), from `IInv`: a draw or a refund is of a credit that was
    received, and an invoice is issued by one request.
  * `OldestFirstIsEnough`, about the drawing rule alone: if each credit gives what the older
    ones leave to pay, all together give no more than the total, by taking
    credits from the oldest.
  * `OldestDrawnFirst` (`OldestFirst`), whatever endpoints are served.
  * `NoCreditTwice` (`CreditUsedOnce`), without the endpoints that move a refund to or from
    the trash or restore a credit: the balance is what draws and refunds leave.
  * `BooksFollowCredits` (`CashFollowsCredit` and `InvoiceFollowsDraws`, the parts of
    `BooksFollow`), for `BookEndpoints`; a refund in the cash book is
    spent (`RefundedIsSpent`).
* `Treasury_proofs`
  * `TypeCorrect`, from `IInv`: a key that was not found is still not used when its request commits,
    and a removal holds the line it found live, and its batch, until it commits.
  * `PayoutsAreTheirMovements` (`PayoutIsItsMovements`), from the same.
  * `TransfersKeepMoney` (`TransfersBalance`): the accounts' share and the legs at the desk add
    up to 0; a transfer changes two terms of the sum by opposite amounts, and no other
    step changes any (`SidesStay`).
  * `TransfersWithinBalance` (`TransferWithinBalance`), assuming `PaymentsStay`: no movement of a
    payment is removed while a transfer is under way. `SourceOK` says that a transfer which has
    read the balance of its source holds the source and the numbering, and that the source has
    lost nothing since (`SourceStays`): other transfers wait for the numbering, what is written in
    a session waits for it (`DeskWritten`), and what is removed is money that went out
    (`Outgoing`). The removal of a payment does not lock the session and takes money out.
  * `GuaranteeIsKept` (`GuaranteeFollows`), about `Guarantee` as an instance (`G`), assuming what the
    run does: requests that meet are of one kind (`OneKind`), no refund by bank lies beside the
    trash (`NoBankRefunds`), and no receipt goes to the trash under its refund (`RefundsCovered`).
    `GuaranteeInv` says that what a payment or a refund has read is still the amount paid, since
    every other that could change it waits for the same lock (`NobodyHasRead`); one row written
    changes one term of the total (`OneRowWritten`).
* `LotSales_proofs`
  * `TypeCorrect` (`TypeOK`), with `Exclusion` and the rows each request holds (`IInv`).
  * `FeeNeverExceeded` (`FeePaidWithinFee`, a part of `FeesKept`), where cancellations and
    refunds of payments are not both served: `PayFits` says that under the lock of the
    reservation a payment still fits.
  * `LotGoesToOneBuyer` (`OneBuyerPerLot`), assuming `Orderly`, the conditions under which the
    run claims it, and no refused subscription submitted again. `BuyerInv` has the
    property lot by lot, and for each request that is about to insert that the lot it
    locked is still free (`KeptFor`).
  * `InstallmentTypes`: the type invariant of `SalesBilling`, as an instance (`B`, whose rows
    are as `BillingRows` says), and `BillExclusion`: nobody shares a number, a payment or
    an installment with another.
  * `AmountsFollow` (`InvoiceFollowsPayments`), assuming `SummedAlike`: a payment, a refund and a
    cancellation have not summed one invoice at once. `BalanceInv` says of each request that has
    summed that its sums are those the table will have once it writes its row (`SummedOK`).
    Two payments queue for their number before they sum, so neither makes the sums of the
    other old, and a request on another invoice changes no term of them (`SameTotals`).
    The assumption cannot be dropped: the last to store loses the other.
* `Estate_proofs`: the leases, and as instances the maintenance (`M`, for any bound
  `MaxCharges` in the naturals), the emails (`E`, whose rows are finitely many numbers,
  `MailsNumbered`) and the staff (`H`, whose employees are numbers, and amounts naturals, `StaffRows`)
  * `LeaseTypes` (`TypeOK`).
  * `OneLeasePerUnit` (`OneActivePerUnit`), from `IndexInv`: a transaction that has written
    a row in force holds the key of its unit (`KeyHeld`), no two hold one key
    (`Exclusion`), and no committed row has a key that another holds (`KeyFree`).
    The conflict check plays no part.
  * `TicketTypes`: the type invariant.
  * `ChargesWhileInProgress` (`ChargedInProgress`), from `LockInv`: a ticket is
    locked by one request, and its status is still one that this request goes on from
    (`SeenIsSo`), because every other write waits for the lock.
  * `ClosedForGood` (`FinishedStays`), assuming `Alone`: nobody is served beside a
    request that starts or validates. Then what such a request found is still so when
    it writes (`FoundIsSo`), and no endpoint goes on from a finished ticket. The
    assumption cannot be dropped: see *site* above.
  * `SentOnce` (`DeliveredOnce`), assuming `QueueReadAlone` and `AnswersArrive`, which are
    those of *post*. `MailInv`: the rows that two workers have taken differ (`Claims`), a row
    went out only while it is SENDING or SENT (`RowsOnce`), and the index has one such row
    of each key (`Unrepeated`).
  * `AdvancesHandedOut` (`DeductedWasPaid`, a part of `PayrollFollows`), on no condition, for
    advances handed out and for those recorded as paid. What an employee has had (`Bounds`)
    only grows, so it still bounds the total of his advances when a payroll that summed
    them earlier is written (`Within`).
  * `PayrollIsKept` (`PayrollFollows`), assuming `RowsWait` and `PaidStays`: nobody writes the
    attendance or the payrolls between what a request reads and what it writes, and a paid
    payroll is not validated again. `PayOK` has what such a request has read, and `RowOK`
    what the committed rows show: a movement of the net amount for a PAID row, and none for
    one that was recorded as PAID.
  * `AdvancesApproved` and `PaidAndGrantedApproved` (`PaidWasApproved`, a part of
    `DecisionsHold`): an approval stays recorded among the actions of its workflow whatever is
    decided or cancelled later (`AskedKept`), so the check that a request made may be old and
    still right (`AskedOK`). For leaves this needs that the edit of a
    leave, which looks at no workflow, does not grant one that is under approval
    (`GrantedByRequest`); one entered without a workflow may be APPROVED from the start.
  * `DecisionsAreHeld` (`DecisionsHold`), assuming besides that a step which a request found
    pending is decided by nobody else before it is (`DecidedAlone`), as in every scene of the
    run. `DecidedInv` says that a pending step has no action and a decided one has one
    (`FlowOK`), that a workflow starts with its advance or leave, and that a request
    which is about to decide still finds its step pending (`DecidesOK`).
* `Stock_proofs`, for any articles, rows, sessions and quantities (`StockNumbers`:
  articles are numbers, bounds are naturals, and the sets are finite)
  * `StockTypes`: the type invariant.
  * `QuantityFollowsHistory` (`QuantityIsHistory` and `AlertFollowsStock`, parts of `StockFollows`),
    whatever is served at once. `StockInv` says that what a request
    has moved and not committed is of articles it has locked (`Carries`), so a commit changes
    one term of the quantity and one of the history by the same amount.
  * `ReceiptsWithinOrders` (`ReceivedWithinOrdered`, `StatusFollowsPurchase`, `DeletedIsUnused`), from the
    same: under the lock of its purchase what a receipt still has to receive fits
    (`ReceiptFits`), which needs that a receipt names each article once (`EachOnce`).
  * `PurchasesAreFollowed` (`PurchasesFollow`), assuming `PaymentsApart`, from `PaymentsInv`: the
    payments that the trash of one summed are still the others that live (`OthersSummed`).
  * `StockIsFollowed` (`StockFollows`), assuming `ValidatedAlone` and `NotRecounted`, from
    `AdjustedInv`: what a validation still has to apply is the difference that was counted
    (`AppliesDifference`). Both assumptions are those of the scenes *dues* and *count*.

Only model-checked, and why:

* Liveness (`RequestsEnd`, `MonthsBilled`, `DueIsInvoiced`, `MailSettles`): fairness and
  ENABLED are out of the prover's reach.
* Claimed for one request at a time, where few interleavings are left and TLC is enough:
  `AllocatedIsKept`, `KeptWithinOwed`, `BuildingFollows`, and
  `ApprovedWasApproved`, a part of `TicketsKept`.
* Not proved yet: the `TypeOK` of `RentBilling`.

## What the models leave out

* The connection pool (`database.service.ts` 68): transactions that ask for a
  second connection while they hold one stop once ten of them have started. A model
  would restate the count; every module begins after its connection is there.
* Two currencies in one register, exchange rates, numbers of receipts and documents,
  idempotency keys of credits, the bank and cash postings of a payment of rent, the text of
  emails, documents and contracts, and the period of an existing invoice, which can be edited.
* The part of a reservation fee that is deducted from the invoice of an installment
  (`resolveDeductibleAllocation`, `sales-financials.service.ts` 382 and 1259-1276): `Owed` is
  the amount that is left to invoice, and no property turns on what was deducted.
* Lines of an inventory that the client supplies (`saas` 6442) name each article once and
  expect no negative quantity; statuses of staff rows are those the code compares with.
* Statements that PostgreSQL always refuses, such as FOR UPDATE over the nullable
  side of a LEFT JOIN: payouts and expenses by bank, sales reminders.
* Authentication, permissions and organizations: one organization, every caller
  allowed. Tenants, buildings, construction sites, activity, dashboard, documents,
  reports and the web client: rows and text without derived state. They are more than
  half of the source, which is why the map stops where it does.
* In `RentBilling` an advisory lock that is refused is treated like a RUNNING row that refuses,
  identical invoices of a period are one element of a set (the index
  `invoices_rent_once_per_lease_period_idx` refuses the second), all leases belong to one
  tenant, months have one or two days, and a notification is only its success or failure.
* Components are composed where the code shares rows (desk, payouts and transfers;
  reservations, fees and subscriptions; payroll, advances and workflows); the
  emails of an endpoint and its transaction are not.

## Plan

1. Done: the modules above, their runs, and the proofs of the ledger, the billing, the
   credits, the treasury, the sales of lots, the leases, the maintenance, the stock, the
   emails and the staff.
2. Proofs to add: `TypeOK` of `RentBilling`; the lease of a building for one request at a time.
3. To compose: a payment of rent with the desk it posts in; the email of a ticket
   with the transaction that sends it.

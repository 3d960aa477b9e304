---------------------------- MODULE PaymentLedger ----------------------------
(***************************************************************************)
(* The invoice ledger of the rental module: payments.service.ts,           *)
(* invoices.service.ts and the payment trash/restore of saas.service.ts,   *)
(* run by concurrent HTTP requests ("sessions").  Every request is one     *)
(* PostgreSQL transaction at READ COMMITTED (database.service.ts), so the  *)
(* model keeps the statement boundaries: a statement reads the committed   *)
(* rows as they are when it starts, may then wait for a row lock, and      *)
(* writes when the lock is granted.  A row that changed during the wait is *)
(* read again; the other tables of the statement are not (PostgreSQL       *)
(* re-evaluates only the locked row).  Writes are private until COMMIT.    *)
(***************************************************************************)
EXTENDS Integers, FiniteSets, Functions

CONSTANTS
  Sessions,      \* concurrent requests
  Invoices,      \* invoice identifiers
  Payments,      \* payment identifiers
  MaxTotal,      \* bound: the largest invoice total and payment amount
  Prices,        \* bound: the totals that invoices are issued or repriced at
  Tolerance,     \* the 0.01 USD by which a payment may exceed the balance
  Endpoints,     \* which state-changing endpoints the clients call
  SplitAllowed,  \* may a payment carry an "allocations" list (dto.allocations)
  NoInvoice, NoPayment

AllEndpoints ==
  {"createInvoice", "updateInvoice", "validateInvoice", "cancelInvoice",
   "removeInvoice", "createPayment", "updatePayment", "trashPayment",
   "restorePayment"}

(* The endpoints that lock an invoice before they change what is paid on it *)
(* and that touch no payment already recorded.                              *)
IntakeEndpoints ==
  {"createInvoice", "updateInvoice", "cancelInvoice", "removeInvoice", "createPayment"}

ASSUME MaxTotalAssumption  == MaxTotal \in Nat \ {0}
ASSUME PricesAssumption    == Prices \subseteq 0..MaxTotal
ASSUME ToleranceAssumption == Tolerance \in Nat
ASSUME EndpointsAssumption == Endpoints \subseteq AllEndpoints
ASSUME SplitAssumption     == SplitAllowed \in BOOLEAN
ASSUME NoInvoiceAssumption == NoInvoice \notin Invoices
ASSUME NoPaymentAssumption == NoPayment \notin Payments

VARIABLES
  invoice,  \* committed rows of invoices: presence, status, total
  payment,  \* committed rows of payments with their payment_allocations
  paid,     \* paid_amount of the view invoice_payment_summary (committed)
  req       \* the transaction each session is running

vars == <<invoice, payment, paid, req>>

Statuses    == {"DRAFT", "UNPAID", "PARTIAL", "PAID", "CANCELLED"}
Totals      == 0..MaxTotal
Amounts     == 1..MaxTotal
Rows        == [status: Statuses, total: Totals]
InvoiceRows == [state: {"absent", "live", "deleted"}, status: Statuses, total: Totals]
Allocations == [Invoices -> Totals]
PaymentRows == [state: {"none", "active", "trashed"},
                invoice: Invoices \cup {NoInvoice},
                amount: Totals,
                alloc: Allocations]

NoAlloc  == [j \in Invoices |-> 0]
BlankRow == [status |-> "DRAFT", total |-> 0]
Allocated(alloc) == {j \in Invoices : alloc[j] > 0}

Ops == {"none", "create", "update", "trash", "restore", "reprice"}

(* The transaction of a session.                                            *)
(*   seen        what the running statement read when it started            *)
(*   now, after  invoices whose status is still to be refreshed, in order   *)
(*   target      the invoice of the refresh statement that is running       *)
(*   shared      invoices whose row is held FOR KEY SHARE (foreign keys)    *)
(*   dirty, rows invoices whose row this transaction rewrote, and how       *)
Requests ==
  [op: Ops, at: {"idle", "lock", "work", "write"},
   pay: Payments \cup {NoPayment}, inv: Invoices \cup {NoInvoice},
   amount: Totals, alloc: Allocations, seen: Int,
   now: SUBSET Invoices, after: SUBSET Invoices,
   target: Invoices \cup {NoInvoice},
   shared: SUBSET Invoices, dirty: SUBSET Invoices, rows: [Invoices -> Rows]]

Idle ==
  [op |-> "none", at |-> "idle", pay |-> NoPayment, inv |-> NoInvoice,
   amount |-> 0, alloc |-> NoAlloc, seen |-> 0, now |-> {}, after |-> {},
   target |-> NoInvoice, shared |-> {}, dirty |-> {},
   rows |-> [j \in Invoices |-> BlankRow]]

(* A transaction names an invoice, one that edits a payment names a         *)
(* recorded one, and a pending refresh has its target.                      *)
WellFormed(r) ==
  /\ r.op = "none" <=> r.at = "idle"
  /\ r.op # "none" => r.inv # NoInvoice
  /\ r.at = "write" => r.target # NoInvoice
  /\ r.op \in {"update", "trash", "restore"} =>
       r.pay # NoPayment /\ payment[r.pay].state # "none"

TypeOK ==
  /\ invoice \in [Invoices -> InvoiceRows]
  /\ payment \in [Payments -> PaymentRows]
  /\ paid \in [Invoices -> Int]
  /\ req \in [Sessions -> Requests]
  /\ \A p \in Payments : payment[p].state # "none" => payment[p].invoice # NoInvoice
  /\ \A s \in Sessions : WellFormed(req[s])

Init ==
  /\ invoice = [j \in Invoices |-> [state |-> "absent", status |-> "DRAFT", total |-> 0]]
  /\ payment = [p \in Payments |-> [state |-> "none", invoice |-> NoInvoice,
                                    amount |-> 0, alloc |-> NoAlloc]]
  /\ paid = [j \in Invoices |-> 0]
  /\ req = [s \in Sessions |-> Idle]

-----------------------------------------------------------------------------
(* Row locks, read off the transactions that hold them.                     *)

(* Variant of ForUpdate: the SELECT without FOR UPDATE.                     *)
ForUpdateNone(s) == {}

(* SELECT ... FOR UPDATE of lockInvoiceForPayment, held until COMMIT.       *)
ForUpdate(s) ==
  IF req[s].op = "create" /\ req[s].at # "lock" THEN {req[s].inv} ELSE {}

Written(s) == req[s].dirty

HoldsPayment(s, p) == req[s].op \in {"update", "trash", "restore"} /\ req[s].pay = p

(* Who keeps session s from rewriting, referencing or locking invoice j.    *)
WriteBlockers(s, j) == {t \in Sessions \ {s} : j \in Written(t) \cup ForUpdate(t)}
ShareBlockers(s, j) == {t \in Sessions \ {s} : j \in ForUpdate(t)}
LockBlockers(s, j)  == {t \in Sessions \ {s} : j \in Written(t) \cup ForUpdate(t) \cup req[t].shared}

MayWrite(s, j) == WriteBlockers(s, j) = {}
MayShare(s, j) == ShareBlockers(s, j) = {}
MayLock(s, j)  == LockBlockers(s, j) = {}

(* No transaction holds the row: a one-statement request goes through.      *)
Unlocked(j) == \A t \in Sessions : j \notin Written(t) \cup ForUpdate(t)

PaymentFree(p) == \A t \in Sessions : ~HoldsPayment(t, p)

-----------------------------------------------------------------------------
(* What a statement of a transaction sees.                                  *)

(* The change of paid_amount that the transaction publishes at COMMIT.      *)
Delta(r, j) ==
  CASE r.op \in {"create", "restore"} -> r.alloc[j]
    [] r.op = "trash"                 -> -r.alloc[j]
    [] OTHER                          -> 0

(* Variant of PaidSeenBy: the statement runs outside the transaction        *)
(* (this.db.query instead of client.query) and misses its payment.          *)
PaidSeenByOutside(s, j) == paid[j]

(* paid_amount of invoice j as the transaction's next statement reads it.   *)
PaidSeenBy(s, j) == paid[j] + Delta(req[s], j)

(* remaining_amount of the view: GREATEST(total - paid, 0).                 *)
Remaining(j) ==
  IF invoice[j].total > paid[j] THEN invoice[j].total - paid[j] ELSE 0

(* The row a statement of session s finds once it owns the row lock.        *)
CurrentRow(s, j) ==
  IF j \in req[s].dirty THEN req[s].rows[j]
  ELSE [status |-> invoice[j].status, total |-> invoice[j].total]

(* Variants of RefreshedStatus: OVERDUE, a display status, is stored; a      *)
(* cancellation does not survive the refresh.                               *)
RefreshedStatusOverdue(row, paidAmount) ==
  IF row.status \in {"DRAFT", "CANCELLED"} THEN row.status
  ELSE IF paidAmount <= 0 THEN "OVERDUE"
  ELSE IF paidAmount < row.total THEN "PARTIAL"
  ELSE "PAID"
RefreshedStatusReopens(row, paidAmount) ==
  IF row.status = "DRAFT" THEN row.status
  ELSE IF paidAmount <= 0 THEN "UNPAID"
  ELSE IF paidAmount < row.total THEN "PARTIAL"
  ELSE "PAID"

(* refreshStatus: the CASE expression, over the locked row and the amount   *)
(* the statement read when it started.                                      *)
RefreshedStatus(row, paidAmount) ==
  IF row.status \in {"DRAFT", "CANCELLED"} THEN row.status
  ELSE IF paidAmount <= 0 THEN "UNPAID"
  ELSE IF paidAmount < row.total THEN "PARTIAL"
  ELSE "PAID"

Targets(r) == IF r.now # {} THEN r.now ELSE r.after

-----------------------------------------------------------------------------
(* Invoice endpoints.                                                       *)

(* InvoicesService.create, for the statuses the form offers.                *)
CreateInvoice(j, status, total) ==
  /\ "createInvoice" \in Endpoints
  /\ invoice[j].state = "absent"
  /\ invoice' = [invoice EXCEPT ![j] = [state |-> "live", status |-> status, total |-> total]]
  /\ UNCHANGED <<payment, paid, req>>

(* InvoicesService.update: the items and the total are replaced, whatever   *)
(* was paid, then the status is refreshed in the same transaction.          *)
UpdateInvoice(s, j, total) ==
  /\ "updateInvoice" \in Endpoints
  /\ req[s] = Idle
  /\ invoice[j].state = "live"
  /\ MayWrite(s, j)
  /\ req' = [req EXCEPT ![s] =
       [Idle EXCEPT !.op = "reprice", !.at = "work", !.inv = j, !.now = {j},
                    !.dirty = {j},
                    !.rows[j] = [status |-> invoice[j].status, total |-> total]]]
  /\ UNCHANGED <<invoice, payment, paid>>

(* InvoicesService.validate: the guarded UPDATE of a draft.                 *)
ValidateInvoice(j) ==
  /\ "validateInvoice" \in Endpoints
  /\ invoice[j].state = "live" /\ invoice[j].status = "DRAFT"
  /\ Unlocked(j)
  /\ invoice' = [invoice EXCEPT ![j].status = "UNPAID"]
  /\ UNCHANGED <<payment, paid, req>>

(* InvoicesService.cancel: any invoice that is not deleted.                 *)
CancelInvoice(j) ==
  /\ "cancelInvoice" \in Endpoints
  /\ invoice[j].state = "live"
  /\ Unlocked(j)
  /\ invoice' = [invoice EXCEPT ![j].status = "CANCELLED"]
  /\ UNCHANGED <<payment, paid, req>>

(* InvoicesService.remove: soft delete, payments untouched.                 *)
RemoveInvoice(j) ==
  /\ "removeInvoice" \in Endpoints
  /\ invoice[j].state = "live"
  /\ Unlocked(j)
  /\ invoice' = [invoice EXCEPT ![j].state = "deleted"]
  /\ UNCHANGED <<payment, paid, req>>

-----------------------------------------------------------------------------
(* Payment endpoints.                                                       *)

(* allocationsFromDto: the list of the request, or the whole amount on the  *)
(* primary invoice.                                                         *)
AllocationChoices(j, amount) ==
  IF SplitAllowed
  THEN {f \in Allocations : Allocated(f) # {}}
  ELSE {[k \in Invoices |-> IF k = j THEN amount ELSE 0]}

(* Variant of CreatePayment: the payment row is inserted before the invoice *)
(* is locked, so that two requests share the row and then both upgrade.     *)
CreatePaymentInsertFirst(s, p, j, amount, alloc) ==
  /\ "createPayment" \in Endpoints
  /\ req[s] = Idle
  /\ payment[p].state = "none"
  /\ \A t \in Sessions : req[t].pay # p
  /\ invoice[j].state = "live"
  /\ MayShare(s, j)
  /\ req' = [req EXCEPT ![s] =
       [Idle EXCEPT !.op = "create", !.at = "lock", !.pay = p, !.inv = j,
                    !.amount = amount, !.alloc = alloc, !.seen = Remaining(j),
                    !.shared = {j}]]
  /\ UNCHANGED <<invoice, payment, paid>>

(* PaymentsService.create starts: the locking SELECT reads remaining_amount *)
(* from the view, then waits for the invoice row.                           *)
CreatePayment(s, p, j, amount, alloc) ==
  /\ "createPayment" \in Endpoints
  /\ req[s] = Idle
  /\ payment[p].state = "none"
  /\ \A t \in Sessions : req[t].pay # p
  /\ invoice[j].state = "live"
  /\ \A k \in Allocated(alloc) : invoice[k].state # "absent"
  /\ req' = [req EXCEPT ![s] =
       [Idle EXCEPT !.op = "create", !.at = "lock", !.pay = p, !.inv = j,
                    !.amount = amount, !.alloc = alloc, !.seen = Remaining(j)]]
  /\ UNCHANGED <<invoice, payment, paid>>

(* Variants of PaymentAcceptable: the status, or the amount, is not checked. *)
PaymentAcceptableAnyStatus(r) ==
  /\ invoice[r.inv].state = "live"
  /\ r.seen > 0
  /\ r.amount <= r.seen + Tolerance
PaymentAcceptableAnyAmount(r) ==
  /\ invoice[r.inv].state = "live"
  /\ r.seen > 0
  /\ invoice[r.inv].status # "PAID"

(* The checks of create, on the row as locked and the balance as read.      *)
PaymentAcceptable(r) ==
  /\ invoice[r.inv].state = "live"
  /\ r.seen > 0
  /\ invoice[r.inv].status # "PAID"
  /\ r.amount <= r.seen + Tolerance

AcceptPayment(s) ==
  /\ req[s].at = "lock"
  /\ MayLock(s, req[s].inv)
  /\ PaymentAcceptable(req[s])
  /\ req' = [req EXCEPT ![s] =
       [@ EXCEPT !.at = "work", !.seen = 0,
                 !.now = Allocated(req[s].alloc), !.after = {req[s].inv}]]
  /\ UNCHANGED <<invoice, payment, paid>>

(* Variant of RejectPayment: a refusal that never reaches ROLLBACK.         *)
RejectPaymentHangs(s) == req[s].at = "lock" /\ FALSE /\ UNCHANGED vars

RejectPayment(s) ==
  /\ req[s].at = "lock"
  /\ MayLock(s, req[s].inv)
  /\ ~PaymentAcceptable(req[s])
  /\ req' = [req EXCEPT ![s] = Idle]
  /\ UNCHANGED <<invoice, payment, paid>>

(* PaymentsService.update: the payment row only; payment_allocations keep   *)
(* the invoice and the amount they had.  Only the new invoice is refreshed. *)
UpdatePayment(s, p, j, amount) ==
  /\ "updatePayment" \in Endpoints
  /\ req[s] = Idle
  /\ payment[p].state # "none"
  /\ PaymentFree(p)
  /\ invoice[j].state # "absent"
  /\ req' = [req EXCEPT ![s] =
       [Idle EXCEPT !.op = "update", !.at = "work", !.pay = p, !.inv = j,
                    !.amount = amount, !.now = {j}]]
  /\ UNCHANGED <<invoice, payment, paid>>

(* Variants of FlipPayment: deleted_at is not looked at; only the payment's *)
(* own invoice is refreshed.                                                *)
FlipPaymentTwice(s, p, op, from) ==
  /\ req[s] = Idle
  /\ PaymentFree(p)
  /\ payment[p].state # "none"
  /\ req' = [req EXCEPT ![s] =
       [Idle EXCEPT !.op = op, !.at = "work", !.pay = p,
                    !.inv = payment[p].invoice, !.alloc = payment[p].alloc,
                    !.now = {payment[p].invoice}]]
  /\ UNCHANGED <<invoice, payment, paid>>
FlipPaymentPrimaryOnly(s, p, op, from) ==
  /\ req[s] = Idle
  /\ PaymentFree(p)
  /\ payment[p].state = from
  /\ req' = [req EXCEPT ![s] =
       [Idle EXCEPT !.op = op, !.at = "work", !.pay = p,
                    !.inv = payment[p].invoice, !.alloc = payment[p].alloc,
                    !.now = {payment[p].invoice}]]
  /\ UNCHANGED <<invoice, payment, paid>>

(* trashPaymentInTransaction and restorePaymentInTransaction: lock the      *)
(* payment, flip its rows, refresh its invoice and then those it is         *)
(* allocated to.                                                            *)
FlipPayment(s, p, op, from) ==
  /\ req[s] = Idle
  /\ PaymentFree(p)
  /\ payment[p].state = from
  /\ req' = [req EXCEPT ![s] =
       [Idle EXCEPT !.op = op, !.at = "work", !.pay = p,
                    !.inv = payment[p].invoice, !.alloc = payment[p].alloc,
                    !.now = {payment[p].invoice},
                    !.after = Allocated(payment[p].alloc) \ {payment[p].invoice}]]
  /\ UNCHANGED <<invoice, payment, paid>>

TrashPayment(s, p) ==
  /\ "trashPayment" \in Endpoints
  /\ FlipPayment(s, p, "trash", "active")

RestorePayment(s, p) ==
  /\ "restorePayment" \in Endpoints
  /\ FlipPayment(s, p, "restore", "trashed")

-----------------------------------------------------------------------------
(* The statements a running transaction executes.                           *)

(* The refresh of invoice j starts: it reads the view.  In create and       *)
(* update a row that references j was written just before, which takes      *)
(* j FOR KEY SHARE.  The view has no row for a deleted invoice.             *)
BeginRefresh(s, j) ==
  LET r    == req[s]
      live == invoice[j].state = "live"
      inserted == r.op \in {"create", "update"}
  IN /\ r.at = "work"
     /\ j \in Targets(r)
     /\ inserted => MayShare(s, j)
     /\ req' = [req EXCEPT ![s] =
          [r EXCEPT !.now = r.now \ {j},
                    !.after = IF r.now = {} THEN r.after \ {j} ELSE r.after,
                    !.shared = IF inserted THEN r.shared \cup {j} ELSE r.shared,
                    !.at = IF live THEN "write" ELSE "work",
                    !.target = IF live THEN j ELSE NoInvoice,
                    !.seen = IF live THEN PaidSeenBy(s, j) ELSE 0]]
     /\ UNCHANGED <<invoice, payment, paid>>

(* The refresh obtains the row lock and rewrites the status.                *)
WriteRefresh(s) ==
  LET r   == req[s]
      j   == r.target
      row == CurrentRow(s, j)
  IN /\ r.at = "write"
     /\ MayWrite(s, j)
     /\ req' = [req EXCEPT ![s] =
          [r EXCEPT !.at = "work", !.target = NoInvoice, !.seen = 0,
                    !.dirty = r.dirty \cup {j},
                    !.rows = [r.rows EXCEPT
                      ![j] = [row EXCEPT !.status = RefreshedStatus(row, r.seen)]]]]
     /\ UNCHANGED <<invoice, payment, paid>>

(* The payment row a transaction publishes.                                 *)
PaymentAfter(r, old) ==
  CASE r.op = "create"  -> [state |-> "active", invoice |-> r.inv,
                            amount |-> r.amount, alloc |-> r.alloc]
    [] r.op = "trash"   -> [old EXCEPT !.state = "trashed"]
    [] r.op = "restore" -> [old EXCEPT !.state = "active"]
    [] r.op = "update" /\ old.state = "active"
                        -> [old EXCEPT !.invoice = r.inv, !.amount = r.amount]
    [] OTHER            -> old

Commit(s) ==
  LET r == req[s]
  IN /\ r.at = "work" /\ r.now = {} /\ r.after = {}
     /\ invoice' = [j \in Invoices |->
          IF j \in r.dirty
          THEN [invoice[j] EXCEPT !.status = r.rows[j].status, !.total = r.rows[j].total]
          ELSE invoice[j]]
     /\ payment' = [p \in Payments |->
          IF p = r.pay THEN PaymentAfter(r, payment[p]) ELSE payment[p]]
     /\ paid' = [j \in Invoices |-> paid[j] + Delta(r, j)]
     /\ req' = [req EXCEPT ![s] = Idle]

(* ROLLBACK after any error: no open cash session in the ventilation, a     *)
(* lost connection, a bank account that is not usable.                      *)
Rollback(s) ==
  /\ req[s] # Idle
  /\ req' = [req EXCEPT ![s] = Idle]
  /\ UNCHANGED <<invoice, payment, paid>>

-----------------------------------------------------------------------------
(* Waiting.  The client chooses the order of its allocations, so a session  *)
(* may be waiting on any of its next targets.                               *)
Blockers(s) ==
  LET r == req[s]
  IN CASE r.at = "lock"  -> LockBlockers(s, r.inv)
       [] r.at = "write" -> WriteBlockers(s, r.target)
       [] r.at = "work" /\ r.op \in {"create", "update"}
                         -> UNION {ShareBlockers(s, j) : j \in Targets(r)}
       [] OTHER          -> {}

(* Session s cannot take any step before one of the others ends.            *)
Stuck(s) ==
  \/ req[s].at \in {"lock", "write"} /\ Blockers(s) # {}
  \/ /\ req[s].at = "work" /\ Targets(req[s]) # {}
     /\ req[s].op \in {"create", "update"}
     /\ \A j \in Targets(req[s]) : ~MayShare(s, j)

(* The lock manager's deadlock check (deadlock_timeout): it ends one of a   *)
(* set of sessions that only wait for one another.                          *)
DeadlockVictim(s) ==
  /\ \E S \in SUBSET Sessions :
       /\ s \in S
       /\ \A t \in S : Stuck(t) /\ Blockers(t) \subseteq S
  /\ req' = [req EXCEPT ![s] = Idle]
  /\ UNCHANGED <<invoice, payment, paid>>

Step(s) ==
  \/ AcceptPayment(s)
  \/ RejectPayment(s)
  \/ \E j \in Invoices : BeginRefresh(s, j)
  \/ WriteRefresh(s)
  \/ Commit(s)

Request(s) ==
  \/ \E j \in Invoices, total \in Prices : UpdateInvoice(s, j, total)
  \/ \E p \in Payments, j \in Invoices, a \in Amounts :
        \E alloc \in AllocationChoices(j, a) : CreatePayment(s, p, j, a, alloc)
  \/ \E p \in Payments, j \in Invoices, a \in Amounts : UpdatePayment(s, p, j, a)
  \/ \E p \in Payments : TrashPayment(s, p) \/ RestorePayment(s, p)

InvoiceRequest(j) ==
  \/ \E status \in {"DRAFT", "UNPAID"}, total \in Prices : CreateInvoice(j, status, total)
  \/ ValidateInvoice(j)
  \/ CancelInvoice(j)
  \/ RemoveInvoice(j)

Next ==
  \/ \E j \in Invoices : InvoiceRequest(j)
  \/ \E s \in Sessions : Request(s) \/ Step(s) \/ Rollback(s) \/ DeadlockVictim(s)

Spec == Init /\ [][Next]_vars

(* A running transaction goes on; waiters are served in the order of the    *)
(* lock queue, so a lock that keeps being released is obtained in the end.  *)
Fairness ==
  \A s \in Sessions : /\ SF_vars(Step(s))
                      /\ WF_vars(DeadlockVictim(s))

FairSpec == Spec /\ Fairness

-----------------------------------------------------------------------------
(* Properties.                                                              *)

(* Every status shown is the one the amounts call for ("Mise a jour         *)
(* automatique du statut facture"): drafts and cancellations aside, a live  *)
(* invoice is UNPAID, PARTIAL or PAID according to the allocations that are *)
(* not deleted.  refreshStatus must leave it so whatever runs beside it.    *)
StatusMatchesPaid ==
  \A j \in Invoices :
    invoice[j].state = "live" =>
      invoice[j].status = RefreshedStatus(invoice[j], paid[j])

(* Bookkeeping of amounts: what the view sums for an invoice is the total   *)
(* of the allocations of its active payments, so no trash or restore counts *)
(* a payment twice or leaves one behind, whatever runs at the same time.    *)
ActiveOn(j) ==
  [p \in Payments |-> IF payment[p].state = "active" THEN payment[p].alloc[j] ELSE 0]
PaidIsSumOfActive == \A j \in Invoices : paid[j] = SumFunctionOnSet(ActiveOn(j), Payments)

(* A payment is never added to an invoice that is already settled: create   *)
(* re-reads the status under the row lock and keeps the lock to the end     *)
(* ("Cette facture est deja soldee").                                       *)
NewPayment(p) == payment[p].state = "none" /\ payment'[p].state = "active"
NoPaymentOnSettled ==
  [][\A p \in Payments : NewPayment(p) =>
        LET j == payment'[p].invoice
        IN invoice[j].state = "live" /\ invoice[j].status # "PAID"]_vars

(* A new payment never exceeds the balance of its invoice at the moment it  *)
(* is recorded, the tolerance aside ("Le paiement depasse le restant du").  *)
WithinBalance ==
  [][\A p \in Payments : NewPayment(p) =>
        payment'[p].amount <= Remaining(payment'[p].invoice) + Tolerance]_vars

(* CANCELLED is final, and a draft only leaves its state by validation or   *)
(* cancellation: a status computed before the change never overwrites it.   *)
StickyStatus ==
  [][\A j \in Invoices :
        /\ invoice[j].status = "CANCELLED" => invoice'[j].status = "CANCELLED"
        /\ (invoice[j].state = "live" /\ invoice[j].status = "DRAFT"
              /\ invoice'[j].status # "DRAFT") => req' = req]_vars

(* Row locks are taken in an order that never closes a cycle of waiting     *)
(* sessions, as long as a payment names one invoice.                        *)
NoLockCycle ==
  \A S \in SUBSET Sessions :
    S # {} => \E s \in S : Blockers(s) \cap S = {}

(* A payment and its payment_allocations tell the same story: the invoice   *)
(* and the amount of the row are those of its allocation ("Payments update  *)
(* invoice balances").                                                      *)
PaymentMatchesAllocation ==
  \A p \in Payments :
    payment[p].state = "active" =>
      payment[p].alloc = [k \in Invoices |-> IF k = payment[p].invoice
                                              THEN payment[p].amount ELSE 0]

(* Every request ends, committed, refused, rolled back or as the victim of  *)
(* the deadlock check.                                                      *)
RequestsEnd == \A s \in Sessions : req[s] # Idle ~> req[s] = Idle

(* What the lists and the views show: the row of a deleted invoice is       *)
(* hidden, so a refresh that still rewrites its status has no effect.       *)
VisibleInvoice ==
  [j \in Invoices |->
     IF invoice[j].state = "deleted"
     THEN [state |-> "deleted", status |-> "DRAFT", total |-> 0]
     ELSE invoice[j]]

(* The ledger implements the abstract one, where every endpoint takes one   *)
(* step and refreshes what it touches: the step is the COMMIT.              *)
Account == INSTANCE InvoiceAccount WITH invoice <- VisibleInvoice
ImplementsAccount == Account!Spec
=============================================================================

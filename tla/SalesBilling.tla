------------------------------ MODULE SalesBilling ------------------------------
(***************************************************************************)
(* The installments of subscriptions in sales-financials.service.ts and    *)
(* sales-automation.service.ts: the invoice of each installment, made by   *)
(* hand or by the daily automation, its payments, their cancellation and   *)
(* refund, and the amounts that the invoice keeps of them.                 *)
(*                                                                         *)
(* No request locks the invoice.  Documents are numbered from a row of     *)
(* sales_number_sequences per kind, and that row, updated before anything  *)
(* is inserted, is held to COMMIT: it makes the payments queue, and the    *)
(* refunds, and the invoices, but not one kind behind another.             *)
(***************************************************************************)
EXTENDS SalesBooks

CONSTANTS
  Sessions,       \* concurrent requests of users
  Scheduler,      \* the process that runs the automation
  Subscriptions,
  SubscriptionOf, \* the subscription of each installment
  DueDay,         \* the day from which the automation invoices it
  MaxAmount,      \* bound: the largest payment or refund
  LastDue,        \* bound: no installment is due after it
  Endpoints       \* which endpoints the clients call

AllEndpoints ==
  {"invoice", "issue", "cancelInvoice", "pay", "cancelPayment", "refund", "run"}

VARIABLES
  subscription,  \* status of each subscription
  day,           \* the date, which stays at LastDue once nothing more falls due
  done,          \* the automation has a run of that date with status SUCCESS
  req            \* the transaction each session is running

vars == <<subscription, invoice, receipt, day, done, req>>

InvoiceStates == {"DRAFT", "ISSUED", "PARTIALLY_PAID", "PAID", "OVERDUE", "CANCELLED"}
InvoiceRows ==
  [state: InvoiceStates \cup {"none"}, paid: Nat, refunded: Nat, balance: Nat]
PaymentRows ==
  [state: {"none", "CONFIRMED", "CANCELLED"}, of: Installments \cup {0}, amount: 0..MaxAmount,
   refunded: Nat]
Locks ==
  ({"sequence"} \X {"invoice", "pay", "refund"}) \cup ({"payment"} \X Receipts)
    \cup ({"subscription"} \X Subscriptions) \cup ({"installment"} \X Installments)
NotRead == <<>>
Requests ==
  [op: AllEndpoints \cup {"none"}, stage: 0..3, of: Installments \cup {0}, id: Receipts \cup {0},
   amount: 0..MaxAmount, row: InvoiceRows \cup PaymentRows \cup {NotRead}, sums: Nat \X Nat,
   todo: SUBSET Installments, made: SUBSET Installments, today: BOOLEAN, held: SUBSET Locks]
Idle ==
  [op |-> "none", stage |-> 0, of |-> 0, id |-> 0, amount |-> 0, row |-> NotRead, sums |-> <<0, 0>>,
   todo |-> {}, made |-> {}, today |-> FALSE, held |-> {}]
Actors == Sessions \cup {Scheduler}

TypeOK ==
  /\ subscription \in [Subscriptions -> {"SUBMITTED", "APPROVED", "REJECTED"}]
  /\ invoice \in [Installments -> InvoiceRows]
  /\ receipt \in [Receipts -> PaymentRows]
  /\ day \in 0..LastDue /\ done \in BOOLEAN
  /\ req \in [Actors -> Requests]

Init ==
  /\ subscription = [u \in Subscriptions |-> "SUBMITTED"]
  /\ invoice = [i \in Installments |-> [state |-> "none", paid |-> 0, refunded |-> 0, balance |-> 0]]
  /\ receipt = [p \in Receipts |-> [state |-> "none", of |-> 0, amount |-> 0, refunded |-> 0]]
  /\ day = 0 /\ done = FALSE
  /\ req = [s \in Actors |-> Idle]

-----------------------------------------------------------------------------
AtLeast0(n) == IF n > 0 THEN n ELSE 0

Due == {i \in Installments : DueDay[i] <= day}
NewInvoice(i) == [state |-> "DRAFT", paid |-> 0, refunded |-> 0, balance |-> Owed[i]]

(* Variant of Refreshed: a balance below zero.                              *)
RefreshedUnclamped(i, row, sums) ==
  LET balance == Owed[i] - (sums[1] - sums[2])
  IN [state |-> IF row.state = "CANCELLED" THEN "CANCELLED" ELSE IF balance <= 0 THEN "PAID"
                ELSE IF sums[1] - sums[2] > 0 THEN "PARTIALLY_PAID"
                ELSE IF DueDay[i] < day THEN "OVERDUE" ELSE "ISSUED",
      paid |-> sums[1], refunded |-> sums[2], balance |-> balance]

(* refreshInvoiceAggregates, once the payments are summed.                  *)
Refreshed(i, row, sums) ==
  LET balance == Balance(i, sums[1], sums[2])
  IN [state |-> IF row.state = "CANCELLED" THEN "CANCELLED" ELSE IF balance <= 0 THEN "PAID"
                ELSE IF sums[1] - sums[2] > 0 THEN "PARTIALLY_PAID"
                ELSE IF DueDay[i] < day THEN "OVERDUE" ELSE "ISSUED",
      paid |-> sums[1], refunded |-> sums[2], balance |-> balance]

-----------------------------------------------------------------------------
(* Variant of Numbering: MAX + 1 instead of a row that is updated.          *)
NumberingUnlocked(r) == {}

(* nextSequenceValue                                                        *)
Numbering(r) ==
  CASE r.op \in {"pay", "refund"} -> {<<"sequence", r.op>>}
    [] r.op \in {"invoice", "run"} -> {<<"sequence", "invoice">>}
    [] OTHER -> {}

(* What the next statement of a request waits for: a document number, the   *)
(* payment that it updates, or the rows that an automation run holds.       *)
Wanted(r) ==
  CASE r.op \in {"pay", "refund", "invoice"} /\ r.stage = 1 -> Numbering(r)
    [] r.op = "cancelPayment" /\ r.stage = 1 -> {<<"payment", r.id>>}
    [] OTHER -> {}

Free(s, rows) == \A t \in Actors \ {s} : req[t].held \cap rows = {}
Runs(s, op, stage) == req[s].op = op /\ req[s].stage = stage /\ Free(s, Wanted(req[s]))

Advance(s, next) ==
  /\ req' = [req EXCEPT ![s] = [next EXCEPT !.stage = @ + 1, !.held = @ \cup Wanted(req[s])]]
  /\ UNCHANGED <<subscription, invoice, day, done>>

Commits(s, op, stage) ==
  /\ Runs(s, op, stage)
  /\ req' = [req EXCEPT ![s] = Idle]

(* requireInvoice, requireInvoicePayment, findActiveInvoiceByInstallment:   *)
(* plain reads.                                                             *)
ReadRow(s) ==
  LET r == req[s]
  IN /\ UNCHANGED receipt
     /\ \/ \E op \in {"invoice", "issue", "cancelInvoice", "pay"} :
             Runs(s, op, 0) /\ Advance(s, [r EXCEPT !.row = invoice[r.of]])
        \/ \E op \in {"cancelPayment", "refund"} :
             Runs(s, op, 0) /\ Advance(s, [r EXCEPT !.row = receipt[r.id]])

-----------------------------------------------------------------------------
(* Payments: the row is written, the payments of the invoice are summed,    *)
(* and the sums are stored.                                                 *)

(* Variant of Allowed: each payment is compared with the whole amount.      *)
AllowedOfTotal(r) ==
  CASE r.op = "pay"           -> r.row.state # "CANCELLED" /\ r.amount <= Owed[r.of]
    [] r.op = "cancelPayment" -> r.row.state # "CANCELLED" /\ r.row.refunded = 0
    [] r.op = "refund"        -> r.amount <= AtLeast0(r.row.amount - r.row.refunded)

(* The guards of createInvoicePayment, overpayment being off, of            *)
(* resolvePaymentCancellationBlock and of computeRefundableAmount, which    *)
(* does not look at the status.                                             *)
Allowed(r) ==
  CASE r.op = "pay"           -> r.row.state # "CANCELLED" /\ r.amount <= r.row.balance
    [] r.op = "cancelPayment" -> r.row.state # "CANCELLED" /\ r.row.refunded = 0
    [] r.op = "refund"        -> r.amount <= AtLeast0(r.row.amount - r.row.refunded)

Changed(r) ==
  CASE r.op = "pay" ->
         [receipt EXCEPT ![r.id] =
           [state |-> "CONFIRMED", of |-> r.of, amount |-> r.amount, refunded |-> 0]]
    [] r.op = "cancelPayment" -> [receipt EXCEPT ![r.id].state = "CANCELLED"]
    [] r.op = "refund"        -> [receipt EXCEPT ![r.id].refunded = @ + r.amount]

(* Sums that a transaction reads: what is committed, and its own row.       *)
SumPayments(s) ==
  LET r == req[s]
  IN /\ \E op \in {"pay", "cancelPayment", "refund"} : Runs(s, op, 1)
     /\ Allowed(r)
     /\ r.op = "pay" => receipt[r.id].state = "none"
     /\ Advance(s, [r EXCEPT !.sums = <<Paid(r.of, Changed(r)), Refunded(r.of, Changed(r))>>])
     /\ UNCHANGED receipt

(* createInvoicePayment, cancelInvoicePayment and refundInvoicePayment end  *)
(* with the aggregates, which sales_invoices_paid_refunded_check may refuse.*)
StorePayment(s) ==
  LET r == req[s]
  IN /\ \E op \in {"pay", "cancelPayment", "refund"} : Commits(s, op, 2)
     /\ r.sums[1] >= r.sums[2]
     /\ receipt' = Changed(r)
     /\ invoice' = [invoice EXCEPT ![r.of] = Refreshed(r.of, @, r.sums)]
     /\ UNCHANGED <<subscription, day, done>>

-----------------------------------------------------------------------------
(* Invoices.                                                                *)
IssueInvoice(s) ==
  LET r == req[s]
  IN /\ Commits(s, "issue", 1)
     /\ r.row.state # "CANCELLED"
     /\ invoice' = [invoice EXCEPT ![r.of].state = IF invoice[r.of].balance <= 0 THEN "PAID" ELSE "ISSUED"]
     /\ UNCHANGED <<subscription, receipt, day, done>>

CancelInvoice(s) ==
  LET r == req[s]
  IN /\ Commits(s, "cancelInvoice", 1)
     /\ r.row.state # "PAID" /\ r.row.paid = 0
     /\ invoice' = [invoice EXCEPT ![r.of].state = "CANCELLED"]
     /\ UNCHANGED <<subscription, receipt, day, done>>

(* generateInvoice by hand; the index on the generation key refuses a       *)
(* second row, that of a cancelled invoice included.                        *)
GenerateInvoice(s) ==
  LET r == req[s]
  IN /\ Commits(s, "invoice", 1)
     /\ subscription[SubscriptionOf[r.of]] = "APPROVED"
     /\ r.row.state \in {"none", "CANCELLED"} /\ invoice[r.of].state = "none"
     /\ invoice' = [invoice EXCEPT ![r.of] = NewInvoice(r.of)]
     /\ UNCHANGED <<subscription, receipt, day, done>>

-----------------------------------------------------------------------------
(* The automation: runScheduledInstallmentsForOrganization.                 *)

(* resolveRunGate: a SUCCESS of that date blocks it.                        *)
StartRun(s) ==
  /\ "run" \in Endpoints /\ s = Scheduler
  /\ req[s] = Idle /\ ~done
  /\ req' = [req EXCEPT ![s] =
       [Idle EXCEPT !.op = "run", !.today = TRUE,
          !.todo = {i \in Due : /\ subscription[SubscriptionOf[i]] \in {"SUBMITTED", "APPROVED"}
                                /\ invoice[i].state \in {"none", "CANCELLED"}}]]
  /\ UNCHANGED <<subscription, invoice, receipt, day, done>>

First(ids) == CHOOSE i \in ids : \A j \in ids : DueDay[i] < DueDay[j] \/ (DueDay[i] = DueDay[j] /\ i <= j)

(* lockInstallmentForAutomation, and the skips that follow.                 *)
Skipped(i) ==
  \/ subscription[SubscriptionOf[i]] \notin {"SUBMITTED", "APPROVED"}
  \/ invoice[i].state \notin {"none", "CANCELLED"}

RunInstallment(s) ==
  LET r == req[s]
      i == First(r.todo)
      rows == {<<"installment", i>>, <<"subscription", SubscriptionOf[i]>>}
  IN /\ r.op = "run" /\ r.todo # {}
     /\ Free(s, rows)
     /\ \/ /\ Skipped(i)
           /\ req' = [req EXCEPT ![s] = [r EXCEPT !.todo = @ \ {i}, !.held = @ \cup rows]]
        \/ /\ ~Skipped(i) /\ Free(s, Numbering(r))
           /\ subscription[SubscriptionOf[i]] = "APPROVED" /\ invoice[i].state = "none"
           /\ req' = [req EXCEPT ![s] =
                [r EXCEPT !.todo = @ \ {i}, !.made = @ \cup {i}, !.held = @ \cup rows \cup Numbering(r)]]
     /\ UNCHANGED <<subscription, invoice, receipt, day, done>>

(* What generateInvoiceForAutomation refuses, a subscription that is not    *)
(* approved or the key of a cancelled invoice, ends the whole run.          *)
FailRun(s) ==
  LET r == req[s]
      i == First(r.todo)
  IN /\ r.op = "run" /\ r.todo # {}
     /\ ~Skipped(i)
     /\ subscription[SubscriptionOf[i]] # "APPROVED" \/ invoice[i].state # "none"
     /\ req' = [req EXCEPT ![s] = Idle]
     /\ UNCHANGED <<subscription, invoice, receipt, day, done>>

FinishRun(s) ==
  LET r == req[s]
  IN /\ r.op = "run" /\ r.todo = {}
     /\ invoice' = [i \in Installments |-> IF i \in r.made THEN NewInvoice(i) ELSE invoice[i]]
     /\ done' = (done \/ r.today)
     /\ req' = [req EXCEPT ![s] = Idle]
     /\ UNCHANGED <<subscription, receipt, day>>

(* Variant of NextDay: one period key for all days.                         *)
NextDayKeepsRun ==
  /\ "run" \in Endpoints
  /\ day' = IF day < LastDue THEN day + 1 ELSE day
  /\ req' = [s \in Actors |-> [req[s] EXCEPT !.today = FALSE]]
  /\ UNCHANGED <<subscription, invoice, receipt, done>>

(* The period key of a run is its date.                                     *)
NextDay ==
  /\ "run" \in Endpoints
  /\ day' = IF day < LastDue THEN day + 1 ELSE day
  /\ done' = FALSE
  /\ req' = [s \in Actors |-> [req[s] EXCEPT !.today = FALSE]]
  /\ UNCHANGED <<subscription, invoice, receipt>>

-----------------------------------------------------------------------------
Begin(s, op, i, p, a) ==
  /\ op \in Endpoints /\ req[s] = Idle
  /\ req' = [req EXCEPT ![s] = [Idle EXCEPT !.op = op, !.of = i, !.id = p, !.amount = a]]
  /\ UNCHANGED <<subscription, invoice, receipt, day, done>>

Request(s) ==
  \/ \E i \in Installments, op \in {"invoice", "issue", "cancelInvoice"} :
       /\ op # "invoice" => invoice[i].state # "none"
       /\ Begin(s, op, i, 0, 0)
  \/ \E i \in Installments, p \in Receipts, a \in 1..MaxAmount :
       /\ invoice[i].state # "none" /\ receipt[p].state = "none"
       /\ Begin(s, "pay", i, p, a)
  \/ \E p \in Receipts, op \in {"cancelPayment", "refund"}, a \in 1..MaxAmount :
       /\ receipt[p].state # "none" /\ (op = "cancelPayment" => a = 1)
       /\ Begin(s, op, receipt[p].of, p, a)

(* changeSubscriptionStatus, which waits for a run that holds the row.      *)
Decide(u, status) ==
  /\ subscription[u] = "SUBMITTED"
  /\ <<"subscription", u>> \notin req[Scheduler].held
  /\ subscription' = [subscription EXCEPT ![u] = status]
  /\ UNCHANGED <<invoice, receipt, day, done, req>>

(* A refusal, a lost connection: ROLLBACK of a request of a user.           *)
Rollback(s) ==
  /\ req[s] # Idle
  /\ req' = [req EXCEPT ![s] = Idle]
  /\ UNCHANGED <<subscription, invoice, receipt, day, done>>

Automation == StartRun(Scheduler) \/ RunInstallment(Scheduler) \/ FailRun(Scheduler) \/ FinishRun(Scheduler)

Next ==
  \/ \E s \in Sessions :
       \/ Request(s) \/ ReadRow(s) \/ SumPayments(s) \/ StorePayment(s) \/ Rollback(s)
       \/ IssueInvoice(s) \/ CancelInvoice(s) \/ GenerateInvoice(s)
  \/ Automation \/ NextDay
  \/ \E u \in Subscriptions, status \in {"APPROVED", "REJECTED"} : Decide(u, status)

Spec == Init /\ [][Next]_vars

(* The scheduler ticks every five minutes, the days pass, and a request     *)
(* that has begun ends.                                                     *)
Fairness ==
  /\ WF_vars(Automation) /\ WF_vars(NextDay)
  /\ \A s \in Sessions : WF_vars(Rollback(s))

FairSpec == Spec /\ Fairness

-----------------------------------------------------------------------------
(* Properties.                                                              *)

(* An installment that is due, of an approved subscription, is invoiced,    *)
(* unless one that is due cannot be: of a subscription still to approve, or *)
(* whose invoice was cancelled (runSchedulerTick).                          *)
Obstructed ==
  \E j \in Due : subscription[SubscriptionOf[j]] = "SUBMITTED" \/ invoice[j].state = "CANCELLED"
DueIsInvoiced ==
  \A i \in Installments :
    (i \in Due /\ subscription[SubscriptionOf[i]] = "APPROVED")
      ~> (invoice[i].state # "none" \/ Obstructed)
=============================================================================

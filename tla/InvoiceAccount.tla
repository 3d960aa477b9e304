---------------------------- MODULE InvoiceAccount ----------------------------
(***************************************************************************)
(* What the invoice ledger promises: every endpoint takes effect at once,  *)
(* and the status of the invoices it touches follows from the amounts.     *)
(* There are no sessions, no locks and no stale reads here;                *)
(* PaymentLedger is shown to implement it where it does.                   *)
(***************************************************************************)
EXTENDS Integers

CONSTANTS Invoices, Payments, MaxTotal, NoInvoice

VARIABLES invoice, payment, paid

account == <<invoice, payment, paid>>

Totals == 0..MaxTotal

(* The status an invoice owes to what was paid on it.                       *)
Owed(row, amount) ==
  IF row.status \in {"DRAFT", "CANCELLED"} THEN row.status
  ELSE IF amount <= 0 THEN "UNPAID"
  ELSE IF amount < row.total THEN "PARTIAL"
  ELSE "PAID"

(* The invoices of S brought up to date with the amounts of "amounts".      *)
Refreshed(S, amounts) ==
  [j \in Invoices |->
     IF j \in S /\ invoice[j].state = "live"
     THEN [invoice[j] EXCEPT !.status = Owed(invoice[j], amounts[j])]
     ELSE invoice[j]]

Touched(p) == {payment[p].invoice} \cup {j \in Invoices : payment[p].alloc[j] > 0}

Init ==
  /\ invoice = [j \in Invoices |-> [state |-> "absent", status |-> "DRAFT", total |-> 0]]
  /\ payment = [p \in Payments |-> [state |-> "none", invoice |-> NoInvoice,
                                    amount |-> 0, alloc |-> [j \in Invoices |-> 0]]]
  /\ paid = [j \in Invoices |-> 0]

Issue(j, status, total) ==
  /\ invoice[j].state = "absent"
  /\ invoice' = [invoice EXCEPT ![j] = [state |-> "live", status |-> status, total |-> total]]
  /\ UNCHANGED <<payment, paid>>

Reprice(j, total) ==
  /\ invoice[j].state = "live"
  /\ invoice' = [invoice EXCEPT
       ![j].total = total,
       ![j].status = Owed([status |-> invoice[j].status, total |-> total], paid[j])]
  /\ UNCHANGED <<payment, paid>>

Validate(j) ==
  /\ invoice[j].state = "live" /\ invoice[j].status = "DRAFT"
  /\ invoice' = [invoice EXCEPT ![j].status = "UNPAID"]
  /\ UNCHANGED <<payment, paid>>

Cancel(j) ==
  /\ invoice[j].state = "live"
  /\ invoice' = [invoice EXCEPT ![j].status = "CANCELLED"]
  /\ UNCHANGED <<payment, paid>>

Remove(j) ==
  /\ invoice[j].state = "live"
  /\ invoice' = [invoice EXCEPT ![j] = [state |-> "deleted", status |-> "DRAFT", total |-> 0]]
  /\ UNCHANGED <<payment, paid>>

(* A payment is received on a live invoice that is not settled.             *)
Receive(p, j, amount, alloc) ==
  /\ payment[p].state = "none"
  /\ invoice[j].state = "live" /\ invoice[j].status # "PAID"
  /\ payment' = [payment EXCEPT ![p] = [state |-> "active", invoice |-> j,
                                        amount |-> amount, alloc |-> alloc]]
  /\ paid' = [k \in Invoices |-> paid[k] + alloc[k]]
  /\ invoice' = Refreshed({j} \cup {k \in Invoices : alloc[k] > 0}, paid')

Void(p) ==
  /\ payment[p].state = "active"
  /\ payment' = [payment EXCEPT ![p].state = "trashed"]
  /\ paid' = [k \in Invoices |-> paid[k] - payment[p].alloc[k]]
  /\ invoice' = Refreshed(Touched(p), paid')

Reinstate(p) ==
  /\ payment[p].state = "trashed"
  /\ payment' = [payment EXCEPT ![p].state = "active"]
  /\ paid' = [k \in Invoices |-> paid[k] + payment[p].alloc[k]]
  /\ invoice' = Refreshed(Touched(p), paid')

(* The payment row is edited; what is allocated stays where it was.  A      *)
(* request that finds the payment in the trash only refreshes the invoice.  *)
Amend(p, j, amount) ==
  /\ payment[p].state # "none"
  /\ payment' = IF payment[p].state = "active"
                THEN [payment EXCEPT ![p].invoice = j, ![p].amount = amount]
                ELSE payment
  /\ invoice' = Refreshed({j}, paid)
  /\ UNCHANGED paid

Next ==
  \/ \E j \in Invoices :
       \/ \E status \in {"DRAFT", "UNPAID"}, total \in Totals : Issue(j, status, total)
       \/ \E total \in Totals : Reprice(j, total)
       \/ Validate(j) \/ Cancel(j) \/ Remove(j)
  \/ \E p \in Payments :
       \/ Void(p) \/ Reinstate(p)
       \/ \E j \in Invoices, a \in 1..MaxTotal :
            \/ Amend(p, j, a)
            \/ \E alloc \in [Invoices -> Totals] : Receive(p, j, a, alloc)

Spec == Init /\ [][Next]_account
=============================================================================

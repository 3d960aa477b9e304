------------------------------- MODULE SalesBooks -------------------------------
(***************************************************************************)
(* The invoices of installments and their payments in                       *)
(* sales-financials.service.ts, and what they must agree on.  SalesBilling  *)
(* has the requests that read and write them.                               *)
(***************************************************************************)
EXTENDS Integers, Functions

CONSTANTS
  Installments,  \* rows of sales_subscription_installments
  Receipts,      \* rows of sales_invoice_payments
  Owed           \* the amount of each installment, positive

VARIABLES
  invoice,  \* the row of sales_invoices with the generation key of the installment
  receipt   \* rows of sales_invoice_payments, with their refunds

(* What some rows of payments are of an installment, paid and given back.   *)
Paid(i, records) ==
  SumFunctionOnSet([p \in Receipts |-> records[p].amount],
                   {p \in Receipts : records[p].of = i /\ records[p].state = "CONFIRMED"})
Refunded(i, records) ==
  SumFunctionOnSet([p \in Receipts |-> records[p].refunded], {p \in Receipts : records[p].of = i})

(* What is left to pay of an installment.                                   *)
Balance(i, paid, refunded) ==
  IF Owed[i] > paid - refunded THEN Owed[i] - (paid - refunded) ELSE 0

(* The amounts of an invoice are those of its payments and refunds,         *)
(* whichever payments are made at once (refreshInvoiceAggregates).          *)
InvoiceFollowsPayments ==
  \A i \in Installments :
    invoice[i].state # "none" =>
      /\ invoice[i].paid = Paid(i, receipt) /\ invoice[i].refunded = Refunded(i, receipt)
      /\ invoice[i].balance = Balance(i, Paid(i, receipt), Refunded(i, receipt))

(* What is kept of the payments never exceeds the installment, after any    *)
(* sequence of payments, cancellations and refunds ("Le paiement depasse le *)
(* solde restant").                                                         *)
KeptWithinOwed ==
  \A i \in Installments : Paid(i, receipt) - Refunded(i, receipt) <= Owed[i]
=============================================================================

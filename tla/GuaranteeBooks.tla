----------------------------- MODULE GuaranteeBooks ----------------------------
(***************************************************************************)
(* The rows of the guarantee of one lease, and what they must agree on.     *)
(* Guarantee has the requests that write them.                              *)
(***************************************************************************)
EXTENDS Integers, FiniteSets, FiniteSetsExt, Functions

CONSTANTS
  Receipts,   \* guarantee payments
  Refunds,    \* refunds
  Due,        \* the amount of the guarantee
  Ways        \* how refunds are paid: "cash", "bank"

ASSUME GuaranteeAssumption ==
  /\ IsFiniteSet(Receipts) /\ IsFiniteSet(Refunds) /\ Receipts \cap Refunds = {}
  /\ Due \in Nat /\ Ways \subseteq {"cash", "bank"}

VARIABLES
  paid,    \* lease_guarantees.paid_amount, copied to the lease
  status,  \* lease_guarantees.status
  row      \* the receipts (payments) and the refunds (movements)

Rows == Receipts \cup Refunds
Statuses == {"NOT_PAID", "PARTIAL", "PAID", "REFUNDED"}
RowRecords == [state: {"none", "live", "trashed"}, amount: Nat, way: {"cash", "bank"}]

RowsTypeOK ==
  /\ paid \in Nat /\ status \in Statuses
  /\ row \in [Rows -> RowRecords]

(* The amounts of the live rows among some.                                 *)
Total(rows, records) ==
  SumFunction([i \in rows |-> IF records[i].state = "live" THEN records[i].amount ELSE 0])

-----------------------------------------------------------------------------
(* Properties.                                                              *)

(* The amount shown as paid is what the receipts and refunds leave, however *)
(* they are added, refunded and removed (recalculateLeaseGuarantee...).     *)
PaidIsWhatRemains == paid = Total(Receipts, row) - Total(Refunds, row)

(* Payments never exceed the guarantee ("Le paiement depasse le montant     *)
(* restant de la garantie"), those made at once included.                   *)
PaymentsWithinDue ==
  [][\A p \in Receipts :
       (row[p].state = "none" /\ row'[p].state = "live")
         => (Total(Receipts, row) - Total(Refunds, row))' <= Due]_<<paid, status, row>>

(* The guarantee shown as paid is what its receipts and refunds leave,      *)
(* never more than was due, and payments made at once never exceed it.      *)
GuaranteeFollows == [](RowsTypeOK /\ PaidIsWhatRemains) /\ PaymentsWithinDue
=============================================================================

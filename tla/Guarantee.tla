------------------------------- MODULE Guarantee -------------------------------
(***************************************************************************)
(* The guarantee deposit of one lease in saas.service.ts: receipts that    *)
(* are paid in, refunds that are paid out of the guarantee cash or of the  *)
(* bank, and both put in the trash and restored.  lease_guarantees keeps   *)
(* the amount paid and a status beside the rows they follow from.          *)
(*                                                                         *)
(* Payments queue on one advisory lock and refunds on another; both read   *)
(* the guarantee over a second connection, outside their transaction, and  *)
(* write the new total back.  The trash locks the guarantee and adds the   *)
(* rows up again.                                                          *)
(***************************************************************************)
EXTENDS GuaranteeBooks

CONSTANTS
  Sessions,   \* concurrent requests
  MaxAmount,  \* bound: the largest receipt or refund
  Endpoints   \* which endpoints the clients call

AllEndpoints == {"pay", "refund", "trash", "restore"}

VARIABLE req   \* the transaction each session is running

vars == <<paid, status, row, req>>

Amounts == 1..MaxAmount
RowLocks == ({"pay", "refund", "guarantee"} \X {0}) \cup ({"row"} \X Rows)
Requests ==
  [op: AllEndpoints \cup {"none"}, stage: 0..2, id: Rows \cup {0}, amount: 0..MaxAmount,
   way: {"cash", "bank"}, seen: Nat, held: SUBSET RowLocks]
Idle == [op |-> "none", stage |-> 0, id |-> 0, amount |-> 0, way |-> "cash", seen |-> 0,
         held |-> {}]

TypeOK == RowsTypeOK /\ req \in [Sessions -> Requests]

Init ==
  /\ paid = 0 /\ status = "NOT_PAID"
  /\ row = [i \in Rows |-> [state |-> "none", amount |-> 0, way |-> "cash"]]
  /\ req = [s \in Sessions |-> Idle]

AtLeast0(n) == IF n > 0 THEN n ELSE 0

-----------------------------------------------------------------------------
(* Variant of Locking: payments of a lease do not queue.                    *)
LockingNoQueue(r) ==
  CASE r.op = "refund" /\ r.stage = 0 -> {<<"refund", 0>>}
    [] r.op \in {"trash", "restore"} /\ r.stage = 0 -> {<<"row", r.id>>}
    [] r.op \in {"trash", "restore"} /\ r.stage = 1 -> {<<"guarantee", 0>>}
    [] OTHER -> {}

(* The advisory locks lease-guarantee-payment and lease-guarantee-refund,   *)
(* and the rows that the trash locks: the receipt or refund, then the       *)
(* guarantee.                                                               *)
Locking(r) ==
  CASE r.op = "pay" /\ r.stage = 0    -> {<<"pay", 0>>}
    [] r.op = "refund" /\ r.stage = 0 -> {<<"refund", 0>>}
    [] r.op \in {"trash", "restore"} /\ r.stage = 0 -> {<<"row", r.id>>}
    [] r.op \in {"trash", "restore"} /\ r.stage = 1 -> {<<"guarantee", 0>>}
    [] OTHER -> {}

(* The upsert of payments and refunds waits for who holds the guarantee.    *)
Wanted(r) ==
  IF r.op \in {"pay", "refund"} /\ r.stage = 2 THEN {<<"guarantee", 0>>} ELSE Locking(r)

Runs(s, op, stage) ==
  /\ req[s].op = op /\ req[s].stage = stage
  /\ \A t \in Sessions \ {s} : req[t].held \cap Wanted(req[s]) = {}

Acquire(s) ==
  /\ \/ \E op \in {"pay", "refund", "trash", "restore"} : Runs(s, op, 0)
     \/ \E op \in {"trash", "restore"} : Runs(s, op, 1)
  /\ req' = [req EXCEPT ![s].stage = @ + 1, ![s].held = @ \cup Locking(req[s])]
  /\ UNCHANGED <<paid, status, row>>

(* leaseGuarantee(id) of another connection: the committed total.           *)
ReadGuarantee(s) ==
  /\ Runs(s, "pay", 1) \/ Runs(s, "refund", 1)
  /\ req' = [req EXCEPT ![s].stage = 2, ![s].seen = paid]
  /\ UNCHANGED <<paid, status, row>>

Commits(s, op) ==
  /\ Runs(s, op, 2)
  /\ req' = [req EXCEPT ![s] = Idle]

(* payLeaseGuarantee: never more than the guarantee.                        *)
PayGuarantee(s) ==
  LET r == req[s]
      total == r.seen + r.amount
  IN /\ Commits(s, "pay")
     /\ total <= Due /\ row[r.id].state = "none"
     /\ paid' = total
     /\ status' = IF total >= Due THEN "PAID" ELSE "PARTIAL"
     /\ row' = [row EXCEPT ![r.id] = [state |-> "live", amount |-> r.amount, way |-> "cash"]]

(* Variant of RefundGuarantee: what is paid is not looked at.               *)
RefundGuaranteeUnchecked(s) ==
  LET r == req[s]
      left == r.seen - r.amount
  IN /\ Commits(s, "refund")
     /\ row[r.id].state = "none"
     /\ paid' = left
     /\ status' = IF left >= Due THEN "PAID" ELSE IF left > 0 THEN "PARTIAL" ELSE "REFUNDED"
     /\ row' = [row EXCEPT ![r.id] = [state |-> "live", amount |-> r.amount, way |-> r.way]]

(* refundLeaseGuarantee: never more than is paid.                           *)
RefundGuarantee(s) ==
  LET r == req[s]
      left == AtLeast0(r.seen - r.amount)
  IN /\ Commits(s, "refund")
     /\ r.amount <= r.seen /\ row[r.id].state = "none"
     /\ paid' = left
     /\ status' = IF left >= Due THEN "PAID" ELSE IF left > 0 THEN "PARTIAL" ELSE "REFUNDED"
     /\ row' = [row EXCEPT ![r.id] = [state |-> "live", amount |-> r.amount, way |-> r.way]]

(* Variant of Recalculate: the receipts less the refunds ever made.         *)
RecalculateAll(records) ==
  AtLeast0(Total(Receipts, records) - SumFunction([f \in Refunds |-> records[f].amount]))

(* recalculateLeaseGuaranteeFromActiveRows: refunds paid by the bank are    *)
(* not among the rows it adds up.                                           *)
Recalculate(records) ==
  AtLeast0(Total(Receipts, records)
             - Total({f \in Refunds : records[f].way = "cash"}, records))

(* trashPaymentInTransaction or deleteGuaranteeCashMovement, and the        *)
(* restore of a payment: no ceiling there.                                  *)
Flip(s, op, from, to) ==
  LET r == req[s]
      records == [row EXCEPT ![r.id].state = to]
      total == Recalculate(records)
  IN /\ Commits(s, op)
     /\ row[r.id].state = from
     /\ row' = records
     /\ paid' = total
     /\ status' = IF total >= Due THEN "PAID" ELSE IF total > 0 THEN "PARTIAL" ELSE "NOT_PAID"

Trash(s) == Flip(s, "trash", "live", "trashed")
Restore(s) == Flip(s, "restore", "trashed", "live")

(* A refusal, a lost connection: ROLLBACK.                                  *)
Rollback(s) ==
  /\ req[s] # Idle
  /\ req' = [req EXCEPT ![s] = Idle]
  /\ UNCHANGED <<paid, status, row>>

Begin(s, request) ==
  /\ request.op \in Endpoints /\ req[s] = Idle
  /\ req' = [req EXCEPT ![s] = request]
  /\ UNCHANGED <<paid, status, row>>

Unused(rows) == {i \in rows : row[i].state = "none"}

(* A bank refund makes no movement that the trash could remove, and only    *)
(* payments have a restore.                                                 *)
Request(s) ==
  \/ \E p \in Unused(Receipts), a \in Amounts :
       Begin(s, [Idle EXCEPT !.op = "pay", !.id = p, !.amount = a])
  \/ \E f \in Unused(Refunds), a \in Amounts, way \in Ways :
       Begin(s, [Idle EXCEPT !.op = "refund", !.id = f, !.amount = a, !.way = way])
  \/ \E i \in Rows : row[i].state = "live" /\ row[i].way = "cash"
       /\ Begin(s, [Idle EXCEPT !.op = "trash", !.id = i])
  \/ \E p \in Receipts : row[p].state = "trashed"
       /\ Begin(s, [Idle EXCEPT !.op = "restore", !.id = p])

Next == \E s \in Sessions :
  \/ Request(s) \/ Acquire(s) \/ ReadGuarantee(s) \/ Rollback(s)
  \/ PayGuarantee(s) \/ RefundGuarantee(s) \/ Trash(s) \/ Restore(s)

Spec == Init /\ [][Next]_vars
=============================================================================

----------------------------- MODULE TenantCredit -----------------------------
(***************************************************************************)
(* Tenant credits (advance payments) of saas.service.ts: a credit is       *)
(* received in cash, drawn automatically by the rent invoices of its       *)
(* lease, oldest credit first, corrected, refunded or cancelled, put in    *)
(* the trash from the cash book and restored.  Part of what an invoice     *)
(* draws moves from the main cash to the syndic cash.                      *)
(*                                                                         *)
(* Every request is a READ COMMITTED transaction that locks rows in stages *)
(* (SELECT ... FOR UPDATE) and holds them to COMMIT.  All it writes is     *)
(* under its last locks, so the effect is one step; what it read before    *)
(* its last lock is kept in the request.                                   *)
(***************************************************************************)
EXTENDS Integers, FiniteSets, FiniteSetsExt, Functions

CONSTANTS
  Sessions,    \* concurrent requests
  Credits,     \* credits, numbered in the order (payment_date, id)
  Refunds,     \* refunds, numbered in the order of their ids
  Invoices,    \* rent invoices of the lease
  MaxAmount,   \* bound: the largest credit
  Bills,       \* bound: the invoices issued, [total, syndic]
  Banked,      \* credits paid by bank transfer: no cash movement
  InCdf,       \* credits in CDF, never drawn by invoices
  Endpoints    \* which endpoints the clients call

AllEndpoints ==
  {"create", "issue", "refund", "cancel", "update", "trashCredit", "restoreCredit",
   "trashRefund", "restoreRefund", "removeSource", "restoreSource",
   "removeDraw", "restoreDraw"}

ASSUME FiniteAssumption    == IsFiniteSet(Credits) /\ IsFiniteSet(Refunds) /\ IsFiniteSet(Invoices)
ASSUME OrderAssumption     == Credits \subseteq Nat /\ Refunds \subseteq Nat \ {0}
ASSUME AmountAssumption    == MaxAmount \in Nat \ {0}
ASSUME BillsAssumption     == \A b \in Bills : b.total \in Nat \ {0} /\ b.syndic \in 0..b.total
ASSUME EndpointsAssumption == Endpoints \subseteq AllEndpoints

VARIABLES
  credit,   \* rows of tenant_credits with their source payment and movements
  refund,   \* rows of tenant_credit_refunds with their cash movement
  drawn,    \* tenant_credit_allocations with the payment each of them made
  invoice,  \* the rent invoices
  req       \* the transaction each session is running

vars == <<credit, refund, drawn, invoice, req>>

Amounts == 0..MaxAmount
CreditStatuses == {"AVAILABLE", "PARTIALLY_USED", "USED", "REFUNDED", "CANCELLED"}
InvoiceStatuses == {"UNPAID", "PARTIAL", "PAID"}
RowLocks ==
  ({"credit", "source"} \X Credits) \cup ({"refund"} \X Refunds)

(* funded: the source payment and its movement are not deleted; cash and    *)
(* syndic: what the receipt holds in the main and in the syndic cash.       *)
CreditRows ==
  [state: {"none", "live", "trashed"}, amount: Amounts, remaining: Amounts,
   status: CreditStatuses, funded: BOOLEAN, cash: Int, syndic: Int]
RefundRows ==
  [state: {"none", "live", "trashed"}, credit: Credits \cup {0}, amount: Amounts, cash: Int]
InvoiceRows ==
  [state: {"absent", "live"}, total: Nat, syndic: Nat, status: InvoiceStatuses]
Draws == [amount: Amounts, paid: BOOLEAN]

(* stage counts the lock statements done; candidates are the credits that   *)
(* the SELECT of an invoice found; seen and label the balance that a refund *)
(* of the trash computed before it waits for the credit.                    *)
Requests ==
  [op: AllEndpoints \cup {"none"}, stage: 0..3, credit: Credits \cup {0},
   refund: Refunds \cup {0}, amount: Amounts, invoice: SUBSET Invoices,
   bill: SUBSET Bills, candidates: SUBSET Credits, held: SUBSET RowLocks,
   seen: Int, label: CreditStatuses]

Idle ==
  [op |-> "none", stage |-> 0, credit |-> 0, refund |-> 0, amount |-> 0,
   invoice |-> {}, bill |-> {}, candidates |-> {}, held |-> {}, seen |-> 0,
   label |-> "AVAILABLE"]

TypeOK ==
  /\ credit \in [Credits -> CreditRows]
  /\ refund \in [Refunds -> RefundRows]
  /\ drawn \in [Credits -> [Invoices -> Draws]]
  /\ invoice \in [Invoices -> InvoiceRows]
  /\ req \in [Sessions -> Requests]

Init ==
  /\ credit = [c \in Credits |-> [state |-> "none", amount |-> 0, remaining |-> 0,
                 status |-> "AVAILABLE", funded |-> FALSE, cash |-> 0, syndic |-> 0]]
  /\ refund = [f \in Refunds |-> [state |-> "none", credit |-> 0, amount |-> 0, cash |-> 0]]
  /\ drawn = [c \in Credits |-> [i \in Invoices |-> [amount |-> 0, paid |-> FALSE]]]
  /\ invoice = [i \in Invoices |-> [state |-> "absent", total |-> 0, syndic |-> 0,
                                    status |-> "UNPAID"]]
  /\ req = [s \in Sessions |-> Idle]

-----------------------------------------------------------------------------
(* Amounts.                                                                 *)
AtLeast0(n) == IF n > 0 THEN n ELSE 0
AtMost(n, m) == IF n < m THEN n ELSE m

DrawnBy(c) == {i \in Invoices : drawn[c][i].amount > 0}
Allocated(c) == SumFunctionOnSet([i \in Invoices |-> drawn[c][i].amount], Invoices)
RefundsOf(c, states) == {f \in Refunds : refund[f].credit = c /\ refund[f].state \in states}
SumOf(fs) == SumFunctionOnSet([f \in Refunds |-> refund[f].amount], fs)
Refunded(c) == SumOf(RefundsOf(c, {"live"}))

(* paid_amount of the invoice: the payments its allocations made.           *)
PaidOn(i, draws) ==
  SumFunctionOnSet([c \in Credits |-> draws[c][i].amount], {c \in Credits : draws[c][i].paid})

(* refreshInvoiceStatusInTransaction.                                       *)
InvoiceStatus(total, paid) ==
  IF paid <= 0 THEN "UNPAID" ELSE IF paid < total THEN "PARTIAL" ELSE "PAID"

(* computeTenantCreditBalanceState.                                         *)
BalanceOf(amount, allocations, refunds) ==
  LET left == AtLeast0(amount - allocations - refunds)
  IN [remaining |-> left,
      status |-> IF allocations > 0 THEN (IF left <= 0 THEN "USED" ELSE "PARTIALLY_USED")
                 ELSE IF refunds > 0 THEN (IF left <= 0 THEN "REFUNDED" ELSE "PARTIALLY_USED")
                 ELSE "AVAILABLE"]

(* The balance that a restore computes: one query joins the allocations and *)
(* the refunds, so each row of one is counted once per row of the other.    *)
JoinedBalance(c, active) ==
  LET rows   == RefundsOf(c, {"live", "trashed"})
      times(n) == IF n = 0 THEN 1 ELSE n
  IN BalanceOf(credit[c].amount,
               Allocated(c) * times(Cardinality(rows)),
               SumOf(active) * times(Cardinality(DrawnBy(c))))

(* The movement that linkedTenantCreditCashMovementInTransaction and the    *)
(* ventilation select: the newest one that carries the credit, be it the    *)
(* receipt or the payment out of a refund.  Empty when there is none.       *)
LinkedMovement(c) ==
  LET out == RefundsOf(c, {"live"})
  IN IF out # {} THEN {<<"refund", Max(out)>>}
     ELSE IF credit[c].funded /\ c \notin Banked THEN {<<"source", c>>}
     ELSE {}

-----------------------------------------------------------------------------
(* What an invoice draws.                                                   *)
Eligible(c) ==
  /\ credit[c].state = "live" /\ credit[c].remaining > 0
  /\ credit[c].status \in {"AVAILABLE", "PARTIALLY_USED"}
  /\ c \notin InCdf

BalancesOf(cs) == SumFunctionOnSet([c \in Credits |-> credit[c].remaining], cs)

(* Variants of DrawFrom: the balance is not looked at; every credit pays    *)
(* the whole invoice; the newest credit first (ORDER BY ... DESC).          *)
DrawFromUncapped(r, c) ==
  LET bill == CHOOSE b \in r.bill : TRUE
      before == {d \in r.candidates : Eligible(d) /\ d < c}
  IN IF c \in r.candidates /\ Eligible(c)
     THEN AtLeast0(bill.total - BalancesOf(before))
     ELSE 0
DrawFromEach(r, c) ==
  LET bill == CHOOSE b \in r.bill : TRUE
  IN IF c \in r.candidates /\ Eligible(c) THEN AtMost(credit[c].remaining, bill.total) ELSE 0
DrawFromNewest(r, c) ==
  LET bill == CHOOSE b \in r.bill : TRUE
      before == {d \in r.candidates : Eligible(d) /\ d > c}
  IN IF c \in r.candidates /\ Eligible(c)
     THEN AtMost(credit[c].remaining,
                 AtLeast0(bill.total - BalancesOf(before)))
     ELSE 0

(* The amount taken from credit c: what the older ones leave to pay, within *)
(* its balance.  The rows are as they are once locked.                      *)
DrawFrom(r, c) ==
  LET bill == CHOOSE b \in r.bill : TRUE
      before == {d \in r.candidates : Eligible(d) /\ d < c}
  IN IF c \in r.candidates /\ Eligible(c)
     THEN AtMost(credit[c].remaining,
                 AtLeast0(bill.total - BalancesOf(before)))
     ELSE 0

(* The syndic part of what is drawn, rounded to the nearest unit, and where *)
(* it is taken from; no part is taken from a credit received by the bank or *)
(* whose source payment is deleted.                                         *)
SyndicPart(r, c) ==
  LET bill == CHOOSE b \in r.bill : TRUE
  IN IF c \in Banked \/ ~credit[c].funded THEN 0
     ELSE (2 * DrawFrom(r, c) * bill.syndic + bill.total) \div (2 * bill.total)

MovementAmount(m) ==
  IF m[1] = "source" THEN credit[m[2]].cash ELSE refund[m[2]].cash

SyndicCovered(r, c) ==
  SyndicPart(r, c) > 0 =>
    \A m \in LinkedMovement(c) : MovementAmount(m) >= SyndicPart(r, c)

-----------------------------------------------------------------------------
(* Row locks.                                                               *)

(* Variant of UpdateLocks: the movement before the credit, as when the cash *)
(* book deletes a receipt.                                                  *)
UpdateLocksReversed(r) ==
  IF r.stage = 0 THEN LinkedMovement(r.credit) ELSE {<<"credit", r.credit>>}

(* A correction locks the credit, then the movement it will rewrite.        *)
UpdateLocks(r) ==
  IF r.stage = 0 THEN {<<"credit", r.credit>>} ELSE LinkedMovement(r.credit)

(* The rows the next lock statement of a request wants.                     *)
Wanted(r) ==
  CASE r.op = "issue" /\ r.stage = 0  -> {"credit"} \X r.candidates
    [] r.op = "issue" /\ r.stage = 1  ->
         UNION {LinkedMovement(c) : c \in {d \in Credits : SyndicPart(r, d) > 0}}
    [] r.op \in {"refund", "cancel", "restoreCredit"} /\ r.stage = 0
                                      -> {<<"credit", r.credit>>}
    [] r.op = "update" /\ r.stage < 2 -> UpdateLocks(r)
    [] r.op = "restoreCredit" /\ r.stage = 1 ->
         {<<"source", r.credit>>} \cup ({"refund"} \X RefundsOf(r.credit, {"live", "trashed"}))
    [] r.op \in {"trashCredit", "removeSource", "restoreSource"} /\ r.stage = 0
                                      -> {<<"source", r.credit>>}
    [] r.op = "trashCredit" /\ r.stage = 1 -> {<<"credit", r.credit>>}
    [] r.op = "trashCredit" /\ r.stage = 2 -> {"refund"} \X RefundsOf(r.credit, {"live"})
    [] r.op \in {"trashRefund", "restoreRefund"} /\ r.stage = 0 -> {<<"refund", r.refund>>}
    [] r.op \in {"trashRefund", "restoreRefund"} /\ r.stage = 1 -> {<<"credit", r.credit>>}
    [] OTHER -> {}

(* How many lock statements an endpoint runs.                               *)
Stages(op) ==
  CASE op \in {"create", "removeDraw", "restoreDraw"} -> 0
    [] op \in {"refund", "cancel", "removeSource", "restoreSource"} -> 1
    [] op = "trashCredit" -> 3
    [] OTHER -> 2

Blockers(s) ==
  {t \in Sessions \ {s} : req[t].held \cap Wanted(req[s]) # {}}

(* A refund in the trash gives its amount back: the balance is the amount   *)
(* of the credit less the other refunds.                                    *)
BalanceAfterTrash(c, f) ==
  LET left == AtLeast0(credit[c].amount - SumOf(RefundsOf(c, {"live"}) \ {f}))
  IN [remaining |-> left,
      status |-> IF left <= 0 THEN "REFUNDED"
                 ELSE IF left < credit[c].amount THEN "PARTIALLY_USED" ELSE "AVAILABLE"]

(* Lock statement granted.  A refund that goes to or leaves the trash then  *)
(* computes the balance of its credit, which it has not locked yet.         *)
Acquire(s) ==
  LET r == req[s]
      read == CASE r.op = "trashRefund" /\ r.stage = 0 ->
                     BalanceAfterTrash(r.credit, r.refund)
                [] r.op = "restoreRefund" /\ r.stage = 0 ->
                     JoinedBalance(r.credit, RefundsOf(r.credit, {"live"}) \cup {r.refund})
                [] OTHER -> [remaining |-> r.seen, status |-> r.label]
  IN /\ r.op # "none" /\ r.stage < Stages(r.op)
     /\ Blockers(s) = {}
     /\ req' = [req EXCEPT ![s] =
          [r EXCEPT !.stage = r.stage + 1, !.held = r.held \cup Wanted(r),
                    !.seen = read.remaining, !.label = read.status]]
     /\ UNCHANGED <<credit, refund, drawn, invoice>>

-----------------------------------------------------------------------------
(* Requests arrive.                                                         *)
Begin(s, fields) ==
  /\ req[s] = Idle
  /\ fields.op \in Endpoints
  /\ req' = [req EXCEPT ![s] = [x \in DOMAIN Idle |->
                                  IF x \in DOMAIN fields THEN fields[x] ELSE Idle[x]]]
  /\ UNCHANGED <<credit, refund, drawn, invoice>>

(* InvoicesService.create and the rent run: the invoice is inserted, then   *)
(* the SELECT finds the credits it may draw.                                *)
BeginInvoice(s, i, bill) ==
  /\ invoice[i].state = "absent"
  /\ \A t \in Sessions : i \notin req[t].invoice
  /\ Begin(s, [op |-> "issue", invoice |-> {i}, bill |-> {bill},
               candidates |-> {c \in Credits : Eligible(c)}])

BeginOnCredit(s, op, c) ==
  /\ credit[c].state # "none"
  /\ Begin(s, [op |-> op, credit |-> c])

BeginWithAmount(s, op, c, amount) ==
  /\ credit[c].state # "none"
  /\ Begin(s, [op |-> op, credit |-> c, amount |-> amount])

BeginOnRefund(s, op, f) ==
  /\ refund[f].state # "none"
  /\ Begin(s, [op |-> op, refund |-> f, credit |-> refund[f].credit])

(* Bound: the refunds of a run are numbered, and one more is refused.        *)
MoreRefunds == \E f \in Refunds : refund[f].state = "none"
NextRefund == CHOOSE f \in Refunds : refund[f].state = "none"
              /\ \A g \in Refunds : refund[g].state = "none" => f <= g

(* The checks of each endpoint, on the rows it has locked.                  *)
Accepted(r) ==
  LET c == r.credit
      f == r.refund
  IN CASE r.op = "issue" -> \A d \in Credits : SyndicCovered(r, d)
       [] r.op = "refund" -> /\ MoreRefunds
                             /\ credit[c].state = "live"
                             /\ r.amount <= credit[c].remaining
                             /\ c \in InCdf => credit[c].funded
       [] r.op = "cancel" -> /\ MoreRefunds
                             /\ credit[c].state = "live"
                             /\ credit[c].remaining > 0
                             /\ c \in InCdf => credit[c].funded
                             /\ DrawnBy(c) = {} /\ RefundsOf(c, {"live"}) = {}
                             /\ credit[c].remaining = credit[c].amount
       [] r.op = "update" -> /\ credit[c].state = "live" /\ credit[c].funded
                             /\ r.amount >= Allocated(c) + Refunded(c)
                             /\ r.amount # credit[c].amount => LinkedMovement(c) # {}
       [] r.op = "trashCredit" -> /\ credit[c].state = "live"
                                  /\ credit[c].funded /\ c \notin Banked
       [] r.op = "restoreCredit" -> credit[c].state = "trashed"
       [] r.op = "trashRefund"   -> refund[f].state = "live" /\ r.seen <= credit[c].amount
       [] r.op = "restoreRefund" -> refund[f].state = "trashed" /\ r.seen <= credit[c].amount
       [] r.op = "removeSource"  -> credit[c].funded
       [] r.op = "restoreSource" -> ~credit[c].funded
       [] OTHER -> TRUE

(* The last lock is granted: the request is carried out and committed.      *)
Ready(s, op) ==
  /\ req[s].op = op /\ req[s].stage = Stages(op)
  /\ Accepted(req[s])
  /\ req' = [req EXCEPT ![s] = Idle]

(* Variant of Refuse: a refusal that never reaches ROLLBACK.                *)
RefuseHangs(s) == req[s].op # "none" /\ FALSE /\ UNCHANGED vars

Refuse(s) ==
  /\ req[s].op # "none" /\ req[s].stage = Stages(req[s].op)
  /\ ~Accepted(req[s])
  /\ req' = [req EXCEPT ![s] = Idle]
  /\ UNCHANGED <<credit, refund, drawn, invoice>>

-----------------------------------------------------------------------------
(* createTenantCredit: the payment, the credit and the movement IN.         *)
CreateCredit(c, amount) ==
  /\ "create" \in Endpoints
  /\ credit[c].state = "none"
  /\ credit' = [credit EXCEPT ![c] =
       [state |-> "live", amount |-> amount, remaining |-> amount, status |-> "AVAILABLE",
        funded |-> TRUE, cash |-> IF c \in Banked THEN 0 ELSE amount, syndic |-> 0]]
  /\ UNCHANGED <<refund, drawn, invoice, req>>

(* Variant of Moved: the main cash keeps the receipt whole.                 *)
MovedNothing(r, m) == 0

(* What the ventilation of an invoice takes from a movement.                *)
Moved(r, m) ==
  SumFunctionOnSet([c \in Credits |-> SyndicPart(r, c)], {c \in Credits : m \in LinkedMovement(c)})

(* applyTenantCreditsToRentInvoiceInTransaction, with the ventilation of    *)
(* the syndic part: it leaves the linked movement for the syndic cash.      *)
IssueInvoice(s) ==
  LET r == req[s]
      i == CHOOSE x \in r.invoice : TRUE
      bill == CHOOSE b \in r.bill : TRUE
      takes(c) == DrawFrom(r, c)
      left(c) == credit[c].remaining - takes(c)
      draws == [c \in Credits |->
                  IF takes(c) > 0
                  THEN [drawn[c] EXCEPT ![i] = [amount |-> takes(c), paid |-> TRUE]]
                  ELSE drawn[c]]
  IN /\ Ready(s, "issue")
     /\ drawn' = draws
     /\ credit' = [c \in Credits |->
          [credit[c] EXCEPT
             !.remaining = left(c),
             !.status = IF takes(c) = 0 THEN @ ELSE IF left(c) <= 0 THEN "USED" ELSE "PARTIALLY_USED",
             !.cash = @ - Moved(r, <<"source", c>>),
             !.syndic = @ + (IF LinkedMovement(c) = {} THEN 0 ELSE SyndicPart(r, c))]]
     /\ refund' = [f \in Refunds |-> [refund[f] EXCEPT !.cash = @ - Moved(r, <<"refund", f>>)]]
     /\ invoice' = [invoice EXCEPT ![i] =
          [state |-> "live", total |-> bill.total, syndic |-> bill.syndic,
           status |-> InvoiceStatus(bill.total, PaidOn(i, draws))]]

(* Variant of GiveBack: the balance is not reduced.                         *)
GiveBackKeepsBalance(c, amount, final) ==
  LET f == NextRefund
  IN /\ refund' = [refund EXCEPT ![f] = [state |-> "live", credit |-> c,
                                         amount |-> amount, cash |-> amount]]
     /\ credit' = [credit EXCEPT ![c].status = final]

(* refundTenantCreditInTransaction: the refund and its movement OUT.        *)
GiveBack(c, amount, final) ==
  LET f == NextRefund
  IN /\ refund' = [refund EXCEPT ![f] = [state |-> "live", credit |-> c,
                                         amount |-> amount, cash |-> amount]]
     /\ credit' = [credit EXCEPT ![c].remaining = @ - amount, ![c].status = final]

RefundCredit(s) ==
  LET c == req[s].credit
  IN /\ Ready(s, "refund")
     /\ GiveBack(c, req[s].amount,
          IF credit[c].remaining = req[s].amount THEN "REFUNDED" ELSE "PARTIALLY_USED")
     /\ UNCHANGED <<drawn, invoice>>

CancelCredit(s) ==
  LET c == req[s].credit
  IN /\ Ready(s, "cancel")
     /\ GiveBack(c, credit[c].remaining, "CANCELLED")
     /\ UNCHANGED <<drawn, invoice>>

(* updateTenantCreditInTransaction: the balance follows from the new amount *)
(* and the linked movement takes the whole of it.                           *)
UpdateCredit(s) ==
  LET c == req[s].credit
      amount == req[s].amount
      b == BalanceOf(amount, Allocated(c), Refunded(c))
      linked == LinkedMovement(c)
  IN /\ Ready(s, "update")
     /\ credit' = [credit EXCEPT
          ![c].amount = amount, ![c].remaining = b.remaining, ![c].status = b.status,
          ![c].cash = IF <<"source", c>> \in linked THEN amount ELSE @]
     /\ refund' = [f \in Refunds |->
          IF <<"refund", f>> \in linked THEN [refund[f] EXCEPT !.cash = amount] ELSE refund[f]]
     /\ UNCHANGED <<drawn, invoice>>

(* trashTenantCreditInTransaction, reached from the cash book by deleting   *)
(* the receipt: its refunds and the payments of its draws go with it.  The  *)
(* invoices keep their status and the syndic cash what it received.         *)
TrashCredit(s) ==
  LET c == req[s].credit
  IN /\ Ready(s, "trashCredit")
     /\ credit' = [credit EXCEPT ![c].state = "trashed", ![c].funded = FALSE]
     /\ refund' = [f \in Refunds |->
          IF f \in RefundsOf(c, {"live"}) THEN [refund[f] EXCEPT !.state = "trashed"]
          ELSE refund[f]]
     /\ drawn' = [drawn EXCEPT ![c] = [i \in Invoices |-> [@[i] EXCEPT !.paid = FALSE]]]
     /\ UNCHANGED invoice

(* restoreTenantCreditInTransaction: all its refunds and draws come back,   *)
(* those that had been removed before it too.                               *)
RestoreCredit(s) ==
  LET c == req[s].credit
      rows == RefundsOf(c, {"live", "trashed"})
      b == JoinedBalance(c, rows)
  IN /\ Ready(s, "restoreCredit")
     /\ credit' = [credit EXCEPT ![c].state = "live", ![c].funded = TRUE,
                                 ![c].remaining = b.remaining, ![c].status = b.status]
     /\ refund' = [f \in Refunds |->
          IF f \in rows THEN [refund[f] EXCEPT !.state = "live"] ELSE refund[f]]
     /\ drawn' = [drawn EXCEPT ![c] =
          [i \in Invoices |-> [@[i] EXCEPT !.paid = drawn[c][i].paid \/ i \in DrawnBy(c)]]]
     /\ UNCHANGED invoice

(* trashTenantCreditRefundInTransaction and its restore: the balance seen   *)
(* before the wait for the credit is written, whatever changed meanwhile.   *)
FlipRefund(s, op, state) ==
  LET r == req[s]
  IN /\ Ready(s, op)
     /\ refund' = [refund EXCEPT ![r.refund].state = state]
     /\ credit' = [credit EXCEPT ![r.credit].remaining = r.seen, ![r.credit].status = r.label]
     /\ UNCHANGED <<drawn, invoice>>

TrashRefund(s) == FlipRefund(s, "trashRefund", "trashed")
RestoreRefund(s) == FlipRefund(s, "restoreRefund", "live")

(* trashPayment and restorePayment of the payment a credit comes from: the  *)
(* credit itself is left as it is.                                          *)
FlipSource(s, op, funded) ==
  /\ Ready(s, op)
  /\ credit' = [credit EXCEPT ![req[s].credit].funded = funded]
  /\ UNCHANGED <<refund, drawn, invoice>>

RemoveSource(s) == FlipSource(s, "removeSource", FALSE)
RestoreSource(s) == FlipSource(s, "restoreSource", TRUE)

(* Variant of FlipDraw: the invoice is not refreshed.                       *)
FlipDrawStale(op, c, i, paid) ==
  /\ op \in Endpoints
  /\ i \in DrawnBy(c) /\ drawn[c][i].paid # paid
  /\ drawn' = [drawn EXCEPT ![c][i].paid = paid]
  /\ UNCHANGED <<credit, refund, invoice, req>>

(* The same for the payment that a draw made: the status of the invoice is  *)
(* refreshed, the draw and the balance of the credit stay.                  *)
FlipDraw(op, c, i, paid) ==
  LET draws == [drawn EXCEPT ![c][i].paid = paid]
  IN /\ op \in Endpoints
     /\ i \in DrawnBy(c) /\ drawn[c][i].paid # paid
     /\ drawn' = draws
     /\ invoice' = [invoice EXCEPT ![i].status = InvoiceStatus(invoice[i].total, PaidOn(i, draws))]
     /\ UNCHANGED <<credit, refund, req>>

(* ROLLBACK: no open cash session, a lost connection.                       *)
Rollback(s) ==
  /\ req[s] # Idle
  /\ req' = [req EXCEPT ![s] = Idle]
  /\ UNCHANGED <<credit, refund, drawn, invoice>>

(* The deadlock check ends one of a set of sessions that only wait for one  *)
(* another.                                                                 *)
DeadlockVictim(s) ==
  /\ \E S \in SUBSET Sessions :
       s \in S /\ \A t \in S : Blockers(t) \cap S # {}
  /\ Rollback(s)

Step(s) ==
  \/ Acquire(s) \/ Refuse(s)
  \/ IssueInvoice(s) \/ RefundCredit(s) \/ CancelCredit(s) \/ UpdateCredit(s)
  \/ TrashCredit(s) \/ RestoreCredit(s) \/ TrashRefund(s) \/ RestoreRefund(s)
  \/ RemoveSource(s) \/ RestoreSource(s)

Request(s) ==
  \/ \E i \in Invoices, bill \in Bills : BeginInvoice(s, i, bill)
  \/ \E c \in Credits :
       \/ \E op \in {"cancel", "trashCredit", "restoreCredit", "removeSource", "restoreSource"} :
            BeginOnCredit(s, op, c)
       \/ \E op \in {"refund", "update"}, a \in 1..MaxAmount : BeginWithAmount(s, op, c, a)
  \/ \E op \in {"trashRefund", "restoreRefund"}, f \in Refunds : BeginOnRefund(s, op, f)

Next ==
  \/ \E c \in Credits :
       \/ \E a \in 1..MaxAmount : CreateCredit(c, a)
       \/ \E i \in Invoices : FlipDraw("removeDraw", c, i, FALSE) \/ FlipDraw("restoreDraw", c, i, TRUE)
  \/ \E s \in Sessions : Request(s) \/ Step(s) \/ Rollback(s) \/ DeadlockVictim(s)

Spec == Init /\ [][Next]_vars

(* A transaction that is granted its locks goes on; waiters are queued.     *)
FairSpec == Spec /\ \A s \in Sessions : SF_vars(Step(s)) /\ WF_vars(DeadlockVictim(s))

-----------------------------------------------------------------------------
(* Properties.                                                              *)

(* The balance shown is what is left: the amount of a live credit less what *)
(* invoices drew and what was refunded, however invoices, refunds and       *)
(* corrections of the same credit interleave (refundTenantCredit and        *)
(* applyTenantCredits both work under the lock of the credit).              *)
RemainingIsUnused ==
  \A c \in Credits :
    credit[c].state = "live" =>
      credit[c].remaining = credit[c].amount - Allocated(c) - Refunded(c)

(* Nothing is given out twice: draws and refunds of a credit never exceed   *)
(* it ("Seul le solde disponible peut etre rembourse").                     *)
NeverOverdrawn ==
  \A c \in Credits : Allocated(c) + Refunded(c) <= credit[c].amount

(* Oldest credit first (ORDER BY payment_date ASC, id ASC): when an invoice *)
(* draws a credit, the older ones its request found have nothing left.      *)
OldestFirst ==
  [][\A c, d \in Credits, i \in Invoices :
       (d < c /\ drawn[c][i].amount = 0 /\ drawn'[c][i].amount > 0
          /\ \E s \in Sessions : req[s] # req'[s] /\ d \in req[s].candidates)
         => ~(Eligible(d))' \/ d \in InCdf]_vars

(* The status of an invoice paid by credits follows from its draws ("Mise a *)
(* jour automatique du statut facture").                                    *)
InvoiceFollowsDraws ==
  \A i \in Invoices :
    invoice[i].state = "live" =>
      invoice[i].status = InvoiceStatus(invoice[i].total, PaidOn(i, drawn))

(* The cash books agree with the credits: a receipt is split between main   *)
(* and syndic cash without loss, and a refund paid out is what it says.     *)
CashFollowsCredit ==
  /\ \A c \in Credits \ Banked :
       credit[c].state = "live" => credit[c].cash + credit[c].syndic = credit[c].amount
  /\ \A f \in Refunds : refund[f].state = "live" => refund[f].cash = refund[f].amount

(* An invoice never takes more from the credits than its total.             *)
DrawnWithinTotal ==
  \A i \in Invoices :
    invoice[i].state = "live" =>
      SumFunctionOnSet([c \in Credits |-> drawn[c][i].amount], Credits) <= invoice[i].total

(* No credit is used twice: its balance is what its draws and refunds leave,*)
(* and no invoice draws more than it costs, however invoices, refunds,      *)
(* corrections and cancellations interleave.                                *)
CreditUsedOnce == RemainingIsUnused /\ DrawnWithinTotal

(* Row locks never close a cycle of waiting sessions.                       *)
NoLockCycle ==
  \A S \in SUBSET Sessions : S # {} => \E s \in S : Blockers(s) \cap S = {}

(* Every request ends.                                                      *)
RequestsEnd == \A s \in Sessions : req[s] # Idle ~> req[s] = Idle
=============================================================================

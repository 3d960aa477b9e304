-------------------------------- MODULE LotSales --------------------------------
(***************************************************************************)
(* The sale of lots in sales.service.ts: reservations of a lot and their   *)
(* fee, the payments of that fee, their cancellation and refund, and the   *)
(* subscriptions that follow, to which the fee is allocated.               *)
(*                                                                         *)
(* Every request is a READ COMMITTED transaction.  Creating or editing a   *)
(* reservation or a subscription locks the lot; a payment of the fee locks *)
(* the reservation; what changes a status, cancels or refunds reads first  *)
(* and locks nothing until it writes.  The row that was read is kept in    *)
(* the request.                                                            *)
(***************************************************************************)
EXTENDS Integers, FiniteSets, Functions

CONSTANTS
  Sessions,       \* concurrent requests
  Lots,           \* sales_property_catalog
  Reservations,   \* numbered from 1
  Subscriptions,
  Payments,       \* payments of fees, numbered in the order of their dates
  MaxFee,         \* bound: the largest fee of a reservation
  Financed,       \* bound: what remains to pay of a subscription, before the fee
  Endpoints       \* which endpoints the clients call

AllEndpoints ==
  {"reserve", "editReservation", "reservationStatus", "subscribe", "editSubscription",
   "subscriptionStatus", "resubmit", "pay", "cancelPayment", "refund"}

ASSUME IdsAssumption       == Reservations \cup Subscriptions \cup Payments \subseteq Nat \ {0}
ASSUME FiniteAssumption    == IsFiniteSet(Payments)
ASSUME AmountsAssumption   == MaxFee \in Nat \ {0} /\ Financed \subseteq 0..MaxFee
ASSUME EndpointsAssumption == Endpoints \subseteq AllEndpoints

VARIABLES
  lot,           \* commercial_status of each lot
  reservation,   \* rows of sales_reservations
  subscription,  \* rows of sales_subscriptions
  payment,       \* rows of sales_reservation_payments
  req            \* the transaction each session is running

vars == <<lot, reservation, subscription, payment, req>>

ReservationStates == {"DRAFT", "ACTIVE", "CONFIRMED", "CONVERTED", "CANCELLED", "EXPIRED"}
SubscriptionStates == {"DRAFT", "SUBMITTED", "APPROVED", "REJECTED", "CANCELLED"}
PaymentStates == {"CONFIRMED", "PARTIALLY_REFUNDED", "REFUNDED", "CANCELLED"}
Amounts == 1..MaxFee

ReservationRows == [state: ReservationStates \cup {"none"}, lot: Lots \cup {0}, fee: 0..MaxFee]
SubscriptionRows ==
  [state: SubscriptionStates \cup {"none"}, lot: Lots \cup {0}, from: Reservations \cup {0}]
(* refunded and allocated: the sums of its refunds and of its allocations;  *)
(* kept: what the movements of the desk and the bank leave of it.           *)
PaymentRows ==
  [state: PaymentStates \cup {"none"}, of: Reservations \cup {0}, amount: 0..MaxFee,
   refunded: Nat, allocated: Nat, kept: Int]

RowLocks ==
  ({"lot"} \X Lots) \cup ({"reservation", "fee"} \X Reservations)
    \cup ({"subscription"} \X Subscriptions)
NotGiven == ""
NotRead == <<>>
Requests ==
  [op: AllEndpoints \cup {"none"}, stage: 0..3, id: Reservations \cup Subscriptions \cup Payments \cup {0},
   from: Reservations \cup {0}, lot: Lots \cup {0}, to: ReservationStates \cup SubscriptionStates \cup {NotGiven},
   amount: 0..MaxFee, row: ReservationRows \cup SubscriptionRows \cup PaymentRows \cup {NotRead},
   plan: [Payments -> Nat], held: SUBSET RowLocks]

NotAllocated == [p \in Payments |-> 0]
Idle ==
  [op |-> "none", stage |-> 0, id |-> 0, from |-> 0, lot |-> 0, to |-> NotGiven, amount |-> 0,
   row |-> NotRead, plan |-> NotAllocated, held |-> {}]

TypeOK ==
  /\ lot \in [Lots -> {"AVAILABLE", "RESERVED", "SOLD"}]
  /\ reservation \in [Reservations -> ReservationRows]
  /\ subscription \in [Subscriptions -> SubscriptionRows]
  /\ payment \in [Payments -> PaymentRows]
  /\ req \in [Sessions -> Requests]

Init ==
  /\ lot = [l \in Lots |-> "AVAILABLE"]
  /\ reservation = [r \in Reservations |-> [state |-> "none", lot |-> 0, fee |-> 0]]
  /\ subscription = [u \in Subscriptions |-> [state |-> "none", lot |-> 0, from |-> 0]]
  /\ payment = [p \in Payments |-> [state |-> "none", of |-> 0, amount |-> 0, refunded |-> 0,
                                    allocated |-> 0, kept |-> 0]]
  /\ req = [s \in Sessions |-> Idle]

-----------------------------------------------------------------------------
(* What holds a lot, and the fee of a reservation.                          *)
Smaller(a, b) == IF a < b THEN a ELSE b
AtLeast0(n) == IF n > 0 THEN n ELSE 0

ActiveReservations(l) ==
  {r \in Reservations : reservation[r].lot = l /\ reservation[r].state \in {"ACTIVE", "CONFIRMED"}}
ActiveSubscriptions(l) ==
  {u \in Subscriptions :
     subscription[u].lot = l /\ subscription[u].state \in {"DRAFT", "SUBMITTED", "APPROVED"}}

PaymentsOf(r) == {p \in Payments : payment[p].of = r}
Total(field, ps) == SumFunctionOnSet([p \in Payments |-> payment[p][field]], ps)

(* buildReservationFeeSummary                                               *)
FeePaid(r) ==
  Total("amount", {p \in PaymentsOf(r) : payment[p].state # "CANCELLED"})
FeeRemaining(r) == AtLeast0(reservation[r].fee - FeePaid(r))
FeeAvailable(r) ==
  FeePaid(r) - Total("refunded", PaymentsOf(r)) - Total("allocated", PaymentsOf(r))

(* listReservationPayments, whatever the status of the payment is           *)
Available(p) == AtLeast0(payment[p].amount - payment[p].refunded - payment[p].allocated)
AvailableOf(ps) == SumFunctionOnSet([p \in Payments |-> Available(p)], ps)

(* Variants of AllocationPlan: the fee is not looked at as a whole; what is *)
(* left of it may be less than nothing.                                     *)
AllocationPlanPerPayment(r, financed) ==
  [p \in Payments |-> IF payment[p].of = r THEN payment[p].amount ELSE 0]

AllocationPlanBelowZero(r, financed) ==
  LET deductible == Smaller(FeeAvailable(r), financed)
      before(p) == AvailableOf({q \in PaymentsOf(r) : q < p})
  IN [p \in Payments |-> IF payment[p].of = r
                         THEN Smaller(Available(p), deductible - before(p)) ELSE 0]

(* allocateReservationFeeToSubscription: the oldest payments first.         *)
AllocationPlan(r, financed) ==
  LET deductible == AtLeast0(Smaller(FeeAvailable(r), financed))
      before(p) == AvailableOf({q \in PaymentsOf(r) : q < p})
  IN [p \in Payments |-> IF payment[p].of = r
                         THEN Smaller(Available(p), AtLeast0(deductible - before(p))) ELSE 0]

-----------------------------------------------------------------------------
(* Row locks.                                                               *)

(* Variant of LotRow: findCatalogItem instead of lockCatalogItem.           *)
LotRowUnlocked(r) == {}

(* lockCatalogItem                                                          *)
LotRow(r) == {<<"lot", r.lot>>}

(* Variant of ReservationRow: findReservation instead of lockReservation.   *)
ReservationRowUnlocked(r) == {}

(* lockReservation, FOR UPDATE: it also waits for a subscription that       *)
(* refers to the reservation, and is waited for by it.                      *)
ReservationRow(r) == {<<"reservation", r>>, <<"fee", r>>}

(* What the next statement of a request locks.                              *)
Locking(r) ==
  CASE r.op = "reserve" /\ r.stage = 0                              -> LotRow(r)
    [] r.op \in {"editReservation", "editSubscription", "subscribe"} /\ r.stage = 1 -> LotRow(r)
    [] r.op = "subscribe" /\ r.stage = 2 /\ r.from # 0              -> {<<"fee", r.from>>}
    [] r.op = "reservationStatus" /\ r.stage = 1                    -> {<<"reservation", r.id>>}
    [] r.op \in {"subscriptionStatus", "resubmit"} /\ r.stage = 1   -> {<<"subscription", r.id>>}
    [] r.op = "pay" /\ r.stage = 0                                  -> ReservationRow(r.from)
    [] OTHER -> {}

(* The rows that its last statements write.                                 *)
Written(r) ==
  CASE r.op = "subscribe" /\ r.stage = 3 /\ r.from # 0              -> {<<"reservation", r.from>>}
    [] r.op = "editReservation" /\ r.stage = 2                      -> {<<"reservation", r.id>>}
    [] r.op = "editSubscription" /\ r.stage = 2                     -> {<<"subscription", r.id>>}
    [] r.op \in {"reservationStatus", "subscriptionStatus"} /\ r.stage = 2 -> {<<"lot", r.row.lot>>}
    [] OTHER -> {}

Blockers(s) ==
  {t \in Sessions \ {s} : req[t].held \cap (Locking(req[s]) \cup Written(req[s])) # {}}

Runs(s, op, stage) == req[s].op = op /\ req[s].stage = stage /\ Blockers(s) = {}

Advance(s, next) ==
  /\ req' = [req EXCEPT ![s] =
       [next EXCEPT !.stage = @ + 1, !.held = @ \cup Locking(req[s])]]
  /\ UNCHANGED <<lot, reservation, subscription, payment>>

Commits(s, op, stage) ==
  /\ Runs(s, op, stage)
  /\ req' = [req EXCEPT ![s] = Idle]

-----------------------------------------------------------------------------
(* Reads, of the last commit, and lock statements.                          *)
ReadRow(s) ==
  LET r == req[s]
  IN \/ \E op \in {"editReservation", "reservationStatus"} :
          Runs(s, op, 0) /\ Advance(s, [r EXCEPT !.row = reservation[r.id]])
     \/ \E op \in {"editSubscription", "subscriptionStatus", "resubmit"} :
          Runs(s, op, 0) /\ Advance(s, [r EXCEPT !.row = subscription[r.id]])
     \/ \E op \in {"cancelPayment", "refund"} :
          Runs(s, op, 0) /\ Advance(s, [r EXCEPT !.row = payment[r.id]])
     \/ Runs(s, "pay", 1)
          /\ Advance(s, [r EXCEPT !.row = [reservation[r.from] EXCEPT !.fee = FeeRemaining(r.from)]])
     \/ /\ Runs(s, "subscribe", 0)
        /\ IF r.from = 0 THEN Advance(s, r)
           ELSE Advance(s, [r EXCEPT !.row = reservation[r.from], !.lot = reservation[r.from].lot])

LockRow(s) ==
  /\ \/ \E op \in {"reserve", "pay"} : Runs(s, op, 0)
     \/ \E op \in {"editReservation", "editSubscription", "subscribe", "reservationStatus",
                   "subscriptionStatus", "resubmit"} : Runs(s, op, 1)
  /\ Advance(s, req[s])

(* assertReservationAvailability and assertSubscriptionAvailability, of a   *)
(* lot that is not sold, for reservation r or subscription u.               *)
Unreserved(l, r, u) ==
  /\ ActiveReservations(l) \ {r} = {}
  /\ ActiveSubscriptions(l) \ {u} = {}

Linked(row) == row.state \in {"ACTIVE", "CONFIRMED", "CONVERTED"}

(* The subscription is inserted and refers to its reservation; the fee that *)
(* will be allocated to it is read.                                         *)
ReadFees(s) ==
  LET r == req[s]
  IN /\ Runs(s, "subscribe", 2)
     /\ lot[r.lot] # "SOLD" /\ Unreserved(r.lot, r.from, 0)
     /\ r.from # 0 => Linked(r.row)
     /\ Advance(s, IF r.from = 0 THEN r ELSE [r EXCEPT !.plan = AllocationPlan(r.from, r.amount)])

-----------------------------------------------------------------------------
(* Operations: the statement that commits.                                  *)
CreateReservation(s) ==
  LET r == req[s]
  IN /\ Commits(s, "reserve", 1)
     /\ reservation[r.id].state = "none"
     /\ lot[r.lot] # "SOLD" /\ Unreserved(r.lot, 0, 0)
     /\ reservation' = [reservation EXCEPT ![r.id] =
          [state |-> r.to, lot |-> r.lot, fee |-> r.amount]]
     /\ lot' = IF r.to = "DRAFT" THEN lot ELSE [lot EXCEPT ![r.lot] = "RESERVED"]
     /\ UNCHANGED <<subscription, payment>>

(* The lots, old and new, keep their status.                                *)
UpdateReservation(s) ==
  LET r == req[s]
  IN /\ Commits(s, "editReservation", 2)
     /\ r.row.state \in {"DRAFT", "ACTIVE"}
     /\ lot[r.lot] # "SOLD" /\ Unreserved(r.lot, r.id, 0)
     /\ reservation' = [reservation EXCEPT ![r.id] =
          [state |-> IF r.to = NotGiven THEN @.state ELSE r.to, lot |-> r.lot, fee |-> r.amount]]
     /\ UNCHANGED <<lot, subscription, payment>>

(* allowedTransitions of changeReservationStatus                            *)
MayBecome(from, to) ==
  \/ from = "DRAFT" /\ to = "CANCELLED"
  \/ from = "ACTIVE" /\ to \in {"CONFIRMED", "EXPIRED", "CANCELLED", "CONVERTED"}
  \/ from = "CONFIRMED" /\ to \in {"CONVERTED", "CANCELLED"}

(* The status that was read decides; the index on active reservations       *)
(* refuses a second one of a lot.                                           *)
ChangeReservationStatus(s) ==
  LET r == req[s]
  IN /\ Commits(s, "reservationStatus", 2)
     /\ MayBecome(r.row.state, r.to)
     /\ r.to = "CONFIRMED" => ActiveReservations(reservation[r.id].lot) \ {r.id} = {}
     /\ reservation' = [reservation EXCEPT ![r.id].state = r.to]
     /\ lot' = [lot EXCEPT ![r.row.lot] =
          IF r.to \in {"CONFIRMED", "CONVERTED"} THEN "RESERVED" ELSE "AVAILABLE"]
     /\ UNCHANGED <<subscription, payment>>

CreateSubscription(s) ==
  LET r == req[s]
  IN /\ Commits(s, "subscribe", 3)
     /\ subscription[r.id].state = "none"
     /\ subscription' = [subscription EXCEPT ![r.id] =
          [state |-> r.to, lot |-> r.lot, from |-> r.from]]
     /\ payment' = [p \in Payments |-> [payment[p] EXCEPT !.allocated = @ + r.plan[p]]]
     /\ lot' = [lot EXCEPT ![r.lot] = IF r.to = "APPROVED" THEN "SOLD" ELSE "RESERVED"]
     /\ reservation' = IF r.from = 0 \/ r.row.state = "CONVERTED" THEN reservation
                       ELSE [reservation EXCEPT ![r.from].state = "CONVERTED"]

(* updateSubscription of one that came from no reservation.                 *)
UpdateSubscription(s) ==
  LET r == req[s]
  IN /\ Commits(s, "editSubscription", 2)
     /\ r.row.state \in {"DRAFT", "SUBMITTED", "REJECTED"}
     /\ lot[r.lot] # "SOLD" /\ Unreserved(r.lot, 0, r.id)
     /\ subscription' = [subscription EXCEPT ![r.id].state = IF r.to = NotGiven THEN @ ELSE r.to,
                                             ![r.id].lot = r.lot]
     /\ UNCHANGED <<lot, reservation, payment>>

(* allowedTransitions of changeSubscriptionStatus                           *)
MayMove(from, to) ==
  \/ from = "DRAFT" /\ to \in {"SUBMITTED", "CANCELLED"}
  \/ from = "SUBMITTED" /\ to \in {"APPROVED", "REJECTED", "CANCELLED"}
  \/ from = "REJECTED" /\ to = "CANCELLED"

ChangeSubscriptionStatus(s) ==
  LET r == req[s]
  IN /\ Commits(s, "subscriptionStatus", 2)
     /\ MayMove(r.row.state, r.to)
     /\ subscription' = [subscription EXCEPT ![r.id].state = r.to]
     /\ lot' = CASE r.to = "SUBMITTED" -> lot
                 [] r.to = "APPROVED" -> [lot EXCEPT ![r.row.lot] = "SOLD"]
                 [] OTHER -> [lot EXCEPT ![r.row.lot] =
                                IF r.row.from = 0 THEN "AVAILABLE" ELSE "RESERVED"]
     /\ UNCHANGED <<reservation, payment>>

(* changeSubscriptionStatus from REJECTED to SUBMITTED, an endpoint of its  *)
(* own here: it looks at neither the lot nor who holds it by now.           *)
Resubmit(s) ==
  /\ Commits(s, "resubmit", 2)
  /\ req[s].row.state = "REJECTED"
  /\ subscription' = [subscription EXCEPT ![req[s].id].state = "SUBMITTED"]
  /\ UNCHANGED <<lot, reservation, payment>>

(* Never more than remains of the fee, which was read under the lock.       *)
CreateReservationPayment(s) ==
  LET r == req[s]
  IN /\ Commits(s, "pay", 2)
     /\ r.row.state \notin {"CANCELLED", "EXPIRED"}
     /\ r.amount <= r.row.fee
     /\ payment[r.id].state = "none"
     /\ payment' = [payment EXCEPT ![r.id] =
          [state |-> "CONFIRMED", of |-> r.from, amount |-> r.amount, refunded |-> 0,
           allocated |-> 0, kept |-> r.amount]]
     /\ UNCHANGED <<lot, reservation, subscription>>

(* cancelReservationPayment gives the whole amount back.                    *)
CancelReservationPayment(s) ==
  LET r == req[s]
  IN /\ Commits(s, "cancelPayment", 1)
     /\ r.row.state # "CANCELLED" /\ r.row.refunded = 0 /\ r.row.allocated = 0
     /\ payment' = [payment EXCEPT ![r.id] =
          [payment[r.id] EXCEPT !.state = "CANCELLED", !.kept = @ - r.row.amount]]
     /\ UNCHANGED <<lot, reservation, subscription>>

RefundReservationPayment(s) ==
  LET r == req[s]
      given == r.row.refunded + r.amount
  IN /\ Commits(s, "refund", 1)
     /\ r.row.state # "CANCELLED" /\ r.row.allocated = 0
     /\ given <= r.row.amount
     /\ payment' = [payment EXCEPT ![r.id] =
          [payment[r.id] EXCEPT !.state = IF given >= r.row.amount THEN "REFUNDED" ELSE "PARTIALLY_REFUNDED",
                    !.refunded = @ + r.amount, !.kept = @ - r.amount]]
     /\ UNCHANGED <<lot, reservation, subscription>>

(* A refusal, a lost connection: ROLLBACK.                                  *)
Rollback(s) ==
  /\ req[s] # Idle
  /\ req' = [req EXCEPT ![s] = Idle]
  /\ UNCHANGED <<lot, reservation, subscription, payment>>

-----------------------------------------------------------------------------
FilledIn(fields) == [f \in DOMAIN Idle |-> IF f \in DOMAIN fields THEN fields[f] ELSE Idle[f]]

Begin(s, fields) ==
  /\ fields.op \in Endpoints /\ req[s] = Idle
  /\ req' = [req EXCEPT ![s] = FilledIn(fields)]
  /\ UNCHANGED <<lot, reservation, subscription, payment>>

Unused(rows, ids) == {i \in ids : rows[i].state = "none" /\ \A j \in ids : rows[j].state = "none" => i <= j}
Known(rows, ids) == {i \in ids : rows[i].state # "none"}

RequestReservation(s) ==
  \/ \E r \in Unused(reservation, Reservations), l \in Lots, fee \in Amounts, to \in {"DRAFT", "ACTIVE"} :
       Begin(s, [op |-> "reserve", id |-> r, lot |-> l, amount |-> fee, to |-> to])
  \/ \E r \in Known(reservation, Reservations), l \in Lots, fee \in Amounts, to \in {NotGiven, "ACTIVE"} :
       Begin(s, [op |-> "editReservation", id |-> r, lot |-> l, amount |-> fee, to |-> to])
  \/ \E r \in Known(reservation, Reservations), to \in {"CONFIRMED", "CANCELLED", "EXPIRED", "CONVERTED"} :
       Begin(s, [op |-> "reservationStatus", id |-> r, to |-> to])

RequestSubscription(s) ==
  \/ \E u \in Unused(subscription, Subscriptions), to \in {"DRAFT", "SUBMITTED", "APPROVED"} :
       \/ \E l \in Lots :
            Begin(s, [op |-> "subscribe", id |-> u, lot |-> l, to |-> to])
       \/ \E r \in Known(reservation, Reservations), n \in Financed :
            Begin(s, [op |-> "subscribe", id |-> u, from |-> r, amount |-> n, to |-> to])
  \/ \E u \in Known(subscription, Subscriptions) :
       \/ \E l \in Lots, to \in {NotGiven, "SUBMITTED"} :
            /\ subscription[u].from = 0
            /\ Begin(s, [op |-> "editSubscription", id |-> u, lot |-> l, to |-> to])
       \/ \E to \in {"SUBMITTED", "APPROVED", "REJECTED", "CANCELLED"} :
            Begin(s, [op |-> "subscriptionStatus", id |-> u, to |-> to])
       \/ Begin(s, [op |-> "resubmit", id |-> u])

RequestPayment(s) ==
  \/ \E p \in Unused(payment, Payments), r \in Known(reservation, Reservations), a \in Amounts :
       Begin(s, [op |-> "pay", id |-> p, from |-> r, amount |-> a])
  \/ \E p \in Known(payment, Payments) :
       \/ Begin(s, [op |-> "cancelPayment", id |-> p])
       \/ \E a \in Amounts : Begin(s, [op |-> "refund", id |-> p, amount |-> a])

Next == \E s \in Sessions :
  \/ RequestReservation(s) \/ RequestSubscription(s) \/ RequestPayment(s)
  \/ ReadRow(s) \/ LockRow(s) \/ ReadFees(s) \/ Rollback(s)
  \/ CreateReservation(s) \/ UpdateReservation(s) \/ ChangeReservationStatus(s)
  \/ CreateSubscription(s) \/ UpdateSubscription(s) \/ ChangeSubscriptionStatus(s) \/ Resubmit(s)
  \/ CreateReservationPayment(s) \/ CancelReservationPayment(s) \/ RefundReservationPayment(s)

Spec == Init /\ [][Next]_vars

-----------------------------------------------------------------------------
(* Properties.                                                              *)

(* A lot is promised to one buyer: a subscription that is not refused       *)
(* excludes every other, and every active reservation (sales.service.ts,    *)
(* "Ce bien vient d'etre reserve ou vendu").                                *)
OneBuyerPerLot ==
  \A l \in Lots : Cardinality(ActiveReservations(l)) + Cardinality(ActiveSubscriptions(l)) <= 1

(* Payments of the fee made at once never exceed it ("Le montant depasse le *)
(* restant a encaisser").                                                   *)
FeePaidWithinFee ==
  [][\A p \in Payments :
       (payment[p].state = "none" /\ payment'[p].state # "none")
         => (FeePaid(payment[p].of) <= reservation[payment[p].of].fee)']_vars

(* What was allocated to a subscription is still in the desk or the bank,   *)
(* and no payment is given back twice.                                      *)
AllocatedIsKept == \A p \in Payments : payment[p].allocated <= payment[p].kept

(* The contract of a reservation: "maintenir le bien indisponible a la      *)
(* vente pendant la periode de reservation validee".                        *)
KeptForTheReservation ==
  \A l \in Lots : lot[l] = "SOLD" => ActiveReservations(l) = {}
=============================================================================

---------------------------- MODULE LotSales_proofs ----------------------------
(***************************************************************************)
(* Proofs about LotSales, for any requests, lots, reservations and          *)
(* payments: its type invariant, that the payments of a fee never exceed    *)
(* it, and that a lot goes to one buyer.  And about the installments of     *)
(* SalesBilling: which requests exclude each other, and that the amounts of *)
(* an invoice are those of its payments.                                    *)
(***************************************************************************)
EXTENDS LotSales, SalesBooks, Sums

-----------------------------------------------------------------------------
(* Requests.                                                                *)

Ids == Reservations \cup Subscriptions \cup Payments \cup {0}
Targets == ReservationStates \cup SubscriptionStates \cup {NotGiven}
ReadRows == ReservationRows \cup SubscriptionRows \cup PaymentRows \cup {NotRead}

LEMMA Fields ==
  ASSUME NEW n \in Requests
  PROVE  /\ n.op \in AllEndpoints \cup {"none"} /\ n.stage \in 0..3 /\ n.id \in Ids
         /\ n.from \in Reservations \cup {0} /\ n.lot \in Lots \cup {0} /\ n.to \in Targets
         /\ n.amount \in 0..MaxFee /\ n.row \in ReadRows /\ n.plan \in [Payments -> Nat]
         /\ n.held \in SUBSET RowLocks
BY ZenonT(60) DEF Requests, Ids, Targets, ReadRows

LEMMA RequestType ==
  ASSUME NEW op \in AllEndpoints \cup {"none"}, NEW stage \in 0..3, NEW id \in Ids,
         NEW from \in Reservations \cup {0}, NEW l \in Lots \cup {0}, NEW to \in Targets,
         NEW amount \in 0..MaxFee, NEW row \in ReadRows, NEW plan \in [Payments -> Nat],
         NEW held \in SUBSET RowLocks
  PROVE  [op |-> op, stage |-> stage, id |-> id, from |-> from, lot |-> l, to |-> to,
          amount |-> amount, row |-> row, plan |-> plan, held |-> held] \in Requests
BY ZenonT(60) DEF Requests, Ids, Targets, ReadRows

(* A request of which some columns were written again.                      *)
LEMMA Rebuilt ==
  ASSUME NEW r \in Requests, NEW m, m = [f \in DOMAIN r |-> m[f]],
         m.op \in AllEndpoints \cup {"none"}, m.stage \in 0..3, m.id \in Ids,
         m.from \in Reservations \cup {0}, m.lot \in Lots \cup {0}, m.to \in Targets,
         m.amount \in 0..MaxFee, m.row \in ReadRows, m.plan \in [Payments -> Nat],
         m.held \in SUBSET RowLocks
  PROVE  m \in Requests
<1>1. DOMAIN r = {"op", "stage", "id", "from", "lot", "to", "amount", "row", "plan", "held"}
  BY DEF Requests
<1>2. m = [op |-> m.op, stage |-> m.stage, id |-> m.id, from |-> m.from, lot |-> m.lot,
           to |-> m.to, amount |-> m.amount, row |-> m.row, plan |-> m.plan, held |-> m.held]
  BY <1>1
<1>3. [op |-> m.op, stage |-> m.stage, id |-> m.id, from |-> m.from, lot |-> m.lot,
       to |-> m.to, amount |-> m.amount, row |-> m.row, plan |-> m.plan, held |-> m.held]
        \in Requests
  BY RequestType
<1> QED  BY <1>2, <1>3

(* The request after its next statement, with the locks that this took.     *)
Advanced(n, held) == [n EXCEPT !.stage = n.stage + 1, !.held = n.held \cup held]

LEMMA NextStage ==
  ASSUME NEW n \in Requests, NEW held \in SUBSET RowLocks, n.stage \in 0..2,
         NEW m, m = Advanced(n, held)
  PROVE  /\ m \in Requests
         /\ m.op = n.op /\ m.id = n.id /\ m.from = n.from /\ m.to = n.to
         /\ m.amount = n.amount /\ m.lot = n.lot /\ m.row = n.row /\ m.plan = n.plan
         /\ m.stage = n.stage + 1 /\ m.held = n.held \cup held
<1>1. /\ m.op = n.op /\ m.id = n.id /\ m.from = n.from /\ m.to = n.to
      /\ m.amount = n.amount /\ m.lot = n.lot /\ m.row = n.row /\ m.plan = n.plan
      /\ m.stage = n.stage + 1 /\ m.held = n.held \cup held
      /\ m = [f \in DOMAIN n |-> m[f]]
  BY DEF Requests, Advanced
<1>2. n.held \in SUBSET RowLocks  BY Fields
<1>3. m.stage \in 0..3 /\ m.held \in SUBSET RowLocks  BY <1>1, <1>2
<1> QED  BY <1>1, <1>3, Fields, Rebuilt

(* What a request has read.                                                 *)
WithRow(n, row) == [n EXCEPT !.row = row]
WithLot(n, row, l) == [n EXCEPT !.row = row, !.lot = l]
WithPlan(n, plan) == [n EXCEPT !.plan = plan]

LEMMA WithRowType ==
  ASSUME NEW n \in Requests, NEW row \in ReadRows, NEW m, m = WithRow(n, row)
  PROVE  /\ m \in Requests
         /\ m.op = n.op /\ m.id = n.id /\ m.from = n.from /\ m.to = n.to
         /\ m.amount = n.amount /\ m.stage = n.stage /\ m.held = n.held
         /\ m.row = row /\ m.lot = n.lot /\ m.plan = n.plan
<1>1. /\ m.op = n.op /\ m.id = n.id /\ m.from = n.from /\ m.to = n.to
      /\ m.amount = n.amount /\ m.stage = n.stage /\ m.held = n.held
      /\ m.row = row /\ m.lot = n.lot /\ m.plan = n.plan /\ m = [f \in DOMAIN n |-> m[f]]
  BY DEF Requests, WithRow
<1> QED  BY <1>1, Fields, Rebuilt

LEMMA WithLotType ==
  ASSUME NEW n \in Requests, NEW row \in ReadRows, NEW l \in Lots, NEW m, m = WithLot(n, row, l)
  PROVE  /\ m \in Requests
         /\ m.op = n.op /\ m.id = n.id /\ m.from = n.from /\ m.to = n.to
         /\ m.amount = n.amount /\ m.stage = n.stage /\ m.held = n.held
         /\ m.row = row /\ m.lot = l /\ m.plan = n.plan
<1>1. /\ m.op = n.op /\ m.id = n.id /\ m.from = n.from /\ m.to = n.to
      /\ m.amount = n.amount /\ m.stage = n.stage /\ m.held = n.held
      /\ m.row = row /\ m.lot = l /\ m.plan = n.plan /\ m = [f \in DOMAIN n |-> m[f]]
  BY DEF Requests, WithLot
<1> QED  BY <1>1, Fields, Rebuilt

LEMMA WithPlanType ==
  ASSUME NEW n \in Requests, NEW plan \in [Payments -> Nat], NEW m, m = WithPlan(n, plan)
  PROVE  /\ m \in Requests
         /\ m.op = n.op /\ m.id = n.id /\ m.from = n.from /\ m.to = n.to
         /\ m.amount = n.amount /\ m.stage = n.stage /\ m.held = n.held
         /\ m.row = n.row /\ m.lot = n.lot /\ m.plan = plan
<1>1. /\ m.op = n.op /\ m.id = n.id /\ m.from = n.from /\ m.to = n.to
      /\ m.amount = n.amount /\ m.stage = n.stage /\ m.held = n.held
      /\ m.row = n.row /\ m.lot = n.lot /\ m.plan = plan /\ m = [f \in DOMAIN n |-> m[f]]
  BY DEF Requests, WithPlan
<1> QED  BY <1>1, Fields, Rebuilt

-----------------------------------------------------------------------------
(* Sums of payments.                                                        *)

LEMMA IdleType == Idle \in Requests
<1>1. NotAllocated \in [Payments -> Nat] /\ 0 \in 0..MaxFee
  BY AmountsAssumption DEF NotAllocated
<1> QED  BY <1>1 DEF Idle, Requests

LEMMA PaymentsFinite ==
  ASSUME NEW S, S \subseteq Payments PROVE IsFiniteSet(S)
BY FiniteAssumption, FS_Subset

Counted(r) == {p \in PaymentsOf(r) : payment[p].state # "CANCELLED"}
AmountOf == [p \in Payments |-> payment[p].amount]

LEMMA FeePaidSum ==
  ASSUME TypeOK, NEW r
  PROVE  /\ FeePaid(r) = SumFunctionOnSet(AmountOf, Counted(r))
         /\ Counted(r) \subseteq Payments /\ IsFiniteSet(Counted(r))
         /\ \A p \in Payments : AmountOf[p] = payment[p].amount /\ AmountOf[p] \in Nat
         /\ FeePaid(r) \in Nat
<1>1. Counted(r) \subseteq Payments  BY DEF Counted, PaymentsOf
<1>2. IsFiniteSet(Counted(r))  BY <1>1, PaymentsFinite
<1>3. FeePaid(r) = SumFunctionOnSet(AmountOf, Counted(r))
  BY DEF FeePaid, Total, AmountOf, Counted
<1>4. \A p \in Payments : AmountOf[p] = payment[p].amount /\ AmountOf[p] \in Nat
  BY AmountsAssumption DEF AmountOf, TypeOK, PaymentRows
<1>5. FeePaid(r) \in Nat  BY <1>1, <1>2, <1>3, <1>4, SumNat
<1> QED  BY <1>1, <1>2, <1>3, <1>4, <1>5

LEMMA FeeRemainingType ==
  ASSUME TypeOK, NEW r \in Reservations PROVE FeeRemaining(r) \in 0..MaxFee
<1>1. FeePaid(r) \in Nat /\ reservation[r].fee \in 0..MaxFee
  BY FeePaidSum DEF TypeOK, ReservationRows
<1> QED  BY <1>1, AmountsAssumption DEF FeeRemaining, AtLeast0

LEMMA PlanType ==
  ASSUME TypeOK, NEW r, NEW n \in Nat PROVE AllocationPlan(r, n) \in [Payments -> Nat]
<1> DEFINE refunds == [p \in Payments |-> payment[p]["refunded"]]
           allocations == [p \in Payments |-> payment[p]["allocated"]]
           available == [p \in Payments |-> Available(p)]
<1>1. \A p \in Payments :
        /\ payment[p].amount \in Nat /\ payment[p].refunded \in Nat /\ payment[p].allocated \in Nat
  BY AmountsAssumption DEF TypeOK, PaymentRows
<1>2. \A p \in Payments : Available(p) \in Nat  BY <1>1 DEF Available, AtLeast0
<1>3. PaymentsOf(r) \subseteq Payments /\ IsFiniteSet(PaymentsOf(r))
  BY PaymentsFinite DEF PaymentsOf
<1>4. Total("refunded", PaymentsOf(r)) \in Int
  <2>1. \A p \in PaymentsOf(r) : refunds[p] \in Int  BY <1>1, <1>3
  <2>2. Total("refunded", PaymentsOf(r)) = SumFunctionOnSet(refunds, PaymentsOf(r))  BY DEF Total
  <2> HIDE DEF refunds
  <2> QED  BY <1>3, <2>1, <2>2, SumType
<1>5. Total("allocated", PaymentsOf(r)) \in Int
  <2>1. \A p \in PaymentsOf(r) : allocations[p] \in Int  BY <1>1, <1>3
  <2>2. Total("allocated", PaymentsOf(r)) = SumFunctionOnSet(allocations, PaymentsOf(r))
    BY DEF Total
  <2> HIDE DEF allocations
  <2> QED  BY <1>3, <2>1, <2>2, SumType
<1>6. FeeAvailable(r) \in Int  BY <1>4, <1>5, FeePaidSum DEF FeeAvailable
<1>7. ASSUME NEW S, S \subseteq PaymentsOf(r) PROVE AvailableOf(S) \in Int
  <2>1. \A p \in S : available[p] \in Int  BY <1>2, <1>3, <1>7
  <2>2. AvailableOf(S) = SumFunctionOnSet(available, S)  BY DEF AvailableOf
  <2>3. IsFiniteSet(S)  BY <1>3, <1>7, PaymentsFinite
  <2> HIDE DEF available
  <2> QED  BY <2>1, <2>2, <2>3, SumType
<1> DEFINE before(p) == AvailableOf({q \in PaymentsOf(r) : q < p})
           deductible == AtLeast0(Smaller(FeeAvailable(r), n))
<1>8. \A p : before(p) \in Int  BY <1>7
<1>9. deductible \in Int  BY <1>6 DEF AtLeast0, Smaller
<1>10. AllocationPlan(r, n) =
         [p \in Payments |-> IF payment[p].of = r
                             THEN Smaller(Available(p), AtLeast0(deductible - before(p))) ELSE 0]
  BY DEF AllocationPlan
<1> HIDE DEF before, deductible
<1>11. \A p \in Payments : Smaller(Available(p), AtLeast0(deductible - before(p))) \in Nat
  BY <1>2, <1>8, <1>9 DEF Smaller, AtLeast0
<1> QED  BY <1>10, <1>11

-----------------------------------------------------------------------------
(* The inductive invariant.                                                 *)

(* No row is locked twice.                                                  *)
Exclusion == \A s, t \in Sessions : s # t => req[s].held \cap req[t].held = {}

(* A request stays one for the rows that it was made for, and knows them    *)
(* once it has read them.                                                   *)
ReservationOK(r) ==
  /\ r.op = "reserve" =>
       r.id \in Reservations /\ r.lot \in Lots /\ r.to \in {"DRAFT", "ACTIVE"}
  /\ r.op \in {"editReservation", "reservationStatus"} =>
       /\ r.id \in Reservations /\ reservation[r.id].state # "none"
       /\ r.stage >= 1 => r.row \in ReservationRows
  /\ r.op = "editReservation" => r.lot \in Lots /\ r.to \in {NotGiven, "ACTIVE"}

SubscriptionOK(r) ==
  /\ r.op = "subscribe" =>
       /\ r.id \in Subscriptions /\ r.to \in {"DRAFT", "SUBMITTED", "APPROVED"}
       /\ (r.from = 0 \/ r.stage >= 1) => r.lot \in Lots
       /\ r.from # 0 => /\ r.from \in Reservations /\ reservation[r.from].state # "none"
                        /\ r.stage >= 1 => r.row \in ReservationRows
  /\ r.op \in {"editSubscription", "subscriptionStatus", "resubmit"} =>
       r.id \in Subscriptions /\ (r.stage >= 1 => r.row \in SubscriptionRows)
  /\ r.op = "editSubscription" => r.lot \in Lots /\ r.to \in {NotGiven, "SUBMITTED"}

FeeOK(r) ==
  /\ r.op = "pay" =>
       /\ r.id \in Payments /\ r.from \in Reservations /\ reservation[r.from].state # "none"
       /\ r.amount \in Amounts
       /\ r.stage >= 1 => <<"reservation", r.from>> \in r.held
       /\ r.stage >= 2 => r.row \in ReservationRows
  /\ r.op \in {"cancelPayment", "refund"} =>
       /\ r.id \in Payments /\ payment[r.id].state # "none"
       /\ r.stage >= 1 => r.row \in PaymentRows

(* Who takes a lot holds its row from before the check to COMMIT.           *)
TakesLot(r) ==
  \/ r.op = "reserve" /\ r.stage >= 1
  \/ r.op \in {"editReservation", "editSubscription", "subscribe"} /\ r.stage >= 2
LotOK(r) == TakesLot(r) => <<"lot", r.lot>> \in r.held

RequestOK(r) ==
  r.op \in Endpoints \cup {"none"} /\ ReservationOK(r) /\ SubscriptionOK(r) /\ FeeOK(r) /\ LotOK(r)

RowsOK ==
  /\ \A r \in Reservations : reservation[r].state # "none" => reservation[r].lot \in Lots
  /\ \A p \in Payments :
       /\ payment[p].state = "none" => payment[p].of = 0
       /\ payment[p].state = "CANCELLED" => "cancelPayment" \in Endpoints

IInv == TypeOK /\ Exclusion /\ RowsOK /\ \A s \in Sessions : RequestOK(req[s])

-----------------------------------------------------------------------------
(* Steps that change one request and nothing else.                          *)

LEMMA OneRequest ==
  ASSUME IInv, NEW s \in Sessions, NEW n \in Requests, RequestOK(n),
         \A t \in Sessions \ {s} : n.held \cap req[t].held = {},
         req' = [req EXCEPT ![s] = n],
         UNCHANGED <<lot, reservation, subscription, payment>>
  PROVE  IInv'
<1>1. \A t \in Sessions : req'[t] = IF t = s THEN n ELSE req[t]
  BY DEF IInv, TypeOK
<1>2. TypeOK'  BY DEF IInv, TypeOK
<1>3. Exclusion'  BY <1>1 DEF IInv, Exclusion
<1>4. RowsOK'  BY DEF IInv, RowsOK
<1>5. ASSUME NEW t \in Sessions PROVE RequestOK(req[t])'
  <2>1. RequestOK(req'[t])  BY <1>1 DEF IInv
  <2> QED  BY <2>1 DEF RequestOK, ReservationOK, SubscriptionOK, FeeOK, LotOK, TakesLot
<1> QED  BY <1>2, <1>3, <1>4, <1>5 DEF IInv

LEMMA BackToIdle ==
  ASSUME IInv, NEW s \in Sessions, req' = [req EXCEPT ![s] = Idle],
         UNCHANGED <<lot, reservation, subscription, payment>>
  PROVE  IInv'
<1>1. RequestOK(Idle)
  BY DEF Idle, RequestOK, ReservationOK, SubscriptionOK, FeeOK, LotOK, TakesLot
<1>2. Idle.held = {}  BY DEF Idle
<1> QED  BY <1>1, <1>2, IdleType, OneRequest

LEMMA Requested ==
  ASSUME IInv, NEW s \in Sessions PROVE req[s] \in Requests /\ RequestOK(req[s])
BY DEF IInv, TypeOK

(* What was held by nobody may be locked, and is a row.                     *)
LEMMA Granted ==
  ASSUME IInv, NEW s \in Sessions, Blockers(s) = {}
  PROVE  \A t \in Sessions \ {s} : (req[s].held \cup Locking(req[s])) \cap req[t].held = {}
BY DEF Blockers, IInv, Exclusion

LEMMA LockingType ==
  ASSUME IInv, NEW s \in Sessions PROVE Locking(req[s]) \subseteq RowLocks
<1> DEFINE r == req[s]
<1>0. r \in Requests /\ ReservationOK(r) /\ SubscriptionOK(r) /\ FeeOK(r)
  BY Requested DEF RequestOK
<1>1. r.op \in {"reserve", "editReservation", "editSubscription"} => r.lot \in Lots
  BY <1>0 DEF ReservationOK, SubscriptionOK
<1>2. r.op = "subscribe" /\ r.stage = 1 => r.lot \in Lots  BY <1>0 DEF SubscriptionOK
<1>3. r.op = "subscribe" /\ r.from # 0 => r.from \in Reservations  BY <1>0 DEF SubscriptionOK
<1>4. r.op = "reservationStatus" => r.id \in Reservations  BY <1>0 DEF ReservationOK
<1>5. r.op \in {"subscriptionStatus", "resubmit"} => r.id \in Subscriptions
  BY <1>0 DEF SubscriptionOK
<1>6. r.op = "pay" => r.from \in Reservations  BY <1>0 DEF FeeOK
<1>7. /\ \A l \in Lots : <<"lot", l>> \in RowLocks
      /\ \A i \in Reservations : <<"reservation", i>> \in RowLocks /\ <<"fee", i>> \in RowLocks
      /\ \A u \in Subscriptions : <<"subscription", u>> \in RowLocks
  BY DEF RowLocks
<1> HIDE DEF r
<1> QED  BY <1>1, <1>2, <1>3, <1>4, <1>5, <1>6, <1>7 DEF Locking, LotRow, ReservationRow, r

(* A request that goes on, with what it has read.                           *)
LEMMA GoesOn ==
  ASSUME IInv, NEW s \in Sessions, Blockers(s) = {}, NEW n \in Requests,
         n.stage = req[s].stage, n.held = req[s].held, n.stage \in 0..2, Advance(s, n),
         RequestOK(Advanced(n, Locking(req[s])))
  PROVE  IInv'
<1> DEFINE m == Advanced(n, Locking(req[s]))
<1>1. m \in Requests /\ m.held = req[s].held \cup Locking(req[s])
  BY LockingType, NextStage
<1>2. req' = [req EXCEPT ![s] = m] /\ UNCHANGED <<lot, reservation, subscription, payment>>
  BY DEF Advance, Advanced
<1> HIDE DEF m
<1>3. \A t \in Sessions \ {s} : m.held \cap req[t].held = {}  BY <1>1, Granted
<1>4. RequestOK(m)  BY DEF m
<1> QED  BY <1>1, <1>2, <1>3, <1>4, OneRequest

LEMMA LockRowKeeps ==
  ASSUME IInv, NEW s \in Sessions, LockRow(s) PROVE IInv'
<1> DEFINE r == req[s]
           m == Advanced(r, Locking(r))
<1>0. r \in Requests /\ RequestOK(r)  BY Requested
<1>1. /\ Blockers(s) = {} /\ Advance(s, r)
      /\ \/ r.op \in {"reserve", "pay"} /\ r.stage = 0
         \/ /\ r.op \in {"editReservation", "editSubscription", "subscribe", "reservationStatus",
                         "subscriptionStatus", "resubmit"}
            /\ r.stage = 1
  BY DEF LockRow, Runs
<1>2. r.stage \in 0..2  BY <1>1
<1>3. /\ m.op = r.op /\ m.id = r.id /\ m.from = r.from /\ m.to = r.to /\ m.amount = r.amount
      /\ m.lot = r.lot /\ m.row = r.row /\ m.stage = r.stage + 1 /\ m.held = r.held \cup Locking(r)
  BY <1>0, <1>2, LockingType, NextStage
<1> HIDE DEF m, r
<1>4. TakesLot(m) => <<"lot", r.lot>> \in Locking(r)
  BY <1>1, <1>3 DEF TakesLot, Locking, LotRow
<1>5. r.op = "pay" => <<"reservation", r.from>> \in Locking(r)
  BY <1>1 DEF Locking, ReservationRow
<1>6. ReservationOK(m) /\ SubscriptionOK(m)
  <2>1. ReservationOK(r) /\ SubscriptionOK(r)  BY <1>0 DEF RequestOK
  <2>2. CASE r.op \in {"reserve", "pay"}
    BY <1>3, <2>1, <2>2 DEF ReservationOK, SubscriptionOK
  <2>3. CASE r.op \notin {"reserve", "pay"}
    <3>1. r.stage = 1 /\ r.stage >= 1  BY <1>1, <2>3
    <3> QED  BY <1>3, <2>1, <2>3, <3>1 DEF ReservationOK, SubscriptionOK
  <2> QED  BY <2>2, <2>3
<1>7. FeeOK(m)
  BY <1>0, <1>1, <1>3, <1>5 DEF RequestOK, FeeOK
<1>8. RequestOK(m)
  BY <1>0, <1>3, <1>4, <1>6, <1>7 DEF RequestOK, LotOK
<1> QED  BY <1>0, <1>1, <1>2, <1>8, GoesOn DEF r, m

LEMMA ReadReservation ==
  ASSUME IInv, NEW s \in Sessions, NEW op \in {"editReservation", "reservationStatus"},
         Runs(s, op, 0), Advance(s, [req[s] EXCEPT !.row = reservation[req[s].id]])
  PROVE  IInv'
<1> DEFINE r == req[s]
           n == WithRow(r, reservation[r.id])
           m == Advanced(n, Locking(r))
<1>0. r \in Requests /\ RequestOK(r)  BY Requested
<1>1. r.op = op /\ r.stage = 0 /\ Blockers(s) = {}  BY DEF Runs
<1>2. r.id \in Reservations /\ reservation[r.id] \in ReservationRows
  BY <1>0, <1>1 DEF RequestOK, ReservationOK, IInv, TypeOK
<1>3. reservation[r.id] \in ReadRows  BY <1>2 DEF ReadRows
<1>4. /\ n \in Requests /\ n.row = reservation[r.id]
      /\ n.op = r.op /\ n.id = r.id /\ n.from = r.from /\ n.to = r.to /\ n.lot = r.lot
      /\ n.amount = r.amount /\ n.stage = 0 /\ n.held = r.held
  BY <1>0, <1>1, <1>3, WithRowType
<1>5. Advance(s, n)  BY DEF WithRow
<1> HIDE DEF n
<1>6. /\ m.op = r.op /\ m.id = r.id /\ m.from = r.from /\ m.to = r.to /\ m.amount = r.amount
      /\ m.lot = r.lot /\ m.row = reservation[r.id] /\ m.stage = 1
  BY <1>4, LockingType, NextStage
<1> HIDE DEF m, r
<1>7. RequestOK(m)
  <2>1. ReservationOK(m)  BY <1>0, <1>1, <1>2, <1>6 DEF RequestOK, ReservationOK
  <2>2. SubscriptionOK(m)  BY <1>0, <1>1, <1>2, <1>6 DEF RequestOK, SubscriptionOK
  <2>3. FeeOK(m)  BY <1>0, <1>1, <1>2, <1>6 DEF RequestOK, FeeOK
  <2>4. LotOK(m)  BY <1>1, <1>6 DEF LotOK, TakesLot
  <2> QED  BY <1>0, <1>6, <2>1, <2>2, <2>3, <2>4 DEF RequestOK
<1> QED  BY <1>1, <1>4, <1>5, <1>7, GoesOn DEF r, m

LEMMA ReadSubscription ==
  ASSUME IInv, NEW s \in Sessions, NEW op \in {"editSubscription", "subscriptionStatus", "resubmit"},
         Runs(s, op, 0), Advance(s, [req[s] EXCEPT !.row = subscription[req[s].id]])
  PROVE  IInv'
<1> DEFINE r == req[s]
           n == WithRow(r, subscription[r.id])
           m == Advanced(n, Locking(r))
<1>0. r \in Requests /\ RequestOK(r)  BY Requested
<1>1. r.op = op /\ r.stage = 0 /\ Blockers(s) = {}  BY DEF Runs
<1>2. r.id \in Subscriptions /\ subscription[r.id] \in SubscriptionRows
  BY <1>0, <1>1 DEF RequestOK, SubscriptionOK, IInv, TypeOK
<1>3. subscription[r.id] \in ReadRows  BY <1>2 DEF ReadRows
<1>4. /\ n \in Requests /\ n.row = subscription[r.id]
      /\ n.op = r.op /\ n.id = r.id /\ n.from = r.from /\ n.to = r.to /\ n.lot = r.lot
      /\ n.amount = r.amount /\ n.stage = 0 /\ n.held = r.held
  BY <1>0, <1>1, <1>3, WithRowType
<1>5. Advance(s, n)  BY DEF WithRow
<1> HIDE DEF n
<1>6. /\ m.op = r.op /\ m.id = r.id /\ m.from = r.from /\ m.to = r.to /\ m.amount = r.amount
      /\ m.lot = r.lot /\ m.row = subscription[r.id] /\ m.stage = 1
  BY <1>4, LockingType, NextStage
<1> HIDE DEF m, r
<1>7. RequestOK(m)
  <2>1. ReservationOK(m)  BY <1>0, <1>1, <1>2, <1>6 DEF RequestOK, ReservationOK
  <2>2. SubscriptionOK(m)  BY <1>0, <1>1, <1>2, <1>6 DEF RequestOK, SubscriptionOK
  <2>3. FeeOK(m)  BY <1>0, <1>1, <1>2, <1>6 DEF RequestOK, FeeOK
  <2>4. LotOK(m)  BY <1>1, <1>6 DEF LotOK, TakesLot
  <2> QED  BY <1>0, <1>6, <2>1, <2>2, <2>3, <2>4 DEF RequestOK
<1> QED  BY <1>1, <1>4, <1>5, <1>7, GoesOn DEF r, m

LEMMA ReadPayment ==
  ASSUME IInv, NEW s \in Sessions, NEW op \in {"cancelPayment", "refund"},
         Runs(s, op, 0), Advance(s, [req[s] EXCEPT !.row = payment[req[s].id]])
  PROVE  IInv'
<1> DEFINE r == req[s]
           n == WithRow(r, payment[r.id])
           m == Advanced(n, Locking(r))
<1>0. r \in Requests /\ RequestOK(r)  BY Requested
<1>1. r.op = op /\ r.stage = 0 /\ Blockers(s) = {}  BY DEF Runs
<1>2. r.id \in Payments /\ payment[r.id] \in PaymentRows
  BY <1>0, <1>1 DEF RequestOK, FeeOK, IInv, TypeOK
<1>3. payment[r.id] \in ReadRows  BY <1>2 DEF ReadRows
<1>4. /\ n \in Requests /\ n.row = payment[r.id]
      /\ n.op = r.op /\ n.id = r.id /\ n.from = r.from /\ n.to = r.to /\ n.lot = r.lot
      /\ n.amount = r.amount /\ n.stage = 0 /\ n.held = r.held
  BY <1>0, <1>1, <1>3, WithRowType
<1>5. Advance(s, n)  BY DEF WithRow
<1> HIDE DEF n
<1>6. /\ m.op = r.op /\ m.id = r.id /\ m.from = r.from /\ m.to = r.to /\ m.amount = r.amount
      /\ m.lot = r.lot /\ m.row = payment[r.id] /\ m.stage = 1
  BY <1>4, LockingType, NextStage
<1> HIDE DEF m, r
<1>7. RequestOK(m)
  <2>1. ReservationOK(m)  BY <1>0, <1>1, <1>2, <1>6 DEF RequestOK, ReservationOK
  <2>2. SubscriptionOK(m)  BY <1>0, <1>1, <1>2, <1>6 DEF RequestOK, SubscriptionOK
  <2>3. FeeOK(m)  BY <1>0, <1>1, <1>2, <1>6 DEF RequestOK, FeeOK
  <2>4. LotOK(m)  BY <1>1, <1>6 DEF LotOK, TakesLot
  <2> QED  BY <1>0, <1>6, <2>1, <2>2, <2>3, <2>4 DEF RequestOK
<1> QED  BY <1>1, <1>4, <1>5, <1>7, GoesOn DEF r, m

LEMMA ReadFee ==
  ASSUME IInv, NEW s \in Sessions, Runs(s, "pay", 1),
         Advance(s, [req[s] EXCEPT
                       !.row = [reservation[req[s].from] EXCEPT !.fee = FeeRemaining(req[s].from)]])
  PROVE  IInv'
<1> DEFINE r == req[s]
           row == [reservation[r.from] EXCEPT !.fee = FeeRemaining(r.from)]
           n == WithRow(r, row)
           m == Advanced(n, Locking(r))
<1>0. r \in Requests /\ RequestOK(r)  BY Requested
<1>1. r.op = "pay" /\ r.stage = 1 /\ Blockers(s) = {}  BY DEF Runs
<1>2. row \in ReservationRows
  <2>1. r.from \in Reservations  BY <1>0, <1>1 DEF RequestOK, FeeOK
  <2> DEFINE left == FeeRemaining(r.from)
  <2>2. left \in 0..MaxFee  BY <2>1, FeeRemainingType DEF IInv
  <2>3. reservation[r.from] \in ReservationRows  BY <2>1 DEF IInv, TypeOK
  <2> HIDE DEF left, r
  <2>4. [reservation[r.from] EXCEPT !.fee = left] \in ReservationRows
    BY <2>2, <2>3 DEF ReservationRows
  <2> QED  BY <2>4 DEF left
<1>3. row \in ReadRows  BY <1>2 DEF ReadRows
<1>5. Advance(s, n)  BY DEF WithRow
<1> HIDE DEF row
<1>4. /\ n \in Requests /\ n.row = row
      /\ n.op = r.op /\ n.id = r.id /\ n.from = r.from /\ n.to = r.to /\ n.lot = r.lot
      /\ n.amount = r.amount /\ n.stage = 1 /\ n.held = r.held
  BY <1>0, <1>1, <1>3, WithRowType
<1> HIDE DEF n
<1>6. /\ m.op = r.op /\ m.id = r.id /\ m.from = r.from /\ m.to = r.to /\ m.amount = r.amount
      /\ m.lot = r.lot /\ m.row = row /\ m.stage = 2 /\ r.held \subseteq m.held
  BY <1>4, LockingType, NextStage
<1> HIDE DEF m, r
<1>7. RequestOK(m)
  <2>1. ReservationOK(m)  BY <1>0, <1>1, <1>2, <1>6 DEF RequestOK, ReservationOK
  <2>2. SubscriptionOK(m)  BY <1>0, <1>1, <1>2, <1>6 DEF RequestOK, SubscriptionOK
  <2>3. FeeOK(m)  BY <1>0, <1>1, <1>2, <1>6 DEF RequestOK, FeeOK
  <2>4. LotOK(m)  BY <1>1, <1>6 DEF LotOK, TakesLot
  <2> QED  BY <1>0, <1>6, <2>1, <2>2, <2>3, <2>4 DEF RequestOK
<1> QED  BY <1>1, <1>4, <1>5, <1>7, GoesOn DEF r, m

LEMMA ReadForSubscription ==
  ASSUME IInv, NEW s \in Sessions, Runs(s, "subscribe", 0),
         IF req[s].from = 0 THEN Advance(s, req[s])
         ELSE Advance(s, [req[s] EXCEPT !.row = reservation[req[s].from],
                                        !.lot = reservation[req[s].from].lot])
  PROVE  IInv'
<1> DEFINE r == req[s]
           row == reservation[r.from]
<1>0. r \in Requests /\ RequestOK(r)  BY Requested
<1>1. r.op = "subscribe" /\ r.stage = 0 /\ Blockers(s) = {}  BY DEF Runs
<1>2. PICK n \in Requests :
        /\ Advance(s, n)
        /\ n.op = r.op /\ n.id = r.id /\ n.from = r.from /\ n.to = r.to
        /\ n.amount = r.amount /\ n.stage = 0 /\ n.held = r.held /\ n.lot \in Lots
        /\ r.from # 0 => n.row \in ReservationRows
  <2>1. CASE r.from = 0
    <3>1. r.lot \in Lots  BY <1>0, <1>1, <2>1 DEF RequestOK, SubscriptionOK
    <3>2. Advance(s, r)  BY <2>1
    <3> HIDE DEF r
    <3> QED  BY <1>0, <1>1, <2>1, <3>1, <3>2
  <2>2. CASE r.from # 0
    <3> DEFINE n == WithLot(r, row, row.lot)
    <3>1. r.from \in Reservations /\ row.state # "none"
      BY <1>0, <1>1, <2>2 DEF RequestOK, SubscriptionOK
    <3>2. row \in ReservationRows /\ row.lot \in Lots
      BY <3>1 DEF IInv, TypeOK, RowsOK
    <3>3. row \in ReadRows  BY <3>2 DEF ReadRows
    <3>4. Advance(s, n)  BY <2>2 DEF WithLot
    <3> HIDE DEF row
    <3>5. /\ n \in Requests /\ n.row = row
          /\ n.op = r.op /\ n.id = r.id /\ n.from = r.from /\ n.to = r.to /\ n.lot = row.lot
          /\ n.amount = r.amount /\ n.stage = 0 /\ n.held = r.held
      BY <1>0, <1>1, <3>2, <3>3, WithLotType
    <3> HIDE DEF n
    <3> QED  BY <3>2, <3>4, <3>5
  <2> QED  BY <2>1, <2>2
<1> DEFINE m == Advanced(n, Locking(r))
<1>3. /\ m.op = r.op /\ m.id = r.id /\ m.from = r.from /\ m.to = r.to /\ m.amount = r.amount
      /\ m.lot = n.lot /\ m.row = n.row /\ m.stage = 1
  BY <1>2, LockingType, NextStage
<1> HIDE DEF m, r
<1>4. RequestOK(m)
  <2>1. ReservationOK(m)  BY <1>1, <1>3 DEF ReservationOK
  <2>2. SubscriptionOK(m)  BY <1>0, <1>1, <1>2, <1>3 DEF RequestOK, SubscriptionOK
  <2>3. FeeOK(m)  BY <1>1, <1>3 DEF FeeOK
  <2>4. LotOK(m)  BY <1>1, <1>3 DEF LotOK, TakesLot
  <2> QED  BY <1>0, <1>3, <2>1, <2>2, <2>3, <2>4 DEF RequestOK
<1> QED  BY <1>1, <1>2, <1>4, GoesOn DEF r, m

LEMMA ReadRowKeeps ==
  ASSUME IInv, NEW s \in Sessions, ReadRow(s) PROVE IInv'
BY ReadReservation, ReadSubscription, ReadPayment, ReadFee, ReadForSubscription DEF ReadRow

LEMMA ReadFeesKeeps ==
  ASSUME IInv, NEW s \in Sessions, ReadFees(s) PROVE IInv'
<1> DEFINE r == req[s]
           plan == AllocationPlan(r.from, r.amount)
<1>0. r \in Requests /\ RequestOK(r)  BY Requested
<1>1. r.op = "subscribe" /\ r.stage = 2 /\ Blockers(s) = {}  BY DEF ReadFees, Runs
<1>2. PICK n \in Requests :
        /\ Advance(s, n)
        /\ n.op = r.op /\ n.id = r.id /\ n.from = r.from /\ n.to = r.to /\ n.lot = r.lot
        /\ n.row = r.row /\ n.amount = r.amount /\ n.stage = 2 /\ n.held = r.held
  <2>1. CASE r.from = 0
    <3>1. Advance(s, r)  BY <2>1 DEF ReadFees
    <3> HIDE DEF r
    <3> QED  BY <1>0, <1>1, <3>1
  <2>2. CASE r.from # 0
    <3> DEFINE n == WithPlan(r, plan)
    <3>1. r.amount \in Nat  BY <1>0, Fields, AmountsAssumption
    <3>2. plan \in [Payments -> Nat]  BY <3>1, PlanType DEF IInv
    <3>3. Advance(s, n)  BY <2>2 DEF ReadFees, WithPlan
    <3> HIDE DEF plan
    <3>4. /\ n \in Requests /\ n.row = r.row
          /\ n.op = r.op /\ n.id = r.id /\ n.from = r.from /\ n.to = r.to /\ n.lot = r.lot
          /\ n.amount = r.amount /\ n.stage = 2 /\ n.held = r.held
      BY <1>0, <1>1, <3>2, WithPlanType
    <3> HIDE DEF n
    <3> QED  BY <3>3, <3>4
  <2> QED  BY <2>1, <2>2
<1> DEFINE m == Advanced(n, Locking(r))
<1>3. /\ m.op = r.op /\ m.id = r.id /\ m.from = r.from /\ m.to = r.to /\ m.amount = r.amount
      /\ m.lot = r.lot /\ m.row = r.row /\ m.stage = 3 /\ r.held \subseteq m.held
  BY <1>2, LockingType, NextStage
<1> HIDE DEF m, r
<1>4. RequestOK(m)
  <2>1. ReservationOK(m)  BY <1>1, <1>3 DEF ReservationOK
  <2>2. SubscriptionOK(m)  BY <1>0, <1>1, <1>3 DEF RequestOK, SubscriptionOK
  <2>3. FeeOK(m)  BY <1>1, <1>3 DEF FeeOK
  <2>4. LotOK(m)  BY <1>0, <1>1, <1>3 DEF RequestOK, LotOK, TakesLot
  <2> QED  BY <1>0, <1>3, <2>1, <2>2, <2>3, <2>4 DEF RequestOK
<1> QED  BY <1>1, <1>2, <1>4, GoesOn DEF r, m

-----------------------------------------------------------------------------
(* Requests arrive.                                                         *)

Made(op, id, from, l, to, amount) ==
  [op |-> op, stage |-> 0, id |-> id, from |-> from, lot |-> l, to |-> to, amount |-> amount,
   row |-> NotRead, plan |-> NotAllocated, held |-> {}]

LEMMA MadeForSale ==
  ASSUME NEW op, NEW id, NEW l, NEW to, NEW amount
  PROVE  FilledIn([op |-> op, id |-> id, lot |-> l, amount |-> amount, to |-> to])
           = Made(op, id, 0, l, to, amount)
BY DEF FilledIn, Made, Idle

LEMMA MadeForLot ==
  ASSUME NEW op, NEW id, NEW l, NEW to
  PROVE  FilledIn([op |-> op, id |-> id, lot |-> l, to |-> to]) = Made(op, id, 0, l, to, 0)
BY DEF FilledIn, Made, Idle

LEMMA MadeForFee ==
  ASSUME NEW op, NEW id, NEW from, NEW to, NEW amount
  PROVE  FilledIn([op |-> op, id |-> id, from |-> from, amount |-> amount, to |-> to])
           = Made(op, id, from, 0, to, amount)
BY DEF FilledIn, Made, Idle

LEMMA MadeForStatus ==
  ASSUME NEW op, NEW id, NEW to
  PROVE  FilledIn([op |-> op, id |-> id, to |-> to]) = Made(op, id, 0, 0, to, 0)
BY DEF FilledIn, Made, Idle

LEMMA MadeForRow ==
  ASSUME NEW op, NEW id
  PROVE  FilledIn([op |-> op, id |-> id]) = Made(op, id, 0, 0, NotGiven, 0)
BY DEF FilledIn, Made, Idle

LEMMA MadeForPayment ==
  ASSUME NEW op, NEW id, NEW from, NEW amount
  PROVE  FilledIn([op |-> op, id |-> id, from |-> from, amount |-> amount])
           = Made(op, id, from, 0, NotGiven, amount)
BY DEF FilledIn, Made, Idle

LEMMA MadeForRefund ==
  ASSUME NEW op, NEW id, NEW amount
  PROVE  FilledIn([op |-> op, id |-> id, amount |-> amount]) = Made(op, id, 0, 0, NotGiven, amount)
BY DEF FilledIn, Made, Idle

LEMMA MadeType ==
  ASSUME NEW op \in AllEndpoints, NEW id \in Ids, NEW from \in Reservations \cup {0},
         NEW l \in Lots \cup {0}, NEW to \in Targets, NEW amount \in 0..MaxFee,
         NEW n, n = Made(op, id, from, l, to, amount)
  PROVE  /\ n \in Requests
         /\ n.op = op /\ n.stage = 0 /\ n.id = id /\ n.from = from /\ n.lot = l /\ n.to = to
         /\ n.amount = amount /\ n.held = {}
<1>1. /\ NotRead \in ReadRows /\ NotAllocated \in [Payments -> Nat]
      /\ {} \in SUBSET RowLocks /\ 0 \in 0..3 /\ op \in AllEndpoints \cup {"none"}
  BY DEF ReadRows, NotAllocated
<1> DEFINE held == {}
           stage == 0
<1>2. [op |-> op, stage |-> stage, id |-> id, from |-> from, lot |-> l, to |-> to,
       amount |-> amount, row |-> NotRead, plan |-> NotAllocated, held |-> held] \in Requests
  <2> HIDE DEF held, stage
  <2>1. held \in SUBSET RowLocks /\ stage \in 0..3  BY <1>1 DEF held, stage
  <2> QED  BY <1>1, <2>1, RequestType
<1> QED  BY <1>2 DEF Made

(* What a client sends, and the request that it becomes.                    *)
LEMMA BeginKeeps ==
  ASSUME IInv, NEW s \in Sessions, NEW op \in AllEndpoints, NEW id \in Ids,
         NEW from \in Reservations \cup {0}, NEW l \in Lots \cup {0}, NEW to \in Targets,
         NEW amount \in 0..MaxFee, NEW n, n = Made(op, id, from, l, to, amount),
         NEW fields, FilledIn(fields) = n, Begin(s, fields), fields.op = op,
         ReservationOK(n), SubscriptionOK(n), FeeOK(n)
  PROVE  IInv'
<1>1. n \in Requests /\ n.op = op /\ n.stage = 0 /\ n.held = {}  BY MadeType
<1>2. req' = [req EXCEPT ![s] = n] /\ UNCHANGED <<lot, reservation, subscription, payment>>
  BY DEF Begin
<1>3. op \in Endpoints  BY DEF Begin
<1>5. RequestOK(n)  BY <1>1, <1>3 DEF RequestOK, LotOK, TakesLot
<1> QED  BY <1>1, <1>2, <1>5, OneRequest

LEMMA RequestReservationKeeps ==
  ASSUME IInv, NEW s \in Sessions, RequestReservation(s) PROVE IInv'
<1>0. /\ Reservations \subseteq Ids /\ Subscriptions \subseteq Ids /\ Payments \subseteq Ids
      /\ Amounts \subseteq 0..MaxFee /\ Financed \subseteq 0..MaxFee /\ 0 \in 0..MaxFee
      /\ {NotGiven} \cup ReservationStates \cup SubscriptionStates \subseteq Targets
      /\ {"DRAFT", "ACTIVE", "CONFIRMED", "CANCELLED", "EXPIRED", "CONVERTED"} \subseteq ReservationStates
      /\ {"DRAFT", "SUBMITTED", "APPROVED", "REJECTED", "CANCELLED"} \subseteq SubscriptionStates
  BY AmountsAssumption DEF Ids, Amounts, Targets, ReservationStates, SubscriptionStates
<1>1. ASSUME NEW r \in Reservations,
             NEW l \in Lots,
             NEW fee \in Amounts,
             NEW to \in {"DRAFT", "ACTIVE"},
             Begin(s, [op |-> "reserve", id |-> r, lot |-> l, amount |-> fee, to |-> to])
      PROVE  IInv'
  <2> DEFINE op == "reserve"
             zero == 0
             fields == [op |-> op, id |-> r, lot |-> l, amount |-> fee, to |-> to]
             n == Made(op, r, zero, l, to, fee)
  <2>1. fields.op = op /\ Begin(s, fields)  BY <1>1
  <2>2. FilledIn(fields) = n  BY MadeForSale
  <2>3. /\ op \in AllEndpoints /\ r \in Ids /\ zero \in Reservations \cup {0}
        /\ l \in Lots \cup {0} /\ to \in Targets /\ fee \in 0..MaxFee
    BY <1>0 DEF AllEndpoints
  <2> HIDE DEF fields, op, zero
  <2>4. n \in Requests /\ n.op = op /\ n.stage = 0 /\ n.id = r /\ n.from = zero /\ n.lot = l
        /\ n.to = to /\ n.amount = fee
    BY <2>3, MadeType
  <2> HIDE DEF n
  <2>6. ReservationOK(n) /\ SubscriptionOK(n) /\ FeeOK(n)
    BY <2>4 DEF op, ReservationOK, SubscriptionOK, FeeOK, zero
  <2> QED  BY <2>1, <2>2, <2>3, <2>6, BeginKeeps DEF n
<1>2. ASSUME NEW r \in Known(reservation, Reservations),
             NEW l \in Lots,
             NEW fee \in Amounts,
             NEW to \in {NotGiven, "ACTIVE"},
             Begin(s, [op |-> "editReservation", id |-> r, lot |-> l, amount |-> fee, to |-> to])
      PROVE  IInv'
  <2> DEFINE op == "editReservation"
             zero == 0
             fields == [op |-> op, id |-> r, lot |-> l, amount |-> fee, to |-> to]
             n == Made(op, r, zero, l, to, fee)
  <2>1. fields.op = op /\ Begin(s, fields)  BY <1>2
  <2>2. FilledIn(fields) = n  BY MadeForSale
  <2>3. /\ op \in AllEndpoints /\ r \in Ids /\ zero \in Reservations \cup {0}
        /\ l \in Lots \cup {0} /\ to \in Targets /\ fee \in 0..MaxFee
    BY <1>0 DEF AllEndpoints, Known
  <2> HIDE DEF fields, op, zero
  <2>4. n \in Requests /\ n.op = op /\ n.stage = 0 /\ n.id = r /\ n.from = zero /\ n.lot = l
        /\ n.to = to /\ n.amount = fee
    BY <2>3, MadeType
  <2>5. r \in Reservations /\ reservation[r].state # "none"  BY DEF Known
  <2> HIDE DEF n
  <2>6. ReservationOK(n) /\ SubscriptionOK(n) /\ FeeOK(n)
    BY <2>4, <2>5 DEF op, ReservationOK, SubscriptionOK, FeeOK, zero
  <2> QED  BY <2>1, <2>2, <2>3, <2>6, BeginKeeps DEF n
<1>3. ASSUME NEW r \in Known(reservation, Reservations),
             NEW to \in {"CONFIRMED", "CANCELLED", "EXPIRED", "CONVERTED"},
             Begin(s, [op |-> "reservationStatus", id |-> r, to |-> to])
      PROVE  IInv'
  <2> DEFINE op == "reservationStatus"
             zero == 0
             fields == [op |-> op, id |-> r, to |-> to]
             n == Made(op, r, zero, zero, to, zero)
  <2>1. fields.op = op /\ Begin(s, fields)  BY <1>3
  <2>2. FilledIn(fields) = n  BY MadeForStatus
  <2>3. /\ op \in AllEndpoints /\ r \in Ids /\ zero \in Reservations \cup {0}
        /\ zero \in Lots \cup {0} /\ to \in Targets /\ zero \in 0..MaxFee
    BY <1>0 DEF AllEndpoints, Known
  <2> HIDE DEF fields, op, zero
  <2>4. n \in Requests /\ n.op = op /\ n.stage = 0 /\ n.id = r /\ n.from = zero /\ n.lot = zero
        /\ n.to = to /\ n.amount = zero
    BY <2>3, MadeType
  <2>5. r \in Reservations /\ reservation[r].state # "none"  BY DEF Known
  <2> HIDE DEF n
  <2>6. ReservationOK(n) /\ SubscriptionOK(n) /\ FeeOK(n)
    BY <2>4, <2>5 DEF op, ReservationOK, SubscriptionOK, FeeOK, zero
  <2> QED  BY <2>1, <2>2, <2>3, <2>6, BeginKeeps DEF n
<1> QED
  BY <1>1, <1>2, <1>3 DEF RequestReservation, Unused

LEMMA RequestSubscriptionKeeps ==
  ASSUME IInv, NEW s \in Sessions, RequestSubscription(s) PROVE IInv'
<1>0. /\ Reservations \subseteq Ids /\ Subscriptions \subseteq Ids /\ Payments \subseteq Ids
      /\ Amounts \subseteq 0..MaxFee /\ Financed \subseteq 0..MaxFee /\ 0 \in 0..MaxFee
      /\ {NotGiven} \cup ReservationStates \cup SubscriptionStates \subseteq Targets
      /\ {"DRAFT", "ACTIVE", "CONFIRMED", "CANCELLED", "EXPIRED", "CONVERTED"} \subseteq ReservationStates
      /\ {"DRAFT", "SUBMITTED", "APPROVED", "REJECTED", "CANCELLED"} \subseteq SubscriptionStates
  BY AmountsAssumption DEF Ids, Amounts, Targets, ReservationStates, SubscriptionStates
<1>1. ASSUME NEW u \in Subscriptions,
             NEW to \in {"DRAFT", "SUBMITTED", "APPROVED"},
             NEW l \in Lots,
             Begin(s, [op |-> "subscribe", id |-> u, lot |-> l, to |-> to])
      PROVE  IInv'
  <2> DEFINE op == "subscribe"
             zero == 0
             fields == [op |-> op, id |-> u, lot |-> l, to |-> to]
             n == Made(op, u, zero, l, to, zero)
  <2>1. fields.op = op /\ Begin(s, fields)  BY <1>1
  <2>2. FilledIn(fields) = n  BY MadeForLot
  <2>3. /\ op \in AllEndpoints /\ u \in Ids /\ zero \in Reservations \cup {0}
        /\ l \in Lots \cup {0} /\ to \in Targets /\ zero \in 0..MaxFee
    BY <1>0 DEF AllEndpoints
  <2> HIDE DEF fields, op, zero
  <2>4. n \in Requests /\ n.op = op /\ n.stage = 0 /\ n.id = u /\ n.from = zero /\ n.lot = l
        /\ n.to = to /\ n.amount = zero
    BY <2>3, MadeType
  <2> HIDE DEF n
  <2>6. ReservationOK(n) /\ SubscriptionOK(n) /\ FeeOK(n)
    BY <2>4 DEF op, ReservationOK, SubscriptionOK, FeeOK, zero
  <2> QED  BY <2>1, <2>2, <2>3, <2>6, BeginKeeps DEF n
<1>2. ASSUME NEW u \in Subscriptions,
             NEW to \in {"DRAFT", "SUBMITTED", "APPROVED"},
             NEW r \in Known(reservation, Reservations),
             NEW n0 \in Financed,
             Begin(s, [op |-> "subscribe", id |-> u, from |-> r, amount |-> n0, to |-> to])
      PROVE  IInv'
  <2> DEFINE op == "subscribe"
             zero == 0
             fields == [op |-> op, id |-> u, from |-> r, amount |-> n0, to |-> to]
             n == Made(op, u, r, zero, to, n0)
  <2>1. fields.op = op /\ Begin(s, fields)  BY <1>2
  <2>2. FilledIn(fields) = n  BY MadeForFee
  <2>3. /\ op \in AllEndpoints /\ u \in Ids /\ r \in Reservations \cup {0}
        /\ zero \in Lots \cup {0} /\ to \in Targets /\ n0 \in 0..MaxFee
    BY <1>0 DEF AllEndpoints, Known
  <2> HIDE DEF fields, op, zero
  <2>4. n \in Requests /\ n.op = op /\ n.stage = 0 /\ n.id = u /\ n.from = r /\ n.lot = zero
        /\ n.to = to /\ n.amount = n0
    BY <2>3, MadeType
  <2>5. r \in Reservations /\ r # 0 /\ reservation[r].state # "none"  BY IdsAssumption DEF Known
  <2> HIDE DEF n
  <2>6. ReservationOK(n) /\ SubscriptionOK(n) /\ FeeOK(n)
    BY <2>4, <2>5 DEF op, ReservationOK, SubscriptionOK, FeeOK, zero
  <2> QED  BY <2>1, <2>2, <2>3, <2>6, BeginKeeps DEF n
<1>3. ASSUME NEW u \in Known(subscription, Subscriptions),
             NEW l \in Lots,
             NEW to \in {NotGiven, "SUBMITTED"},
             Begin(s, [op |-> "editSubscription", id |-> u, lot |-> l, to |-> to])
      PROVE  IInv'
  <2> DEFINE op == "editSubscription"
             zero == 0
             fields == [op |-> op, id |-> u, lot |-> l, to |-> to]
             n == Made(op, u, zero, l, to, zero)
  <2>1. fields.op = op /\ Begin(s, fields)  BY <1>3
  <2>2. FilledIn(fields) = n  BY MadeForLot
  <2>3. /\ op \in AllEndpoints /\ u \in Ids /\ zero \in Reservations \cup {0}
        /\ l \in Lots \cup {0} /\ to \in Targets /\ zero \in 0..MaxFee
    BY <1>0 DEF AllEndpoints, Known
  <2> HIDE DEF fields, op, zero
  <2>4. n \in Requests /\ n.op = op /\ n.stage = 0 /\ n.id = u /\ n.from = zero /\ n.lot = l
        /\ n.to = to /\ n.amount = zero
    BY <2>3, MadeType
  <2>5. u \in Subscriptions  BY DEF Known
  <2> HIDE DEF n
  <2>6. ReservationOK(n) /\ SubscriptionOK(n) /\ FeeOK(n)
    BY <2>4, <2>5 DEF op, ReservationOK, SubscriptionOK, FeeOK, zero
  <2> QED  BY <2>1, <2>2, <2>3, <2>6, BeginKeeps DEF n
<1>4. ASSUME NEW u \in Known(subscription, Subscriptions),
             NEW to \in {"SUBMITTED", "APPROVED", "REJECTED", "CANCELLED"},
             Begin(s, [op |-> "subscriptionStatus", id |-> u, to |-> to])
      PROVE  IInv'
  <2> DEFINE op == "subscriptionStatus"
             zero == 0
             fields == [op |-> op, id |-> u, to |-> to]
             n == Made(op, u, zero, zero, to, zero)
  <2>1. fields.op = op /\ Begin(s, fields)  BY <1>4
  <2>2. FilledIn(fields) = n  BY MadeForStatus
  <2>3. /\ op \in AllEndpoints /\ u \in Ids /\ zero \in Reservations \cup {0}
        /\ zero \in Lots \cup {0} /\ to \in Targets /\ zero \in 0..MaxFee
    BY <1>0 DEF AllEndpoints, Known
  <2> HIDE DEF fields, op, zero
  <2>4. n \in Requests /\ n.op = op /\ n.stage = 0 /\ n.id = u /\ n.from = zero /\ n.lot = zero
        /\ n.to = to /\ n.amount = zero
    BY <2>3, MadeType
  <2>5. u \in Subscriptions  BY DEF Known
  <2> HIDE DEF n
  <2>6. ReservationOK(n) /\ SubscriptionOK(n) /\ FeeOK(n)
    BY <2>4, <2>5 DEF op, ReservationOK, SubscriptionOK, FeeOK, zero
  <2> QED  BY <2>1, <2>2, <2>3, <2>6, BeginKeeps DEF n
<1>5. ASSUME NEW u \in Known(subscription, Subscriptions),
             Begin(s, [op |-> "resubmit", id |-> u])
      PROVE  IInv'
  <2> DEFINE op == "resubmit"
             zero == 0
             fields == [op |-> op, id |-> u]
             n == Made(op, u, zero, zero, NotGiven, zero)
  <2>1. fields.op = op /\ Begin(s, fields)  BY <1>5
  <2>2. FilledIn(fields) = n  BY MadeForRow
  <2>3. /\ op \in AllEndpoints /\ u \in Ids /\ zero \in Reservations \cup {0}
        /\ zero \in Lots \cup {0} /\ NotGiven \in Targets /\ zero \in 0..MaxFee
    BY <1>0 DEF AllEndpoints, Known
  <2> HIDE DEF fields, op, zero
  <2>4. n \in Requests /\ n.op = op /\ n.stage = 0 /\ n.id = u /\ n.from = zero /\ n.lot = zero
        /\ n.to = NotGiven /\ n.amount = zero
    BY <2>3, MadeType
  <2>5. u \in Subscriptions  BY DEF Known
  <2> HIDE DEF n
  <2>6. ReservationOK(n) /\ SubscriptionOK(n) /\ FeeOK(n)
    BY <2>4, <2>5 DEF op, ReservationOK, SubscriptionOK, FeeOK, zero
  <2> QED  BY <2>1, <2>2, <2>3, <2>6, BeginKeeps DEF n
<1> QED
  BY <1>1, <1>2, <1>3, <1>4, <1>5 DEF RequestSubscription, Unused

LEMMA RequestPaymentKeeps ==
  ASSUME IInv, NEW s \in Sessions, RequestPayment(s) PROVE IInv'
<1>0. /\ Reservations \subseteq Ids /\ Subscriptions \subseteq Ids /\ Payments \subseteq Ids
      /\ Amounts \subseteq 0..MaxFee /\ Financed \subseteq 0..MaxFee /\ 0 \in 0..MaxFee
      /\ {NotGiven} \cup ReservationStates \cup SubscriptionStates \subseteq Targets
      /\ {"DRAFT", "ACTIVE", "CONFIRMED", "CANCELLED", "EXPIRED", "CONVERTED"} \subseteq ReservationStates
      /\ {"DRAFT", "SUBMITTED", "APPROVED", "REJECTED", "CANCELLED"} \subseteq SubscriptionStates
  BY AmountsAssumption DEF Ids, Amounts, Targets, ReservationStates, SubscriptionStates
<1>1. ASSUME NEW p \in Payments,
             NEW r \in Known(reservation, Reservations),
             NEW a \in Amounts,
             Begin(s, [op |-> "pay", id |-> p, from |-> r, amount |-> a])
      PROVE  IInv'
  <2> DEFINE op == "pay"
             zero == 0
             to == NotGiven
             fields == [op |-> op, id |-> p, from |-> r, amount |-> a]
             n == Made(op, p, r, zero, to, a)
  <2>1. fields.op = op /\ Begin(s, fields)  BY <1>1
  <2>2. FilledIn(fields) = n  BY MadeForPayment
  <2>3. /\ op \in AllEndpoints /\ p \in Ids /\ r \in Reservations \cup {0}
        /\ zero \in Lots \cup {0} /\ to \in Targets /\ a \in 0..MaxFee
    BY <1>0 DEF AllEndpoints, Known
  <2> HIDE DEF fields, op, zero, to
  <2>4. n \in Requests /\ n.op = op /\ n.stage = 0 /\ n.id = p /\ n.from = r /\ n.lot = zero
        /\ n.to = to /\ n.amount = a
    BY <2>3, MadeType
  <2>5. r \in Reservations /\ reservation[r].state # "none"  BY DEF Known
  <2> HIDE DEF n
  <2>6. ReservationOK(n) /\ SubscriptionOK(n) /\ FeeOK(n)
    BY <2>4, <2>5 DEF op, ReservationOK, SubscriptionOK, FeeOK, zero
  <2> QED  BY <2>1, <2>2, <2>3, <2>6, BeginKeeps DEF n
<1>2. ASSUME NEW p \in Known(payment, Payments),
             Begin(s, [op |-> "cancelPayment", id |-> p])
      PROVE  IInv'
  <2> DEFINE op == "cancelPayment"
             zero == 0
             fields == [op |-> op, id |-> p]
             n == Made(op, p, zero, zero, NotGiven, zero)
  <2>1. fields.op = op /\ Begin(s, fields)  BY <1>2
  <2>2. FilledIn(fields) = n  BY MadeForRow
  <2>3. /\ op \in AllEndpoints /\ p \in Ids /\ zero \in Reservations \cup {0}
        /\ zero \in Lots \cup {0} /\ NotGiven \in Targets /\ zero \in 0..MaxFee
    BY <1>0 DEF AllEndpoints, Known
  <2> HIDE DEF fields, op, zero
  <2>4. n \in Requests /\ n.op = op /\ n.stage = 0 /\ n.id = p /\ n.from = zero /\ n.lot = zero
        /\ n.to = NotGiven /\ n.amount = zero
    BY <2>3, MadeType
  <2>5. p \in Payments /\ payment[p].state # "none"  BY DEF Known
  <2> HIDE DEF n
  <2>6. ReservationOK(n) /\ SubscriptionOK(n) /\ FeeOK(n)
    BY <2>4, <2>5 DEF op, ReservationOK, SubscriptionOK, FeeOK, zero
  <2> QED  BY <2>1, <2>2, <2>3, <2>6, BeginKeeps DEF n
<1>3. ASSUME NEW p \in Known(payment, Payments),
             NEW a \in Amounts,
             Begin(s, [op |-> "refund", id |-> p, amount |-> a])
      PROVE  IInv'
  <2> DEFINE op == "refund"
             zero == 0
             fields == [op |-> op, id |-> p, amount |-> a]
             n == Made(op, p, zero, zero, NotGiven, a)
  <2>1. fields.op = op /\ Begin(s, fields)  BY <1>3
  <2>2. FilledIn(fields) = n  BY MadeForRefund
  <2>3. /\ op \in AllEndpoints /\ p \in Ids /\ zero \in Reservations \cup {0}
        /\ zero \in Lots \cup {0} /\ NotGiven \in Targets /\ a \in 0..MaxFee
    BY <1>0 DEF AllEndpoints, Known
  <2> HIDE DEF fields, op, zero
  <2>4. n \in Requests /\ n.op = op /\ n.stage = 0 /\ n.id = p /\ n.from = zero /\ n.lot = zero
        /\ n.to = NotGiven /\ n.amount = a
    BY <2>3, MadeType
  <2>5. p \in Payments /\ payment[p].state # "none"  BY DEF Known
  <2> HIDE DEF n
  <2>6. ReservationOK(n) /\ SubscriptionOK(n) /\ FeeOK(n)
    BY <2>4, <2>5 DEF op, ReservationOK, SubscriptionOK, FeeOK, zero
  <2> QED  BY <2>1, <2>2, <2>3, <2>6, BeginKeeps DEF n
<1> QED
  BY <1>1, <1>2, <1>3 DEF RequestPayment, Unused

-----------------------------------------------------------------------------
(* Steps that commit.                                                       *)

(* The other requests go on: what they know of is still there.              *)
LEMMA Committed ==
  ASSUME IInv, NEW s \in Sessions, req' = [req EXCEPT ![s] = Idle],
         lot' \in [Lots -> {"AVAILABLE", "RESERVED", "SOLD"}],
         reservation' \in [Reservations -> ReservationRows],
         subscription' \in [Subscriptions -> SubscriptionRows],
         payment' \in [Payments -> PaymentRows],
         \A r \in Reservations : reservation[r].state # "none" => reservation'[r].state # "none",
         \A p \in Payments : payment[p].state # "none" => payment'[p].state # "none",
         RowsOK'
  PROVE  IInv'
<1>1. \A t \in Sessions : req'[t] = IF t = s THEN Idle ELSE req[t]  BY DEF IInv, TypeOK
<1>2. req' \in [Sessions -> Requests]  BY IdleType DEF IInv, TypeOK
<1>3. TypeOK'  BY <1>2 DEF TypeOK
<1>4. Idle.held = {} /\ Idle.op = "none"  BY DEF Idle
<1>5. Exclusion'
  <2>1. \A t, u \in Sessions : t # u => req'[t].held \cap req'[u].held = {}
    BY <1>1, <1>4 DEF IInv, Exclusion
  <2> QED  BY <2>1 DEF Exclusion
<1>6. ASSUME NEW t \in Sessions PROVE RequestOK(req[t])'
  <2>1. CASE t = s
    <3>1. req'[t] = Idle  BY <1>1, <2>1
    <3> QED
      BY <1>4, <3>1 DEF RequestOK, ReservationOK, SubscriptionOK, FeeOK, LotOK, TakesLot
  <2>2. CASE t # s
    <3>1. req'[t] = req[t] /\ RequestOK(req[t])  BY <1>1, <2>2 DEF IInv
    <3>2. ReservationOK(req[t])'  BY <3>1 DEF RequestOK, ReservationOK
    <3>3. SubscriptionOK(req[t])'  BY <3>1 DEF RequestOK, SubscriptionOK
    <3>4. FeeOK(req[t])'  BY <3>1 DEF RequestOK, FeeOK
    <3>5. LotOK(req[t])'  BY <3>1 DEF RequestOK, LotOK, TakesLot
    <3> QED  BY <3>1, <3>2, <3>3, <3>4, <3>5 DEF RequestOK
  <2> QED  BY <2>1, <2>2
<1> QED  BY <1>3, <1>5, <1>6 DEF IInv

LEMMA Tables ==
  ASSUME IInv
  PROVE  /\ lot \in [Lots -> {"AVAILABLE", "RESERVED", "SOLD"}]
         /\ reservation \in [Reservations -> ReservationRows]
         /\ subscription \in [Subscriptions -> SubscriptionRows]
         /\ payment \in [Payments -> PaymentRows]
         /\ RowsOK
BY DEF IInv, TypeOK

LEMMA CreateReservationKeeps ==
  ASSUME IInv, NEW s \in Sessions, CreateReservation(s) PROVE IInv'
<1> DEFINE r == req[s]
           row == [state |-> r.to, lot |-> r.lot, fee |-> r.amount]
<1>1. r \in Requests /\ RequestOK(r) /\ r.op = "reserve"
  BY Requested DEF CreateReservation, Commits, Runs
<1>2. r.id \in Reservations /\ r.lot \in Lots /\ r.to \in {"DRAFT", "ACTIVE"} /\ r.amount \in 0..MaxFee
  BY <1>1, Fields DEF RequestOK, ReservationOK
<1>3. /\ req' = [req EXCEPT ![s] = Idle] /\ reservation' = [reservation EXCEPT ![r.id] = row]
      /\ lot' = (IF r.to = "DRAFT" THEN lot ELSE [lot EXCEPT ![r.lot] = "RESERVED"])
      /\ UNCHANGED <<subscription, payment>>
  BY DEF CreateReservation, Commits
<1> HIDE DEF r
<1>4. row \in ReservationRows /\ row.state # "none" /\ row.lot \in Lots
  BY <1>2 DEF ReservationRows, ReservationStates
<1> HIDE DEF row
<1>5. /\ lot' \in [Lots -> {"AVAILABLE", "RESERVED", "SOLD"}]
      /\ reservation' \in [Reservations -> ReservationRows]
  BY <1>2, <1>3, <1>4, Tables
<1>6. \A i \in Reservations : reservation'[i] = IF i = r.id THEN row ELSE reservation[i]
  BY <1>2, <1>3, Tables
<1>7. RowsOK'  BY <1>3, <1>4, <1>6, Tables DEF RowsOK
<1>8. /\ subscription' \in [Subscriptions -> SubscriptionRows]
      /\ payment' \in [Payments -> PaymentRows]
      /\ \A p \in Payments : payment[p].state # "none" => payment'[p].state # "none"
  BY <1>3, Tables
<1>9. \A i \in Reservations : reservation[i].state # "none" => reservation'[i].state # "none"
  BY <1>4, <1>6
<1> QED  BY <1>3, <1>5, <1>7, <1>8, <1>9, Committed

LEMMA UpdateReservationKeeps ==
  ASSUME IInv, NEW s \in Sessions, UpdateReservation(s) PROVE IInv'
<1> DEFINE r == req[s]
           state == IF r.to = NotGiven THEN reservation[r.id].state ELSE r.to
           row == [state |-> state, lot |-> r.lot, fee |-> r.amount]
<1>1. r \in Requests /\ RequestOK(r) /\ r.op = "editReservation"
  BY Requested DEF UpdateReservation, Commits, Runs
<1>2. /\ r.id \in Reservations /\ r.lot \in Lots /\ r.to \in {NotGiven, "ACTIVE"}
      /\ r.amount \in 0..MaxFee /\ reservation[r.id].state # "none"
  BY <1>1, Fields DEF RequestOK, ReservationOK
<1>3. /\ req' = [req EXCEPT ![s] = Idle] /\ reservation' = [reservation EXCEPT ![r.id] = row]
      /\ UNCHANGED <<lot, subscription, payment>>
  BY DEF UpdateReservation, Commits
<1> HIDE DEF r
<1>4. state \in ReservationStates /\ state # "none"
  BY <1>2, Tables DEF ReservationRows, ReservationStates
<1> HIDE DEF state
<1>5. row \in ReservationRows /\ row.state # "none" /\ row.lot \in Lots
  BY <1>2, <1>4 DEF ReservationRows
<1> HIDE DEF row
<1>6. /\ reservation' \in [Reservations -> ReservationRows]
      /\ \A i \in Reservations : reservation'[i] = IF i = r.id THEN row ELSE reservation[i]
  BY <1>2, <1>3, <1>5, Tables
<1>7. RowsOK'  BY <1>3, <1>5, <1>6, Tables DEF RowsOK
<1>8. /\ lot' \in [Lots -> {"AVAILABLE", "RESERVED", "SOLD"}]
      /\ subscription' \in [Subscriptions -> SubscriptionRows]
      /\ payment' \in [Payments -> PaymentRows]
      /\ \A p \in Payments : payment[p].state # "none" => payment'[p].state # "none"
  BY <1>3, Tables
<1>9. \A i \in Reservations : reservation[i].state # "none" => reservation'[i].state # "none"
  BY <1>5, <1>6
<1> QED  BY <1>3, <1>6, <1>7, <1>8, <1>9, Committed

LEMMA ChangeReservationStatusKeeps ==
  ASSUME IInv, NEW s \in Sessions, ChangeReservationStatus(s) PROVE IInv'
<1> DEFINE r == req[s]
           row == [reservation[r.id] EXCEPT !.state = r.to]
           to == IF r.to \in {"CONFIRMED", "CONVERTED"} THEN "RESERVED" ELSE "AVAILABLE"
<1>1. r \in Requests /\ RequestOK(r) /\ r.op = "reservationStatus" /\ r.stage = 2
  BY Requested DEF ChangeReservationStatus, Commits, Runs
<1>2. r.id \in Reservations  BY <1>1 DEF RequestOK, ReservationOK
<1>3. /\ req' = [req EXCEPT ![s] = Idle] /\ reservation' = [reservation EXCEPT ![r.id] = row]
      /\ lot' = [lot EXCEPT ![r.row.lot] = to]
      /\ MayBecome(r.row.state, r.to)
      /\ UNCHANGED <<subscription, payment>>
  BY DEF ChangeReservationStatus, Commits
<1> HIDE DEF r
<1>4. r.to \in ReservationStates /\ r.to # "none"
  BY <1>3 DEF MayBecome, ReservationStates
<1>5. to \in {"AVAILABLE", "RESERVED", "SOLD"}  OBVIOUS
<1>6. /\ row \in ReservationRows /\ row.state # "none" /\ row.lot = reservation[r.id].lot
  BY <1>2, <1>4, Tables DEF ReservationRows
<1>7. reservation[r.id].state # "none"
  <2>1. ReservationOK(r)  BY <1>1 DEF RequestOK
  <2> QED  BY <1>1, <2>1 DEF ReservationOK
<1> HIDE DEF row, to
<1>8. /\ lot' \in [Lots -> {"AVAILABLE", "RESERVED", "SOLD"}]
      /\ reservation' \in [Reservations -> ReservationRows]
      /\ \A i \in Reservations : reservation'[i] = IF i = r.id THEN row ELSE reservation[i]
  BY <1>2, <1>3, <1>5, <1>6, Tables
<1>9. RowsOK'  BY <1>2, <1>3, <1>6, <1>7, <1>8, Tables DEF RowsOK
<1>10. /\ subscription' \in [Subscriptions -> SubscriptionRows]
       /\ payment' \in [Payments -> PaymentRows]
       /\ \A p \in Payments : payment[p].state # "none" => payment'[p].state # "none"
  BY <1>3, Tables
<1>11. \A i \in Reservations : reservation[i].state # "none" => reservation'[i].state # "none"
  BY <1>6, <1>8
<1> QED  BY <1>3, <1>8, <1>9, <1>10, <1>11, Committed

LEMMA CreateSubscriptionKeeps ==
  ASSUME IInv, NEW s \in Sessions, CreateSubscription(s) PROVE IInv'
<1> DEFINE r == req[s]
           row == [state |-> r.to, lot |-> r.lot, from |-> r.from]
           to == IF r.to = "APPROVED" THEN "SOLD" ELSE "RESERVED"
           given(p) == [payment[p] EXCEPT !.allocated = payment[p].allocated + r.plan[p]]
           converted == [reservation[r.from] EXCEPT !.state = "CONVERTED"]
<1>1. r \in Requests /\ RequestOK(r) /\ r.op = "subscribe" /\ r.stage = 3
  BY Requested DEF CreateSubscription, Commits, Runs
<1>2. /\ r.id \in Subscriptions /\ r.lot \in Lots /\ r.to \in {"DRAFT", "SUBMITTED", "APPROVED"}
      /\ r.from \in Reservations \cup {0} /\ r.plan \in [Payments -> Nat]
      /\ r.from # 0 => r.from \in Reservations /\ reservation[r.from].state # "none"
  <2>1. SubscriptionOK(r)  BY <1>1 DEF RequestOK
  <2>2. r.from \in Reservations \cup {0} /\ r.plan \in [Payments -> Nat]  BY <1>1, Fields
  <2>3. r.from = 0 \/ r.stage >= 1  BY <1>1
  <2> HIDE DEF r
  <2> QED  BY <1>1, <2>1, <2>2, <2>3 DEF SubscriptionOK
<1>3. /\ req' = [req EXCEPT ![s] = Idle] /\ subscription' = [subscription EXCEPT ![r.id] = row]
      /\ payment' = [p \in Payments |-> given(p)] /\ lot' = [lot EXCEPT ![r.lot] = to]
      /\ reservation' = IF r.from = 0 \/ r.row.state = "CONVERTED" THEN reservation
                        ELSE [reservation EXCEPT ![r.from] = converted]
  BY DEF CreateSubscription, Commits
<1> HIDE DEF r
<1>4. row \in SubscriptionRows  BY <1>2 DEF SubscriptionRows, SubscriptionStates
<1>5. ASSUME NEW p \in Payments
      PROVE  /\ given(p) \in PaymentRows
             /\ given(p).state = payment[p].state /\ given(p).of = payment[p].of
  <2>1. payment[p] \in PaymentRows /\ r.plan[p] \in Nat  BY <1>2, Tables
  <2>2. payment[p].allocated + r.plan[p] \in Nat  BY <2>1 DEF PaymentRows
  <2> QED  BY <2>1, <2>2 DEF PaymentRows
<1>6. r.from # 0 => /\ converted \in ReservationRows /\ converted.state = "CONVERTED"
                    /\ converted.lot = reservation[r.from].lot
  BY <1>2, Tables DEF ReservationRows, ReservationStates
<1>7. to \in {"AVAILABLE", "RESERVED", "SOLD"}  OBVIOUS
<1> HIDE DEF row, to, given, converted
<1>8. \A i \in Reservations :
        \/ reservation'[i] = reservation[i]
        \/ i = r.from /\ i # 0 /\ reservation'[i] = converted
  BY <1>2, <1>3, Tables
<1>9. /\ lot' \in [Lots -> {"AVAILABLE", "RESERVED", "SOLD"}]
      /\ subscription' \in [Subscriptions -> SubscriptionRows]
  BY <1>2, <1>3, <1>4, <1>7, Tables
<1>10. reservation' \in [Reservations -> ReservationRows]  BY <1>2, <1>3, <1>6, Tables
<1>11. payment' \in [Payments -> PaymentRows]  BY <1>3, <1>5
<1>12. \A p \in Payments : payment'[p].state = payment[p].state /\ payment'[p].of = payment[p].of
  BY <1>3, <1>5
<1>13. RowsOK'
  <2>1. \A i \in Reservations : reservation'[i].state # "none" => reservation'[i].lot \in Lots
    BY <1>2, <1>6, <1>8, Tables DEF RowsOK
  <2> QED  BY <1>12, <2>1, Tables DEF RowsOK
<1>14. \A i \in Reservations : reservation[i].state # "none" => reservation'[i].state # "none"
  BY <1>6, <1>8
<1> QED  BY <1>3, <1>9, <1>10, <1>11, <1>12, <1>13, <1>14, Committed

(* Subscriptions only.                                                      *)
LEMMA SubscriptionKeeps ==
  ASSUME IInv, NEW s \in Sessions, req' = [req EXCEPT ![s] = Idle],
         lot' \in [Lots -> {"AVAILABLE", "RESERVED", "SOLD"}],
         subscription' \in [Subscriptions -> SubscriptionRows],
         UNCHANGED <<reservation, payment>>
  PROVE  IInv'
<1>1. RowsOK'  BY Tables DEF RowsOK
<1>2. /\ reservation' \in [Reservations -> ReservationRows] /\ payment' \in [Payments -> PaymentRows]
      /\ \A r \in Reservations : reservation[r].state # "none" => reservation'[r].state # "none"
      /\ \A p \in Payments : payment[p].state # "none" => payment'[p].state # "none"
  BY Tables
<1> QED  BY <1>1, <1>2, Committed

LEMMA SubscriptionChangesKeep ==
  ASSUME IInv, NEW s \in Sessions,
         UpdateSubscription(s) \/ ChangeSubscriptionStatus(s) \/ Resubmit(s)
  PROVE  IInv'
<1> DEFINE r == req[s]
<1>1. r \in Requests /\ SubscriptionOK(r)  BY Requested DEF RequestOK
<1>2. CASE UpdateSubscription(s)
  <2> DEFINE state == IF r.to = NotGiven THEN subscription[r.id].state ELSE r.to
             row == [subscription[r.id] EXCEPT !.state = state, !.lot = r.lot]
  <2>1. r.op = "editSubscription"  BY <1>2 DEF UpdateSubscription, Commits, Runs
  <2>2. /\ req' = [req EXCEPT ![s] = Idle] /\ subscription' = [subscription EXCEPT ![r.id] = row]
        /\ UNCHANGED <<lot, reservation, payment>>
    BY <1>2 DEF UpdateSubscription, Commits
  <2> HIDE DEF r
  <2>3. r.id \in Subscriptions /\ r.lot \in Lots /\ r.to \in {NotGiven, "SUBMITTED"}
    BY <1>1, <2>1 DEF SubscriptionOK
  <2>4. subscription[r.id] \in SubscriptionRows  BY <2>3, Tables
  <2>5. state \in SubscriptionStates \cup {"none"}
    BY <2>3, <2>4 DEF SubscriptionRows, SubscriptionStates
  <2> HIDE DEF state
  <2>6. row \in SubscriptionRows  BY <2>3, <2>4, <2>5 DEF SubscriptionRows
  <2> HIDE DEF row
  <2> QED  BY <2>2, <2>3, <2>6, Tables, SubscriptionKeeps
<1>3. CASE ChangeSubscriptionStatus(s)
  <2> DEFINE row == [subscription[r.id] EXCEPT !.state = r.to]
             to == IF r.to = "APPROVED" THEN "SOLD"
                   ELSE IF r.row.from = 0 THEN "AVAILABLE" ELSE "RESERVED"
  <2>1. r.op = "subscriptionStatus"  BY <1>3 DEF ChangeSubscriptionStatus, Commits, Runs
  <2>2. /\ req' = [req EXCEPT ![s] = Idle] /\ subscription' = [subscription EXCEPT ![r.id] = row]
        /\ UNCHANGED <<reservation, payment>> /\ MayMove(r.row.state, r.to)
        /\ lot' = lot \/ lot' = [lot EXCEPT ![r.row.lot] = to]
    BY <1>3 DEF ChangeSubscriptionStatus, Commits, MayMove
  <2> HIDE DEF r
  <2>3. r.id \in Subscriptions  BY <1>1, <2>1 DEF SubscriptionOK
  <2>4. subscription[r.id] \in SubscriptionRows /\ r.to \in SubscriptionStates
    BY <2>2, <2>3, Tables DEF MayMove, SubscriptionStates
  <2>5. row \in SubscriptionRows /\ to \in {"AVAILABLE", "RESERVED", "SOLD"}
    BY <2>4 DEF SubscriptionRows
  <2> HIDE DEF row, to
  <2> QED  BY ZenonT(60), <2>2, <2>3, <2>5, Tables, SubscriptionKeeps
<1>4. CASE Resubmit(s)
  <2> DEFINE row == [subscription[r.id] EXCEPT !.state = "SUBMITTED"]
  <2>1. r.op = "resubmit"  BY <1>4 DEF Resubmit, Commits, Runs
  <2>2. /\ req' = [req EXCEPT ![s] = Idle] /\ subscription' = [subscription EXCEPT ![r.id] = row]
        /\ UNCHANGED <<lot, reservation, payment>>
    BY <1>4 DEF Resubmit, Commits
  <2> HIDE DEF r
  <2>3. r.id \in Subscriptions  BY <1>1, <2>1 DEF SubscriptionOK
  <2>4. subscription[r.id] \in SubscriptionRows  BY <2>3, Tables
  <2>5. row \in SubscriptionRows  BY <2>4 DEF SubscriptionRows, SubscriptionStates
  <2> HIDE DEF row
  <2> QED  BY <2>2, <2>3, <2>5, Tables, SubscriptionKeeps
<1> QED  BY <1>2, <1>3, <1>4

(* One payment only.                                                        *)
LEMMA PaymentKeeps ==
  ASSUME IInv, NEW s \in Sessions, req' = [req EXCEPT ![s] = Idle],
         NEW p \in Payments, NEW row \in PaymentRows, payment' = [payment EXCEPT ![p] = row],
         row.state # "none", row.state = "CANCELLED" => "cancelPayment" \in Endpoints,
         UNCHANGED <<lot, reservation, subscription>>
  PROVE  IInv'
<1>1. \A q \in Payments : payment'[q] = IF q = p THEN row ELSE payment[q]  BY Tables
<1>2. RowsOK'  BY <1>1, Tables DEF RowsOK
<1>3. payment' \in [Payments -> PaymentRows]  BY Tables
<1>4. /\ lot' \in [Lots -> {"AVAILABLE", "RESERVED", "SOLD"}]
      /\ subscription' \in [Subscriptions -> SubscriptionRows]
      /\ reservation' \in [Reservations -> ReservationRows]
      /\ \A r \in Reservations : reservation[r].state # "none" => reservation'[r].state # "none"
  BY Tables
<1>5. \A q \in Payments : payment[q].state # "none" => payment'[q].state # "none"  BY <1>1
<1> QED  BY <1>2, <1>3, <1>4, <1>5, Committed

LEMMA CreatePaymentKeeps ==
  ASSUME IInv, NEW s \in Sessions, CreateReservationPayment(s) PROVE IInv'
<1> DEFINE r == req[s]
           row == [state |-> "CONFIRMED", of |-> r.from, amount |-> r.amount, refunded |-> 0,
                   allocated |-> 0, kept |-> r.amount]
<1>1. r \in Requests /\ FeeOK(r) /\ r.op = "pay"
  BY Requested DEF CreateReservationPayment, Commits, Runs, RequestOK
<1>2. /\ req' = [req EXCEPT ![s] = Idle] /\ payment' = [payment EXCEPT ![r.id] = row]
      /\ UNCHANGED <<lot, reservation, subscription>>
  BY DEF CreateReservationPayment, Commits
<1> HIDE DEF r
<1>3. r.id \in Payments /\ r.from \in Reservations /\ r.amount \in 0..MaxFee
  BY <1>1, Fields DEF FeeOK
<1>4. row \in PaymentRows /\ row.state = "CONFIRMED"
  BY <1>3, AmountsAssumption DEF PaymentRows, PaymentStates
<1> HIDE DEF row
<1> QED  BY <1>2, <1>3, <1>4, PaymentKeeps

LEMMA CancelPaymentKeeps ==
  ASSUME IInv, NEW s \in Sessions, CancelReservationPayment(s) PROVE IInv'
<1> DEFINE r == req[s]
           row == [payment[r.id] EXCEPT !.state = "CANCELLED",
                                        !.kept = payment[r.id].kept - r.row.amount]
<1>1. r \in Requests /\ FeeOK(r) /\ r.op = "cancelPayment" /\ r.op \in Endpoints /\ r.stage = 1
  BY Requested DEF CancelReservationPayment, Commits, Runs, RequestOK
<1>2. /\ req' = [req EXCEPT ![s] = Idle] /\ payment' = [payment EXCEPT ![r.id] = row]
      /\ UNCHANGED <<lot, reservation, subscription>>
  BY DEF CancelReservationPayment, Commits
<1> HIDE DEF r
<1>3. r.id \in Payments /\ r.row \in PaymentRows  BY <1>1 DEF FeeOK
<1>4. payment[r.id].kept - r.row.amount \in Int /\ payment[r.id] \in PaymentRows
  BY <1>3, Tables, AmountsAssumption DEF PaymentRows
<1>5. row \in PaymentRows /\ row.state = "CANCELLED"
  BY <1>4 DEF PaymentRows, PaymentStates
<1> HIDE DEF row
<1> QED  BY <1>1, <1>2, <1>3, <1>5, PaymentKeeps

LEMMA RefundKeeps ==
  ASSUME IInv, NEW s \in Sessions, RefundReservationPayment(s) PROVE IInv'
<1> DEFINE r == req[s]
           given == r.row.refunded + r.amount
           state == IF given >= r.row.amount THEN "REFUNDED" ELSE "PARTIALLY_REFUNDED"
           row == [payment[r.id] EXCEPT !.state = state,
                                        !.refunded = payment[r.id].refunded + r.amount,
                                        !.kept = payment[r.id].kept - r.amount]
<1>1. r \in Requests /\ FeeOK(r) /\ r.op = "refund"
  BY Requested DEF RefundReservationPayment, Commits, Runs, RequestOK
<1>2. /\ req' = [req EXCEPT ![s] = Idle] /\ payment' = [payment EXCEPT ![r.id] = row]
      /\ UNCHANGED <<lot, reservation, subscription>>
  BY DEF RefundReservationPayment, Commits
<1>3. state \in {"REFUNDED", "PARTIALLY_REFUNDED"}  OBVIOUS
<1> HIDE DEF r, state
<1>4. r.id \in Payments /\ r.amount \in 0..MaxFee  BY <1>1, Fields DEF FeeOK
<1>5. /\ payment[r.id] \in PaymentRows
      /\ payment[r.id].refunded + r.amount \in Nat /\ payment[r.id].kept - r.amount \in Int
  BY <1>4, Tables, AmountsAssumption DEF PaymentRows
<1>6. row \in PaymentRows /\ row.state = state
  BY <1>3, <1>5 DEF PaymentRows, PaymentStates
<1> HIDE DEF row
<1> QED  BY <1>2, <1>3, <1>4, <1>6, PaymentKeeps

-----------------------------------------------------------------------------
LEMMA NextKeeps == ASSUME IInv, [Next]_vars PROVE IInv'
<1>1. CASE UNCHANGED vars
  <2>1. UNCHANGED <<lot, reservation, subscription, payment, req>>  BY <1>1 DEF vars
  <2>2. TypeOK' /\ Exclusion' /\ RowsOK'  BY <2>1 DEF IInv, TypeOK, Exclusion, RowsOK
  <2>3. ASSUME NEW s \in Sessions PROVE RequestOK(req[s])'
    BY <2>1, Requested DEF RequestOK, ReservationOK, SubscriptionOK, FeeOK, LotOK, TakesLot
  <2> QED  BY <2>2, <2>3 DEF IInv
<1>2. ASSUME NEW s \in Sessions, Rollback(s) PROVE IInv'
  BY <1>2, BackToIdle DEF Rollback
<1> QED
  BY <1>1, <1>2, RequestReservationKeeps, RequestSubscriptionKeeps, RequestPaymentKeeps,
     ReadRowKeeps, LockRowKeeps, ReadFeesKeeps, CreateReservationKeeps, UpdateReservationKeeps,
     ChangeReservationStatusKeeps, CreateSubscriptionKeeps, SubscriptionChangesKeep,
     CreatePaymentKeeps, CancelPaymentKeeps, RefundKeeps
  DEF Next

LEMMA Initial == ASSUME Init PROVE IInv
<1>1. 0 \in 0..MaxFee  BY AmountsAssumption
<1>2. TypeOK  BY <1>1, IdleType DEF Init, TypeOK, ReservationRows, SubscriptionRows, PaymentRows
<1>3. \A s \in Sessions : req[s] = Idle  BY DEF Init
<1>4. Idle.held = {} /\ Idle.op = "none"  BY DEF Idle
<1>5. Exclusion  BY <1>3, <1>4 DEF Exclusion
<1>6. RowsOK  BY DEF Init, RowsOK
<1>7. \A s \in Sessions : RequestOK(req[s])
  BY <1>3, <1>4 DEF RequestOK, ReservationOK, SubscriptionOK, FeeOK, LotOK, TakesLot
<1> QED  BY <1>2, <1>5, <1>6, <1>7 DEF IInv

(* What the requests and the rows are, and who holds which row: the locks   *)
(* of lockCatalogItem and lockReservation exclude each other.               *)
THEOREM TypeCorrect == Spec => [](TypeOK /\ Exclusion)
<1>1. Spec => []IInv  BY Initial, NextKeeps, PTL DEF Spec
<1>2. IInv => TypeOK /\ Exclusion  BY DEF IInv
<1> QED  BY <1>1, <1>2, PTL

-----------------------------------------------------------------------------
(* The payments of a fee never exceed it.                                   *)

(* What is paid of a fee, by the payments of a table.                       *)
CountedIn(pay, r) == {p \in Payments : pay[p].of = r /\ pay[p].state # "CANCELLED"}
AmountIn(pay) == [p \in Payments |-> pay[p].amount]
PaidIn(pay, r) == SumFunctionOnSet(AmountIn(pay), CountedIn(pay, r))

LEMMA PaidInTable ==
  ASSUME NEW pay \in [Payments -> PaymentRows], NEW r
  PROVE  /\ CountedIn(pay, r) \subseteq Payments /\ IsFiniteSet(CountedIn(pay, r))
         /\ \A p \in Payments : AmountIn(pay)[p] = pay[p].amount /\ AmountIn(pay)[p] \in Nat
         /\ PaidIn(pay, r) \in Nat
<1>1. CountedIn(pay, r) \subseteq Payments /\ IsFiniteSet(CountedIn(pay, r))
  BY PaymentsFinite DEF CountedIn
<1>2. \A p \in Payments : AmountIn(pay)[p] = pay[p].amount /\ AmountIn(pay)[p] \in Nat
  BY AmountsAssumption DEF AmountIn, PaymentRows
<1>3. PaidIn(pay, r) \in Nat  BY <1>1, <1>2, SumNat DEF PaidIn
<1> QED  BY <1>1, <1>2, <1>3

LEMMA PaidSame ==
  ASSUME NEW pay \in [Payments -> PaymentRows], NEW pay2 \in [Payments -> PaymentRows], NEW r,
         CountedIn(pay2, r) = CountedIn(pay, r),
         \A p \in CountedIn(pay, r) : pay2[p].amount = pay[p].amount
  PROVE  PaidIn(pay2, r) = PaidIn(pay, r)
<1> DEFINE f == AmountIn(pay)
           h == AmountIn(pay2)
           S == CountedIn(pay, r)
<1>1. IsFiniteSet(S) /\ \A p \in S : f[p] \in Int /\ h[p] = f[p]
  BY PaidInTable
<1>2. PaidIn(pay2, r) = SumFunctionOnSet(h, S) /\ PaidIn(pay, r) = SumFunctionOnSet(f, S)
  BY DEF PaidIn
<1> HIDE DEF f, h, S
<1> QED  BY <1>1, <1>2, SumEqual

LEMMA PaidWithoutOne ==
  ASSUME NEW pay \in [Payments -> PaymentRows], NEW pay2 \in [Payments -> PaymentRows], NEW r,
         NEW c \in Payments, CountedIn(pay2, r) = CountedIn(pay, r) \ {c},
         \A p \in CountedIn(pay, r) : pay2[p].amount = pay[p].amount
  PROVE  PaidIn(pay2, r) <= PaidIn(pay, r)
<1> DEFINE f == AmountIn(pay)
           h == AmountIn(pay2)
           S == CountedIn(pay, r)
<1>1. IsFiniteSet(S) /\ IsFiniteSet(S \ {c}) /\ f[c] \in Nat
      /\ \A p \in S : f[p] \in Int /\ h[p] = f[p]
  BY PaidInTable, FS_RemoveElement
<1>2. PaidIn(pay2, r) = SumFunctionOnSet(h, S \ {c}) /\ PaidIn(pay, r) = SumFunctionOnSet(f, S)
  BY DEF PaidIn
<1>3. PaidIn(pay2, r) \in Nat /\ PaidIn(pay, r) \in Nat  BY PaidInTable
<1> HIDE DEF f, h, S
<1>4. SumFunctionOnSet(h, S \ {c}) = SumFunctionOnSet(f, S \ {c})  BY <1>1, SumEqual
<1>5. CASE c \in S
  <2>1. SumFunctionOnSet(f, S) = f[c] + SumFunctionOnSet(f, S \ {c})
    BY <1>1, <1>5, SumTakeOne
  <2> QED  BY <1>1, <1>2, <1>3, <1>4, <2>1
<1>6. CASE c \notin S
  <2>1. S \ {c} = S  BY <1>6
  <2> QED  BY <1>2, <1>3, <1>4, <2>1
<1> QED  BY <1>5, <1>6

LEMMA PaidWithOne ==
  ASSUME NEW pay \in [Payments -> PaymentRows], NEW pay2 \in [Payments -> PaymentRows], NEW r,
         NEW c \in Payments, c \notin CountedIn(pay, r),
         CountedIn(pay2, r) = CountedIn(pay, r) \cup {c},
         \A p \in CountedIn(pay, r) : pay2[p].amount = pay[p].amount
  PROVE  PaidIn(pay2, r) = pay2[c].amount + PaidIn(pay, r)
<1> DEFINE f == AmountIn(pay)
           h == AmountIn(pay2)
           S == CountedIn(pay, r)
<1>1. /\ IsFiniteSet(S) /\ \A p \in S : f[p] \in Int /\ h[p] = f[p]
      /\ \A p \in S \cup {c} : h[p] \in Int
      /\ h[c] = pay2[c].amount /\ c \notin S
  BY PaidInTable
<1>2. PaidIn(pay2, r) = SumFunctionOnSet(h, S \cup {c}) /\ PaidIn(pay, r) = SumFunctionOnSet(f, S)
  BY DEF PaidIn
<1> HIDE DEF f, h, S
<1>3. SumFunctionOnSet(h, S) = SumFunctionOnSet(f, S)  BY <1>1, SumEqual
<1>4. SumFunctionOnSet(h, S \cup {c}) = h[c] + SumFunctionOnSet(h, S)  BY <1>1, SumAddOne
<1> QED  BY <1>1, <1>2, <1>3, <1>4

LEMMA FeeIsPaidIn == \A r : FeePaid(r) = PaidIn(payment, r)
BY DEF FeePaid, Total, PaymentsOf, PaidIn, CountedIn, AmountIn

(* Who is about to pay holds the reservation, and what was read remains.    *)
Paying(r) == r.op = "pay" /\ r.stage = 2
PayFits ==
  \A t \in Sessions : Paying(req[t]) => req[t].row.fee <= FeeRemaining(req[t].from)

LEMMA FeeHeld ==
  ASSUME IInv, NEW t \in Sessions, Paying(req[t])
  PROVE  /\ req[t].from \in Reservations /\ req[t].from # 0
         /\ reservation[req[t].from].state # "none"
         /\ <<"reservation", req[t].from>> \in req[t].held
         /\ req[t].row \in ReservationRows /\ req[t].amount \in Amounts /\ req[t].id \in Payments
<1>1. FeeOK(req[t]) /\ req[t].op = "pay" /\ req[t].stage = 2
  BY Requested DEF RequestOK, Paying
<1> QED  BY <1>1, IdsAssumption DEF FeeOK

(* Nothing that another session commits takes room from it.                 *)
LEMMA RoomIsKept ==
  ASSUME IInv, IInv', ~({"cancelPayment", "refund"} \subseteq Endpoints),
         NEW s \in Sessions, NEW t \in Sessions \ {s}, Paying(req[t]),
         \/ CreateReservation(s) \/ UpdateReservation(s) \/ ChangeReservationStatus(s)
         \/ CreateSubscription(s) \/ UpdateSubscription(s) \/ ChangeSubscriptionStatus(s)
         \/ Resubmit(s) \/ CreateReservationPayment(s) \/ CancelReservationPayment(s)
         \/ RefundReservationPayment(s)
  PROVE  /\ reservation'[req[t].from].fee = reservation[req[t].from].fee
         /\ PaidIn(payment', req[t].from) <= PaidIn(payment, req[t].from)
<1> DEFINE f == req[t].from
           r == req[s]
<1>1. /\ f \in Reservations /\ f # 0 /\ reservation[f].state # "none"
      /\ <<"reservation", f>> \in req[t].held
  BY FeeHeld
<1>2. /\ reservation \in [Reservations -> ReservationRows] /\ payment \in [Payments -> PaymentRows]
      /\ payment' \in [Payments -> PaymentRows]
  BY DEF IInv, TypeOK
<1>3. PaidIn(payment, f) \in Nat  BY <1>2, PaidInTable
<1>4. r \in Requests /\ RequestOK(r)  BY Requested
<1>5. t \in Sessions /\ t # s  OBVIOUS
<1> HIDE DEF f
<1>6. CASE UNCHANGED <<reservation, payment>>
  BY <1>3, <1>6 DEF f
<1>7. CASE CreateReservation(s)
  <2>1. r.op = "reserve" /\ reservation[r.id].state = "none" /\ UNCHANGED payment
        /\ reservation' = [reservation EXCEPT ![r.id] = [state |-> r.to, lot |-> r.lot, fee |-> r.amount]]
    BY <1>7 DEF CreateReservation, Commits, Runs
  <2>2. r.id # f  BY <1>1, <2>1
  <2>3. reservation'[f] = reservation[f]  BY <1>1, <1>2, <2>1, <2>2
  <2> QED  BY <1>3, <2>1, <2>3 DEF f
<1>8. CASE UpdateReservation(s)
  <2> DEFINE state == IF r.to = NotGiven THEN reservation[r.id].state ELSE r.to
  <2>1. /\ r.op = "editReservation" /\ r.stage = 2 /\ Blockers(s) = {} /\ UNCHANGED payment
        /\ reservation' = [reservation EXCEPT ![r.id] = [state |-> state, lot |-> r.lot, fee |-> r.amount]]
    BY <1>8 DEF UpdateReservation, Commits, Runs
  <2>2. <<"reservation", r.id>> \in Written(r)  BY <2>1 DEF Written
  <2>3. <<"reservation", r.id>> \notin req[t].held  BY <1>5, <2>1, <2>2 DEF Blockers
  <2>4. r.id # f  BY <1>1, <2>3
  <2> HIDE DEF state
  <2>5. reservation'[f] = reservation[f]  BY <1>1, <1>2, <2>1, <2>4
  <2> QED  BY <1>3, <2>1, <2>5 DEF f
<1>9. CASE ChangeReservationStatus(s)
  <2>1. /\ UNCHANGED payment
        /\ reservation' = [reservation EXCEPT ![r.id] = [reservation[r.id] EXCEPT !.state = r.to]]
    BY <1>9 DEF ChangeReservationStatus
  <2>2. reservation'[f].fee = reservation[f].fee  BY <1>1, <1>2, <2>1 DEF ReservationRows
  <2> QED  BY <1>3, <2>1, <2>2 DEF f
<1>10. CASE CreateSubscription(s)
  <2> DEFINE given(p) == [payment[p] EXCEPT !.allocated = payment[p].allocated + r.plan[p]]
             converted == [reservation[r.from] EXCEPT !.state = "CONVERTED"]
  <2>1. /\ payment' = [p \in Payments |-> given(p)]
        /\ reservation' = IF r.from = 0 \/ r.row.state = "CONVERTED" THEN reservation
                          ELSE [reservation EXCEPT ![r.from] = converted]
    BY <1>10 DEF CreateSubscription
  <2>2. reservation'[f].fee = reservation[f].fee
    <3>1. CASE reservation' = reservation  BY <3>1
    <3>2. CASE reservation' = [reservation EXCEPT ![r.from] = converted]
      BY <1>1, <1>2, <3>2 DEF ReservationRows
    <3> QED  BY <2>1, <3>1, <3>2
  <2>3. \A p \in Payments : /\ payment'[p].state = payment[p].state /\ payment'[p].of = payment[p].of
                            /\ payment'[p].amount = payment[p].amount
    <3>1. \A p \in Payments : /\ given(p).state = payment[p].state /\ given(p).of = payment[p].of
                              /\ given(p).amount = payment[p].amount
      BY <1>2 DEF PaymentRows
    <3> HIDE DEF given
    <3> QED  BY <2>1, <3>1
  <2>4. CountedIn(payment', f) = CountedIn(payment, f)  BY <2>3 DEF CountedIn
  <2>5. \A p \in CountedIn(payment, f) : payment'[p].amount = payment[p].amount
    BY <2>3 DEF CountedIn
  <2>6. PaidIn(payment', f) = PaidIn(payment, f)  BY <1>2, <2>4, <2>5, PaidSame
  <2> QED  BY <1>3, <2>2, <2>6 DEF f
<1>11. CASE CreateReservationPayment(s)
  <2> DEFINE row == [state |-> "CONFIRMED", of |-> r.from, amount |-> r.amount, refunded |-> 0,
                     allocated |-> 0, kept |-> r.amount]
  <2>1. /\ Paying(r) /\ payment[r.id].state = "none" /\ UNCHANGED reservation
        /\ payment' = [payment EXCEPT ![r.id] = row]
    BY <1>11 DEF CreateReservationPayment, Commits, Runs, Paying
  <2>2. <<"reservation", r.from>> \in r.held /\ r.id \in Payments  BY <2>1, FeeHeld
  <2>3. r.held \cap req[t].held = {}  BY <1>5 DEF IInv, Exclusion
  <2>4. r.from # f  BY <1>1, <2>2, <2>3
  <2>5. payment[r.id].of = 0  BY <2>1, <2>2, Tables DEF RowsOK
  <2>6. row.of = r.from  OBVIOUS
  <2> HIDE DEF row, r
  <2>7. \A p \in Payments : payment'[p] = IF p = r.id THEN row ELSE payment[p]
    BY <1>2, <2>1, <2>2
  <2>8. CountedIn(payment', f) = CountedIn(payment, f)
    BY <1>1, <2>4, <2>5, <2>6, <2>7 DEF CountedIn
  <2>9. \A p \in CountedIn(payment, f) : payment'[p].amount = payment[p].amount
    BY <1>1, <2>5, <2>7 DEF CountedIn
  <2>10. PaidIn(payment', f) = PaidIn(payment, f)  BY <1>2, <2>8, <2>9, PaidSame
  <2> QED  BY <1>3, <2>1, <2>10 DEF f
<1>12. CASE CancelReservationPayment(s)
  <2> DEFINE row == [payment[r.id] EXCEPT !.state = "CANCELLED",
                                          !.kept = payment[r.id].kept - r.row.amount]
  <2>1. /\ r.op = "cancelPayment" /\ UNCHANGED reservation
        /\ payment' = [payment EXCEPT ![r.id] = row]
    BY <1>12 DEF CancelReservationPayment, Commits, Runs
  <2>2. r.id \in Payments  BY <1>4, <2>1 DEF RequestOK, FeeOK
  <2>3. row.state = "CANCELLED" /\ row.of = payment[r.id].of /\ row.amount = payment[r.id].amount
    BY <1>2, <2>2 DEF PaymentRows
  <2> HIDE DEF row, r
  <2>4. \A p \in Payments : payment'[p] = IF p = r.id THEN row ELSE payment[p]
    BY <1>2, <2>1, <2>2
  <2>5. CountedIn(payment', f) = CountedIn(payment, f) \ {r.id}
    BY <2>3, <2>4 DEF CountedIn
  <2>6. \A p \in CountedIn(payment, f) : payment'[p].amount = payment[p].amount
    BY <2>3, <2>4 DEF CountedIn
  <2>7. PaidIn(payment', f) <= PaidIn(payment, f)
    BY <1>2, <2>2, <2>5, <2>6, PaidWithoutOne
  <2> QED  BY <2>1, <2>7 DEF f
<1>13. CASE RefundReservationPayment(s)
  <2> DEFINE state == IF r.row.refunded + r.amount >= r.row.amount THEN "REFUNDED"
                      ELSE "PARTIALLY_REFUNDED"
             row == [payment[r.id] EXCEPT !.state = state,
                                          !.refunded = payment[r.id].refunded + r.amount,
                                          !.kept = payment[r.id].kept - r.amount]
  <2>1. /\ r.op = "refund" /\ UNCHANGED reservation
        /\ payment' = [payment EXCEPT ![r.id] = row]
    BY <1>13 DEF RefundReservationPayment, Commits, Runs
  <2>2. r.id \in Payments /\ "refund" \in Endpoints
    BY <1>4, <2>1 DEF RequestOK, FeeOK
  <2>3. payment[r.id].state # "CANCELLED"  BY <2>2, Tables DEF RowsOK
  <2>4. state # "CANCELLED"  OBVIOUS
  <2> HIDE DEF state
  <2>5. row.state = state /\ row.of = payment[r.id].of /\ row.amount = payment[r.id].amount
    BY <1>2, <2>2 DEF PaymentRows
  <2> HIDE DEF row, r
  <2>6. \A p \in Payments : payment'[p] = IF p = r.id THEN row ELSE payment[p]
    BY <1>2, <2>1, <2>2
  <2>7. CountedIn(payment', f) = CountedIn(payment, f)
    BY <2>3, <2>4, <2>5, <2>6 DEF CountedIn
  <2>8. \A p \in CountedIn(payment, f) : payment'[p].amount = payment[p].amount
    BY <2>5, <2>6 DEF CountedIn
  <2>9. PaidIn(payment', f) = PaidIn(payment, f)  BY <1>2, <2>7, <2>8, PaidSame
  <2> QED  BY <1>3, <2>1, <2>9 DEF f
<1> QED
  BY <1>6, <1>7, <1>8, <1>9, <1>10, <1>11, <1>12, <1>13
  DEF UpdateSubscription, ChangeSubscriptionStatus, Resubmit

(* Who begins has read nothing; who reads the fee reads what remains.       *)
LEMMA BeginsAtZero ==
  ASSUME IInv, NEW s \in Sessions, NEW fields, Begin(s, fields), "stage" \notin DOMAIN fields
  PROVE  req'[s].stage = 0
<1>1. FilledIn(fields).stage = Idle.stage
  <2>1. "stage" \in DOMAIN Idle  BY DEF Idle
  <2> QED  BY <2>1 DEF FilledIn
<1>2. Idle.stage = 0  BY DEF Idle
<1> QED  BY <1>1, <1>2 DEF Begin, IInv, TypeOK

LEMMA NewRequest ==
  ASSUME IInv, NEW s \in Sessions,
         RequestReservation(s) \/ RequestSubscription(s) \/ RequestPayment(s)
  PROVE  /\ req'[s].stage = 0
         /\ \A t \in Sessions \ {s} : req'[t] = req[t]
         /\ UNCHANGED <<lot, reservation, subscription, payment>>
<1>1. PICK fields : Begin(s, fields) /\ "stage" \notin DOMAIN fields
  <2>1. ASSUME NEW op, NEW id, NEW l, NEW amount, NEW to
        PROVE  /\ "stage" \notin DOMAIN [op |-> op, id |-> id, lot |-> l, amount |-> amount, to |-> to]
               /\ "stage" \notin DOMAIN [op |-> op, id |-> id, from |-> l, amount |-> amount, to |-> to]
               /\ "stage" \notin DOMAIN [op |-> op, id |-> id, lot |-> l, to |-> to]
               /\ "stage" \notin DOMAIN [op |-> op, id |-> id, to |-> to]
               /\ "stage" \notin DOMAIN [op |-> op, id |-> id]
               /\ "stage" \notin DOMAIN [op |-> op, id |-> id, from |-> l, amount |-> amount]
               /\ "stage" \notin DOMAIN [op |-> op, id |-> id, amount |-> amount]
    OBVIOUS
  <2>2. CASE RequestReservation(s)  BY Zenon, <2>1, <2>2 DEF RequestReservation
  <2>3. CASE RequestSubscription(s)  BY Zenon, <2>1, <2>3 DEF RequestSubscription
  <2>4. CASE RequestPayment(s)  BY Zenon, <2>1, <2>4 DEF RequestPayment
  <2> QED  BY <2>2, <2>3, <2>4
<1>2. req'[s].stage = 0  BY <1>1, BeginsAtZero
<1> QED  BY <1>1, <1>2 DEF Begin, IInv, TypeOK

LEMMA Advances ==
  ASSUME IInv, NEW s \in Sessions, NEW n, DOMAIN n = DOMAIN req[s], Advance(s, n)
  PROVE  /\ req'[s].op = n.op /\ req'[s].stage = n.stage + 1 /\ req'[s].row = n.row
         /\ req'[s].from = n.from /\ req'[s].lot = n.lot /\ req'[s].id = n.id /\ req'[s].to = n.to
         /\ \A t \in Sessions \ {s} : req'[t] = req[t]
         /\ UNCHANGED <<lot, reservation, subscription, payment>>
<1>1. {"op", "stage", "id", "from", "lot", "to", "row", "held"} \subseteq DOMAIN n
  BY Requested DEF Requests
<1>2. /\ req' = [req EXCEPT ![s] = Advanced(n, Locking(req[s]))]
      /\ UNCHANGED <<lot, reservation, subscription, payment>>
  BY DEF Advance, Advanced
<1> DEFINE m == Advanced(n, Locking(req[s]))
<1>3. /\ m.op = n.op /\ m.stage = n.stage + 1 /\ m.row = n.row /\ m.from = n.from
      /\ m.lot = n.lot /\ m.id = n.id /\ m.to = n.to
  BY <1>1 DEF Advanced
<1> HIDE DEF m
<1> QED  BY <1>2, <1>3 DEF IInv, TypeOK, m

(* The next statement of a request: what it has read, and what it was.      *)
LEMMA NextStatement ==
  ASSUME IInv, NEW s \in Sessions, ReadRow(s) \/ LockRow(s) \/ ReadFees(s)
  PROVE  /\ req'[s].op = req[s].op /\ req'[s].stage = req[s].stage + 1
         /\ req'[s].from = req[s].from /\ req'[s].id = req[s].id /\ req'[s].to = req[s].to
         /\ LockRow(s) \/ ReadFees(s) => req'[s].row = req[s].row /\ req'[s].lot = req[s].lot
         /\ req[s].op # "subscribe" => req'[s].lot = req[s].lot
         /\ \A t \in Sessions \ {s} : req'[t] = req[t]
         /\ UNCHANGED <<lot, reservation, subscription, payment>>
<1> DEFINE r == req[s]
<1>0. DOMAIN r = {"op", "stage", "id", "from", "lot", "to", "amount", "row", "plan", "held"}
  BY Requested DEF Requests
<1>1. CASE LockRow(s)  BY <1>1, Advances DEF LockRow
<1>2. CASE ReadFees(s)
  <2>1. r.op = "subscribe"  BY <1>2 DEF ReadFees, Runs
  <2>2. CASE r.from = 0  BY <1>2, <2>1, <2>2, Advances DEF ReadFees
  <2>3. CASE r.from # 0
    <3> DEFINE n == WithPlan(r, AllocationPlan(r.from, r.amount))
    <3>1. Advance(s, n)  BY <1>2, <2>3 DEF ReadFees, WithPlan
    <3>2. /\ DOMAIN n = DOMAIN r /\ n.op = r.op /\ n.stage = r.stage /\ n.row = r.row
          /\ n.from = r.from /\ n.lot = r.lot /\ n.id = r.id /\ n.to = r.to
      BY <1>0 DEF WithPlan
    <3> HIDE DEF n
    <3> QED  BY <2>1, <3>1, <3>2, Advances
  <2> QED  BY <2>2, <2>3
<1>3. CASE ReadRow(s) /\ ~LockRow(s) /\ ~ReadFees(s)
  <2>1. PICK n :
          /\ Advance(s, n) /\ DOMAIN n = DOMAIN r /\ n.op = r.op /\ n.stage = r.stage
          /\ n.from = r.from /\ n.id = r.id /\ n.to = r.to
          /\ r.op # "subscribe" => n.lot = r.lot
    <3>1. CASE r.op = "subscribe"
      <4>1. CASE r.from = 0
        <5>1. Advance(s, r)  BY <1>3, <3>1, <4>1 DEF ReadRow, Runs
        <5> HIDE DEF r
        <5> QED  BY <3>1, <5>1
      <4>2. CASE r.from # 0
        <5> DEFINE n == WithLot(r, reservation[r.from], reservation[r.from].lot)
        <5>1. Advance(s, n)  BY <1>3, <3>1, <4>2 DEF ReadRow, Runs, WithLot
        <5>2. /\ DOMAIN n = DOMAIN r /\ n.op = r.op /\ n.stage = r.stage
              /\ n.from = r.from /\ n.id = r.id /\ n.to = r.to
          BY <1>0 DEF WithLot
        <5> HIDE DEF n, r
        <5> QED  BY <3>1, <5>1, <5>2
      <4> QED  BY <4>1, <4>2
    <3>2. CASE r.op # "subscribe"
      <4>1. PICK row : Advance(s, WithRow(r, row))
        BY Zenon, <1>3, <3>2 DEF ReadRow, Runs, WithRow
      <4> DEFINE n == WithRow(r, row)
      <4>2. /\ DOMAIN n = DOMAIN r /\ n.op = r.op /\ n.stage = r.stage /\ n.lot = r.lot
            /\ n.from = r.from /\ n.id = r.id /\ n.to = r.to
        BY <1>0 DEF WithRow
      <4>3. Advance(s, n)  BY <4>1
      <4> HIDE DEF n, r
      <4> QED  BY <4>2, <4>3
    <3> QED  BY <3>1, <3>2
  <2> HIDE DEF r
  <2>2. DOMAIN n = DOMAIN req[s]  BY <2>1 DEF r
  <2> QED  BY <1>3, <2>1, <2>2, Advances DEF r
<1> QED  BY <1>1, <1>2, <1>3

LEMMA FeeIsRead ==
  ASSUME IInv, NEW s \in Sessions, ReadRow(s), req[s].op = "pay"
  PROVE  req'[s].row.fee = FeeRemaining(req[s].from)
<1> DEFINE r == req[s]
           left == FeeRemaining(r.from)
           row == [reservation[r.from] EXCEPT !.fee = left]
           n == WithRow(r, row)
<1>1. Runs(s, "pay", 1) /\ Advance(s, n)
  BY DEF ReadRow, Runs, WithRow
<1>2. r.from \in Reservations
  <2>1. FeeOK(r)  BY Requested DEF RequestOK
  <2> QED  BY <2>1 DEF FeeOK
<1> HIDE DEF left
<1>3. row.fee = left  BY <1>2, Tables DEF ReservationRows
<1> HIDE DEF row
<1>4. DOMAIN n = DOMAIN r /\ n.row = row  BY Requested DEF Requests, WithRow
<1> HIDE DEF n
<1>5. req'[s].row = n.row  BY <1>1, <1>4, Advances
<1> QED  BY <1>3, <1>4, <1>5 DEF left

LEMMA RemainingIn ==
  /\ \A f : FeeRemaining(f) = AtLeast0(reservation[f].fee - PaidIn(payment, f))
  /\ \A f : FeeRemaining(f)' = AtLeast0(reservation'[f].fee - PaidIn(payment', f))
BY DEF FeeRemaining, FeePaid, Total, PaymentsOf, PaidIn, CountedIn, AmountIn

LEMMA PayFitsKeeps ==
  ASSUME IInv, PayFits, IInv', ~({"cancelPayment", "refund"} \subseteq Endpoints), [Next]_vars
  PROVE  PayFits'
<1> SUFFICES ASSUME NEW t \in Sessions, Paying(req'[t])
             PROVE  req'[t].row.fee <= AtLeast0(reservation'[req'[t].from].fee
                                                  - PaidIn(payment', req'[t].from))
  BY RemainingIn DEF PayFits, Paying
<1>1. ASSUME req'[t] = req[t],
             reservation'[req[t].from].fee = reservation[req[t].from].fee,
             PaidIn(payment', req[t].from) <= PaidIn(payment, req[t].from)
      PROVE  req'[t].row.fee <= AtLeast0(reservation'[req'[t].from].fee
                                           - PaidIn(payment', req'[t].from))
  <2> DEFINE f == req[t].from
  <2>1. req[t].row.fee <= AtLeast0(reservation[f].fee - PaidIn(payment, f))
    BY <1>1, RemainingIn DEF PayFits
  <2>2. f \in Reservations /\ req[t].row \in ReservationRows  BY <1>1, FeeHeld
  <2>3. reservation[f].fee \in Nat /\ req[t].row.fee \in Nat
    BY <2>2, Tables, AmountsAssumption DEF ReservationRows
  <2>4. PaidIn(payment, f) \in Nat /\ PaidIn(payment', f) \in Nat
    BY PaidInTable DEF IInv, TypeOK
  <2> QED  BY <1>1, <2>1, <2>3, <2>4 DEF AtLeast0
<1>2. CASE UNCHANGED vars
  <2>1. UNCHANGED <<reservation, payment, req>>  BY <1>2 DEF vars
  <2>2. PaidIn(payment, req[t].from) \in Nat  BY PaidInTable DEF IInv, TypeOK
  <2> QED  BY <1>1, <2>1, <2>2
<1>3. ASSUME NEW s \in Sessions,
             \/ RequestReservation(s) \/ RequestSubscription(s) \/ RequestPayment(s)
             \/ ReadRow(s) \/ LockRow(s) \/ ReadFees(s) \/ Rollback(s)
      PROVE  req'[t].row.fee <= AtLeast0(reservation'[req'[t].from].fee
                                           - PaidIn(payment', req'[t].from))
  <2>1. UNCHANGED <<reservation, payment>> /\ (t # s => req'[t] = req[t])
    BY <1>3, NewRequest, NextStatement DEF Rollback, IInv, TypeOK
  <2>2. PaidIn(payment, req[t].from) \in Nat  BY PaidInTable DEF IInv, TypeOK
  <2>3. CASE t # s  BY <1>1, <2>1, <2>2, <2>3
  <2>4. CASE t = s
    <3>1. ~(RequestReservation(s) \/ RequestSubscription(s) \/ RequestPayment(s))
      BY <2>4, NewRequest DEF Paying
    <3>2. ~Rollback(s)
      <4>1. Idle.op = "none"  BY DEF Idle
      <4> QED  BY <2>4, <4>1 DEF Rollback, Paying, IInv, TypeOK
    <3>3. req'[s].op = req[s].op /\ req'[s].stage = req[s].stage + 1 /\ req'[s].from = req[s].from
      BY <1>3, <3>1, <3>2, NextStatement
    <3>4. req[s].op = "pay" /\ req[s].stage = 1
      <4>1. req[s].stage \in 0..3  BY Requested, Fields
      <4> QED  BY <2>4, <3>3, <4>1 DEF Paying
    <3>5. ReadRow(s)  BY <1>3, <3>1, <3>2, <3>4 DEF LockRow, ReadFees, Runs
    <3>6. req'[s].row.fee = AtLeast0(reservation[req[s].from].fee - PaidIn(payment, req[s].from))
      BY <3>4, <3>5, FeeIsRead, RemainingIn
    <3>7. req[s].from \in Reservations
      <4>1. FeeOK(req[s])  BY Requested DEF RequestOK
      <4> QED  BY <3>4, <4>1 DEF FeeOK
    <3>8. reservation[req[s].from].fee \in Nat
      BY <3>7, Tables, AmountsAssumption DEF ReservationRows
    <3> QED  BY <2>1, <2>2, <2>4, <3>3, <3>6, <3>8 DEF AtLeast0
  <2> QED  BY <2>3, <2>4
<1>4. ASSUME NEW s \in Sessions,
             \/ CreateReservation(s) \/ UpdateReservation(s) \/ ChangeReservationStatus(s)
             \/ CreateSubscription(s) \/ UpdateSubscription(s) \/ ChangeSubscriptionStatus(s)
             \/ Resubmit(s) \/ CreateReservationPayment(s) \/ CancelReservationPayment(s)
             \/ RefundReservationPayment(s)
      PROVE  req'[t].row.fee <= AtLeast0(reservation'[req'[t].from].fee
                                           - PaidIn(payment', req'[t].from))
  <2>1. req' = [req EXCEPT ![s] = Idle]
    BY <1>4 DEF CreateReservation, UpdateReservation, ChangeReservationStatus, CreateSubscription,
         UpdateSubscription, ChangeSubscriptionStatus, Resubmit, CreateReservationPayment,
         CancelReservationPayment, RefundReservationPayment, Commits
  <2>2. t # s /\ req'[t] = req[t]
    <3>1. Idle.op = "none"  BY DEF Idle
    <3> QED  BY <2>1, <3>1 DEF Paying, IInv, TypeOK
  <2>3. Paying(req[t])  BY <2>2
  <2> QED  BY <1>1, <1>4, <2>2, <2>3, RoomIsKept
<1> QED  BY <1>2, <1>3, <1>4 DEF Next

(* The step by which a payment comes to be is that of its own request.      *)
LEMMA NewPayment ==
  ASSUME IInv, [Next]_vars, NEW p \in Payments,
         payment[p].state = "none", payment'[p].state # "none"
  PROVE  \E s \in Sessions : CreateReservationPayment(s) /\ req[s].id = p
<1>1. payment' # payment  OBVIOUS
<1>2. PICK s \in Sessions :
        \/ CreateSubscription(s) \/ CreateReservationPayment(s) \/ CancelReservationPayment(s)
        \/ RefundReservationPayment(s)
  <2>1. ASSUME NEW s \in Sessions,
               \/ RequestReservation(s) \/ RequestSubscription(s) \/ RequestPayment(s)
               \/ ReadRow(s) \/ LockRow(s) \/ ReadFees(s) \/ Rollback(s)
        PROVE  FALSE
    BY <1>1, <2>1, NewRequest, NextStatement DEF Rollback
  <2> QED
    BY <1>1, <2>1 DEF Next, vars, CreateReservation, UpdateReservation, ChangeReservationStatus,
         UpdateSubscription, ChangeSubscriptionStatus, Resubmit
<1> DEFINE r == req[s]
<1>3. r \in Requests /\ FeeOK(r)  BY Requested DEF RequestOK
<1>4. payment \in [Payments -> PaymentRows]  BY Tables
<1>5. ~CreateSubscription(s)
  <2> SUFFICES ASSUME CreateSubscription(s) PROVE FALSE  OBVIOUS
  <2> DEFINE given(q) == [payment[q] EXCEPT !.allocated = payment[q].allocated + r.plan[q]]
  <2>1. payment' = [q \in Payments |-> given(q)]  BY DEF CreateSubscription
  <2>2. given(p).state = payment[p].state  BY <1>4 DEF PaymentRows
  <2> HIDE DEF given
  <2> QED  BY <2>1, <2>2
<1>6. r.op \in {"cancelPayment", "refund"} => payment[r.id].state # "none" /\ r.id \in Payments
  BY <1>3 DEF FeeOK
<1>7. ~CancelReservationPayment(s)
  BY <1>4, <1>6 DEF CancelReservationPayment, Commits, Runs
<1>8. ~RefundReservationPayment(s)
  BY <1>4, <1>6 DEF RefundReservationPayment, Commits, Runs
<1>9. CreateReservationPayment(s)  BY <1>2, <1>5, <1>7, <1>8
<1>10. r.id = p  BY <1>4, <1>9 DEF CreateReservationPayment
<1> QED  BY <1>9, <1>10

LEMMA PaymentFits ==
  ASSUME IInv, PayFits, IInv', [Next]_vars, NEW p \in Payments,
         payment[p].state = "none", payment'[p].state # "none"
  PROVE  (FeePaid(payment[p].of) <= reservation[payment[p].of].fee)'
<1>1. PICK s \in Sessions : CreateReservationPayment(s) /\ req[s].id = p  BY NewPayment
<1> DEFINE r == req[s]
           f == r.from
           row == [state |-> "CONFIRMED", of |-> f, amount |-> r.amount, refunded |-> 0,
                   allocated |-> 0, kept |-> r.amount]
<1>2. /\ Paying(r) /\ r.amount <= r.row.fee /\ UNCHANGED reservation
      /\ payment' = [payment EXCEPT ![p] = row]
  BY <1>1 DEF CreateReservationPayment, Commits, Runs, Paying
<1>3. f \in Reservations /\ f # 0 /\ r.amount \in Nat \ {0} /\ r.row \in ReservationRows
  <2>1. f \in Reservations /\ f # 0 /\ r.amount \in Amounts /\ r.row \in ReservationRows
    BY <1>2, FeeHeld
  <2> HIDE DEF f, r, row
  <2> QED  BY <2>1, AmountsAssumption DEF Amounts
<1>4. r.row.fee <= AtLeast0(reservation[f].fee - PaidIn(payment, f))
  BY <1>2, RemainingIn DEF PayFits
<1>5. payment[p].of = 0  BY Tables DEF RowsOK
<1>6. payment \in [Payments -> PaymentRows] /\ payment' \in [Payments -> PaymentRows]
  BY DEF IInv, TypeOK
<1>7. row.of = f /\ row.state = "CONFIRMED" /\ row.amount = r.amount  OBVIOUS
<1> HIDE DEF row, f, r
<1>8. \A q \in Payments : payment'[q] = IF q = p THEN row ELSE payment[q]  BY <1>2, <1>6
<1>9. p \notin CountedIn(payment, f)  BY <1>3, <1>5 DEF CountedIn
<1>10. CountedIn(payment', f) = CountedIn(payment, f) \cup {p}
  BY <1>3, <1>5, <1>7, <1>8 DEF CountedIn
<1>11. \A q \in CountedIn(payment, f) : payment'[q].amount = payment[q].amount
  BY <1>8, <1>9 DEF CountedIn
<1>12. PaidIn(payment', f) = r.amount + PaidIn(payment, f)
  <2>1. payment'[p].amount = r.amount  BY <1>7, <1>8
  <2> QED  BY <1>6, <1>9, <1>10, <1>11, <2>1, PaidWithOne
<1>13. reservation[f].fee \in Nat /\ r.row.fee \in Nat /\ PaidIn(payment, f) \in Nat
  BY <1>3, <1>6, Tables, PaidInTable, AmountsAssumption DEF ReservationRows
<1>14. PaidIn(payment', f) <= reservation[f].fee
  BY <1>2, <1>3, <1>4, <1>12, <1>13 DEF AtLeast0
<1>15. payment'[p].of = f  BY <1>7, <1>8
<1>16. \A x : FeePaid(x)' = PaidIn(payment', x)
  BY DEF FeePaid, Total, PaymentsOf, PaidIn, CountedIn, AmountIn
<1> QED  BY <1>2, <1>14, <1>15, <1>16

(* Payments of a fee made at once never exceed it: what remains is read     *)
(* after lockReservation, and whoever else pays or edits waits for that.    *)
(* Where payments are both cancelled and refunded, a refund that read       *)
(* before the cancellation makes the payment count again.                   *)
THEOREM FeeNeverExceeded ==
  ASSUME ~({"cancelPayment", "refund"} \subseteq Endpoints)
  PROVE  Spec => FeePaidWithinFee
<1>1. Init => IInv /\ PayFits
  <2>1. ASSUME Init PROVE \A s \in Sessions : ~Paying(req[s])
    <3>1. Idle.op = "none"  BY DEF Idle
    <3> QED  BY <2>1, <3>1 DEF Init, Paying
  <2> QED  BY <2>1, Initial DEF PayFits
<1>2. IInv /\ PayFits /\ [Next]_vars => IInv' /\ PayFits'  BY NextKeeps, PayFitsKeeps
<1>3. IInv /\ PayFits /\ [Next]_vars =>
        [\A p \in Payments :
           (payment[p].state = "none" /\ payment'[p].state # "none")
             => (FeePaid(payment[p].of) <= reservation[payment[p].of].fee)']_vars
  BY NextKeeps, PaymentFits
<1> QED  BY <1>1, <1>2, <1>3, PTL DEF Spec, FeePaidWithinFee

-----------------------------------------------------------------------------
(* A lot goes to one buyer.                                                 *)

(* What changeReservationStatus and changeSubscriptionStatus decide on, and *)
(* a reservation that becomes a subscription, is not locked when it is read:*)
(* nobody else is at work meanwhile, or edits that reservation.             *)
Orderly ==
  \A s, t \in Sessions : s # t =>
    /\ req[s].op \in {"reservationStatus", "subscriptionStatus"} => req[t].op = "none"
    /\ ~(req[s].op = "editReservation" /\ req[t].op = "subscribe" /\ req[s].id = req[t].from)

OneAt(l) ==
  /\ \A i, j \in ActiveReservations(l) : i = j
  /\ \A u, v \in ActiveSubscriptions(l) : u = v
  /\ ActiveReservations(l) = {} \/ ActiveSubscriptions(l) = {}

(* The lot of a subscription that will be inserted is kept for it.          *)
Inserts(r) == r.op = "subscribe" /\ r.stage = 3
KeptFor(r) == ActiveReservations(r.lot) \ {r.from} = {} /\ ActiveSubscriptions(r.lot) = {}

(* What was read is still so.                                               *)
ReadOK(r) ==
  /\ (r.op = "subscribe" /\ r.stage >= 1 /\ r.from # 0 /\ r.row.state = "CONVERTED")
       => reservation[r.from].state = "CONVERTED"
  /\ (r.op = "reservationStatus" /\ r.stage >= 1) => r.row = reservation[r.id]
  /\ (r.op = "subscriptionStatus" /\ r.stage >= 1) => r.row = subscription[r.id]

BuyerInv ==
  /\ \A l \in Lots : OneAt(l)
  /\ \A s \in Sessions : (Inserts(req[s]) => KeptFor(req[s])) /\ ReadOK(req[s])

(* Two sessions do not take the same lot.                                   *)
LEMMA OneTaker ==
  ASSUME IInv, NEW s \in Sessions, NEW t \in Sessions, s # t, TakesLot(req[s]), TakesLot(req[t])
  PROVE  req[s].lot # req[t].lot
<1>1. <<"lot", req[s].lot>> \in req[s].held /\ <<"lot", req[t].lot>> \in req[t].held
  BY Requested DEF RequestOK, LotOK
<1>2. req[s].held \cap req[t].held = {}  BY DEF IInv, Exclusion
<1> QED  BY <1>1, <1>2

(* What was read, when it was read.                                         *)
LEMMA RowIsRead ==
  ASSUME IInv, NEW s \in Sessions, ReadRow(s)
  PROVE  /\ req[s].op = "reservationStatus" => req'[s].row = reservation[req[s].id]
         /\ req[s].op = "subscriptionStatus" => req'[s].row = subscription[req[s].id]
         /\ (req[s].op = "subscribe" /\ req[s].from # 0) => req'[s].row = reservation[req[s].from]
<1> DEFINE r == req[s]
<1>0. DOMAIN r = {"op", "stage", "id", "from", "lot", "to", "amount", "row", "plan", "held"}
  BY Requested DEF Requests
<1>1. ASSUME NEW row, Advance(s, WithRow(r, row)) PROVE req'[s].row = row
  <2> DEFINE n == WithRow(r, row)
  <2>1. DOMAIN n = DOMAIN r /\ n.row = row  BY <1>0 DEF WithRow
  <2>2. Advance(s, n)  BY <1>1
  <2> HIDE DEF n
  <2> QED  BY <2>1, <2>2, Advances
<1>2. CASE r.op = "reservationStatus"
  <2>1. Advance(s, WithRow(r, reservation[r.id]))  BY <1>2 DEF ReadRow, Runs, WithRow
  <2> QED  BY <1>1, <1>2, <2>1
<1>3. CASE r.op = "subscriptionStatus"
  <2>1. Advance(s, WithRow(r, subscription[r.id]))  BY <1>3 DEF ReadRow, Runs, WithRow
  <2> QED  BY <1>1, <1>3, <2>1
<1>4. CASE r.op = "subscribe" /\ r.from # 0
  <2> DEFINE n == WithLot(r, reservation[r.from], reservation[r.from].lot)
  <2>1. Advance(s, n)  BY <1>4 DEF ReadRow, Runs, WithLot
  <2>2. DOMAIN n = DOMAIN r /\ n.row = reservation[r.from]  BY <1>0 DEF WithLot
  <2> HIDE DEF n
  <2> QED  BY <1>4, <2>1, <2>2, Advances
<1> QED  BY <1>2, <1>3, <1>4

(* Steps that change one request.                                           *)
LEMMA RequestKeepsBuyer ==
  ASSUME IInv, BuyerInv, NEW s \in Sessions,
         UNCHANGED <<reservation, subscription>>,
         \A t \in Sessions \ {s} : req'[t] = req[t],
         Inserts(req'[s]) => KeptFor(req'[s]), ReadOK(req'[s])
  PROVE  BuyerInv'
<1>1. ASSUME NEW l \in Lots PROVE OneAt(l)'
  BY DEF BuyerInv, OneAt, ActiveReservations, ActiveSubscriptions
<1>2. ASSUME NEW t \in Sessions PROVE (Inserts(req[t]) => KeptFor(req[t]))' /\ ReadOK(req[t])'
  <2>1. (Inserts(req'[t]) => KeptFor(req'[t])) /\ ReadOK(req'[t])  BY DEF BuyerInv
  <2>2. (Inserts(req[t]) => KeptFor(req[t]))'
    BY <2>1 DEF Inserts, KeptFor, ActiveReservations, ActiveSubscriptions
  <2>3. ReadOK(req[t])'  BY <2>1 DEF ReadOK
  <2> QED  BY <2>2, <2>3
<1> QED  BY <1>1, <1>2 DEF BuyerInv

LEMMA RequestsKeepBuyer ==
  ASSUME IInv, BuyerInv, NEW s \in Sessions,
         \/ RequestReservation(s) \/ RequestSubscription(s) \/ RequestPayment(s)
         \/ ReadRow(s) \/ LockRow(s) \/ ReadFees(s) \/ Rollback(s)
  PROVE  BuyerInv'
<1>1. CASE RequestReservation(s) \/ RequestSubscription(s) \/ RequestPayment(s)
  <2>1. /\ req'[s].stage = 0 /\ UNCHANGED <<reservation, subscription>>
        /\ \A t \in Sessions \ {s} : req'[t] = req[t]
    BY <1>1, NewRequest
  <2>2. ~Inserts(req'[s]) /\ ReadOK(req'[s])  BY <2>1 DEF Inserts, ReadOK
  <2> QED  BY <2>1, <2>2, RequestKeepsBuyer
<1>2. CASE Rollback(s)
  <2>1. /\ req'[s].op = "none" /\ UNCHANGED <<reservation, subscription>>
        /\ \A t \in Sessions \ {s} : req'[t] = req[t]
    BY <1>2 DEF Rollback, Idle, IInv, TypeOK
  <2>2. ~Inserts(req'[s]) /\ ReadOK(req'[s])  BY <2>1 DEF Inserts, ReadOK
  <2> QED  BY <2>1, <2>2, RequestKeepsBuyer
<1>3. CASE ReadRow(s) \/ LockRow(s) \/ ReadFees(s)
  <2> DEFINE r == req[s]
             m == req'[s]
  <2>1. /\ m.op = r.op /\ m.stage = r.stage + 1 /\ m.from = r.from /\ m.id = r.id
        /\ UNCHANGED <<reservation, subscription>>
        /\ \A t \in Sessions \ {s} : req'[t] = req[t]
        /\ LockRow(s) \/ ReadFees(s) => m.row = r.row /\ m.lot = r.lot
    BY <1>3, NextStatement
  <2>2. r.stage \in 0..3 /\ ReadOK(r)  BY Requested, Fields DEF BuyerInv
  <2>3. Inserts(m) => KeptFor(m)
    <3>1. ASSUME Inserts(m) PROVE ReadFees(s)
      BY <1>3, <2>1, <2>2, <3>1 DEF Inserts, ReadRow, LockRow, Runs
    <3>2. ASSUME ReadFees(s) PROVE KeptFor(r)
      <4>1. Unreserved(r.lot, r.from, 0)  BY <3>2 DEF ReadFees
      <4>2. 0 \notin ActiveSubscriptions(r.lot)  BY IdsAssumption DEF ActiveSubscriptions
      <4> HIDE DEF r
      <4> QED  BY <4>1, <4>2 DEF Unreserved, KeptFor
    <3>3. ReadFees(s) => KeptFor(m)  BY <2>1, <3>2 DEF KeptFor
    <3> QED  BY <3>1, <3>3
  <2>4. ReadOK(m)
    <3>1. CASE ReadRow(s)
      BY <2>1, <3>1, RowIsRead DEF ReadOK
    <3>2. CASE LockRow(s) \/ ReadFees(s)
      <4>1. r.stage >= 1 \/ r.op \in {"reserve", "pay"}  BY <3>2 DEF LockRow, ReadFees, Runs
      <4> QED  BY <2>1, <2>2, <3>2, <4>1 DEF ReadOK
    <3> QED  BY <1>3, <3>1, <3>2
  <2> HIDE DEF m
  <2> QED  BY <2>1, <2>3, <2>4, RequestKeepsBuyer DEF m
<1> QED  BY <1>1, <1>2, <1>3

(* Steps that commit: but for the lot that they have locked, nobody holds   *)
(* what they did not hold.                                                  *)
LEMMA CommitKeepsBuyer ==
  ASSUME IInv, BuyerInv, Orderly, NEW s \in Sessions, NEW K,
         req' = [req EXCEPT ![s] = Idle], req[s].op # "none",
         \A l \in Lots \ K : /\ ActiveReservations(l)' \subseteq ActiveReservations(l)
                              /\ ActiveSubscriptions(l)' \subseteq ActiveSubscriptions(l),
         \A l \in K : OneAt(l)' /\ TakesLot(req[s]) /\ req[s].lot = l,
         \A t \in Sessions \ {s} :
           (req[t].op = "subscribe" /\ req[t].from # 0
              /\ reservation[req[t].from].state = "CONVERTED")
             => reservation'[req[t].from].state = "CONVERTED"
  PROVE  BuyerInv'
<1>1. ASSUME NEW l \in Lots PROVE OneAt(l)'
  <2>1. CASE l \in K  BY <2>1
  <2>2. CASE l \notin K
    <3>1. /\ ActiveReservations(l)' \subseteq ActiveReservations(l)
          /\ ActiveSubscriptions(l)' \subseteq ActiveSubscriptions(l) /\ OneAt(l)
      BY <2>2 DEF BuyerInv
    <3>2. /\ \A i, j \in ActiveReservations(l)' : i = j
          /\ \A u, v \in ActiveSubscriptions(l)' : u = v
          /\ ActiveReservations(l)' = {} \/ ActiveSubscriptions(l)' = {}
      BY Zenon, <3>1 DEF OneAt
    <3> QED  BY <3>2 DEF OneAt
  <2> QED  BY <2>1, <2>2
<1>2. ASSUME NEW t \in Sessions \ {s}
      PROVE  req'[t] = req[t] /\ (Inserts(req[t]) => KeptFor(req[t])) /\ ReadOK(req[t])
             /\ req[t].op \notin {"reservationStatus", "subscriptionStatus"}
  BY DEF BuyerInv, Orderly, IInv, TypeOK
<1>3. ASSUME NEW t \in Sessions PROVE (Inserts(req[t]) => KeptFor(req[t]))' /\ ReadOK(req[t])'
  <2>1. CASE t = s
    <3>1. req'[t].op = "none"  BY <2>1 DEF Idle, IInv, TypeOK
    <3> QED  BY <3>1 DEF Inserts, ReadOK
  <2>2. CASE t # s
    <3>1. t \in Sessions \ {s} /\ req'[t] = req[t]  BY <1>2, <2>2
    <3>2. ASSUME Inserts(req[t]) PROVE KeptFor(req[t])'
      <4> DEFINE l == req[t].lot
      <4>1. l \in Lots
        <5>1. SubscriptionOK(req[t])  BY Requested DEF RequestOK
        <5> QED  BY <3>2, <5>1 DEF Inserts, SubscriptionOK
      <4>2. TakesLot(req[t])  BY <3>2 DEF Inserts, TakesLot
      <4>3. l \notin K  BY <4>1, <4>2, <2>2, OneTaker
      <4>4. ActiveReservations(req[t].lot) \ {req[t].from} = {} /\ ActiveSubscriptions(req[t].lot) = {}
        BY <1>2, <3>1, <3>2 DEF KeptFor
      <4>5. \A n \in Lots \ K : /\ ActiveReservations(n)' \subseteq ActiveReservations(n)
                                 /\ ActiveSubscriptions(n)' \subseteq ActiveSubscriptions(n)
        OBVIOUS
      <4>6. \A n : /\ ActiveReservations(n)' = {i \in Reservations : reservation'[i].lot = n
                                               /\ reservation'[i].state \in {"ACTIVE", "CONFIRMED"}}
                   /\ ActiveSubscriptions(n)' = {u \in Subscriptions : subscription'[u].lot = n
                          /\ subscription'[u].state \in {"DRAFT", "SUBMITTED", "APPROVED"}}
        BY DEF ActiveReservations, ActiveSubscriptions
      <4> DEFINE AR(n) == {i \in Reservations : reservation'[i].lot = n
                             /\ reservation'[i].state \in {"ACTIVE", "CONFIRMED"}}
                 AS(n) == {u \in Subscriptions : subscription'[u].lot = n
                             /\ subscription'[u].state \in {"DRAFT", "SUBMITTED", "APPROVED"}}
      <4>7. AR(l) \subseteq ActiveReservations(l) /\ AS(l) \subseteq ActiveSubscriptions(l)
        BY <4>1, <4>3, <4>5, <4>6
      <4>8. KeptFor(req[t])' <=> AR(req'[t].lot) \ {req'[t].from} = {} /\ AS(req'[t].lot) = {}
        BY DEF KeptFor, ActiveReservations, ActiveSubscriptions
      <4> HIDE DEF AR, AS
      <4>9. AR(l) \ {req[t].from} = {} /\ AS(l) = {}  BY <4>4, <4>7
      <4> QED  BY <3>1, <4>8, <4>9
    <3>3. (Inserts(req[t]) => KeptFor(req[t]))'  BY <3>1, <3>2 DEF Inserts
    <3>4. ReadOK(req[t])'  BY <1>2, <3>1 DEF ReadOK
    <3> QED  BY <3>3, <3>4
  <2> QED  BY <2>1, <2>2
<1> QED  BY <1>1, <1>3 DEF BuyerInv

(* Who holds a lot, by the rows of a table.                                 *)
HoldsRes(rows, l) == {i \in Reservations : rows[i].lot = l /\ rows[i].state \in {"ACTIVE", "CONFIRMED"}}
HoldsSub(rows, l) ==
  {u \in Subscriptions : rows[u].lot = l /\ rows[u].state \in {"DRAFT", "SUBMITTED", "APPROVED"}}

LEMMA Holding ==
  \A l : /\ ActiveReservations(l) = HoldsRes(reservation, l)
         /\ ActiveSubscriptions(l) = HoldsSub(subscription, l)
         /\ ActiveReservations(l)' = HoldsRes(reservation', l)
         /\ ActiveSubscriptions(l)' = HoldsSub(subscription', l)
BY DEF ActiveReservations, ActiveSubscriptions, HoldsRes, HoldsSub

LEMMA OneAtNext ==
  ASSUME NEW l, \A i, j \in HoldsRes(reservation', l) : i = j,
         \A u, v \in HoldsSub(subscription', l) : u = v,
         HoldsRes(reservation', l) = {} \/ HoldsSub(subscription', l) = {}
  PROVE  OneAt(l)'
BY DEF OneAt, ActiveReservations, ActiveSubscriptions, HoldsRes, HoldsSub

(* A reservation is written, of a lot that nobody else holds.               *)
LEMMA ReservationTakes ==
  ASSUME IInv, BuyerInv, Orderly, NEW s \in Sessions, NEW i \in Reservations, NEW row,
         req' = [req EXCEPT ![s] = Idle], TakesLot(req[s]), req[s].lot \in Lots,
         row.lot = req[s].lot, reservation' = [reservation EXCEPT ![i] = row],
         UNCHANGED subscription, Unreserved(row.lot, i, 0),
         \A t \in Sessions \ {s} :
           (req[t].op = "subscribe" /\ reservation[i].state = "CONVERTED") => req[t].from # i
  PROVE  BuyerInv'
<1>0. PICK k \in Lots : k = req[s].lot  OBVIOUS
<1> DEFINE K == {k}
<1>1. \A j \in Reservations : reservation'[j] = IF j = i THEN row ELSE reservation[j]
  BY Tables
<1>2. \A l : HoldsSub(subscription', l) = HoldsSub(subscription, l)  OBVIOUS
<1>3. \A l \in Lots \ K : HoldsRes(reservation', l) \subseteq HoldsRes(reservation, l)
  BY <1>0, <1>1 DEF HoldsRes
<1>4. HoldsRes(reservation, k) \subseteq {i} /\ HoldsSub(subscription, k) = {}
  <2>1. HoldsRes(reservation, k) \ {i} = {} /\ HoldsSub(subscription, k) \ {0} = {}
    BY <1>0, Holding DEF Unreserved
  <2>2. 0 \notin HoldsSub(subscription, k)  BY IdsAssumption DEF HoldsSub
  <2> QED  BY <2>1, <2>2
<1>5. HoldsRes(reservation', k) \subseteq {i}  BY <1>0, <1>1, <1>4 DEF HoldsRes
<1>6. OneAt(k)'
  <2> QED  BY <1>2, <1>4, <1>5, OneAtNext
<1>7. \A l \in Lots \ K : /\ ActiveReservations(l)' \subseteq ActiveReservations(l)
                          /\ ActiveSubscriptions(l)' \subseteq ActiveSubscriptions(l)
  BY <1>2, <1>3, Holding
<1>8. req[s].op # "none"  BY DEF TakesLot
<1>9. \A l \in K : OneAt(l)' /\ TakesLot(req[s]) /\ req[s].lot = l  BY <1>0, <1>6
<1>10. \A t \in Sessions \ {s} :
         (req[t].op = "subscribe" /\ req[t].from # 0
            /\ reservation[req[t].from].state = "CONVERTED")
           => reservation'[req[t].from].state = "CONVERTED"
  <2> SUFFICES ASSUME NEW t \in Sessions \ {s}, req[t].op = "subscribe", req[t].from # 0,
                      reservation[req[t].from].state = "CONVERTED"
               PROVE  reservation'[req[t].from].state = "CONVERTED"
    OBVIOUS
  <2>1. req[t].from \in Reservations
    <3>1. SubscriptionOK(req[t])  BY Requested DEF RequestOK
    <3> QED  BY <3>1 DEF SubscriptionOK
  <2>2. req[t].from # i  OBVIOUS
  <2> QED  BY <1>1, <2>1, <2>2
<1> HIDE DEF K
<1> QED  BY <1>7, <1>8, <1>9, <1>10, CommitKeepsBuyer

(* A subscription is written, of a lot that nobody else holds.              *)
LEMMA SubscriptionTakes ==
  ASSUME IInv, BuyerInv, Orderly, NEW s \in Sessions, NEW u \in Subscriptions, NEW row,
         req' = [req EXCEPT ![s] = Idle], TakesLot(req[s]), req[s].lot \in Lots,
         row.lot = req[s].lot, subscription' = [subscription EXCEPT ![u] = row],
         HoldsSub(subscription, row.lot) \subseteq {u}, HoldsRes(reservation', row.lot) = {},
         \A l \in Lots : HoldsRes(reservation', l) \subseteq HoldsRes(reservation, l),
         \A j \in Reservations :
           reservation[j].state = "CONVERTED" => reservation'[j].state = "CONVERTED"
  PROVE  BuyerInv'
<1>0. PICK k \in Lots : k = req[s].lot  OBVIOUS
<1> DEFINE K == {k}
<1>1. \A v \in Subscriptions : subscription'[v] = IF v = u THEN row ELSE subscription[v]
  BY Tables
<1>2. \A l \in Lots \ K : HoldsSub(subscription', l) \subseteq HoldsSub(subscription, l)
  BY <1>0, <1>1 DEF HoldsSub
<1>3. HoldsSub(subscription', k) \subseteq {u}  BY <1>0, <1>1 DEF HoldsSub
<1>4. OneAt(k)'
  <2>1. HoldsRes(reservation', k) = {}  BY <1>0
  <2> QED  BY <1>3, <2>1, OneAtNext
<1>5. \A l \in Lots \ K : /\ ActiveReservations(l)' \subseteq ActiveReservations(l)
                          /\ ActiveSubscriptions(l)' \subseteq ActiveSubscriptions(l)
  BY <1>2, Holding
<1>6. req[s].op # "none"  BY DEF TakesLot
<1>7. \A l \in K : OneAt(l)' /\ TakesLot(req[s]) /\ req[s].lot = l  BY <1>0, <1>4
<1>8. \A t \in Sessions \ {s} :
        (req[t].op = "subscribe" /\ req[t].from # 0
           /\ reservation[req[t].from].state = "CONVERTED")
          => reservation'[req[t].from].state = "CONVERTED"
  <2> SUFFICES ASSUME NEW t \in Sessions \ {s}, req[t].op = "subscribe", req[t].from # 0,
                      reservation[req[t].from].state = "CONVERTED"
               PROVE  reservation'[req[t].from].state = "CONVERTED"
    OBVIOUS
  <2>1. req[t].from \in Reservations
    <3>1. SubscriptionOK(req[t])  BY Requested DEF RequestOK
    <3> QED  BY <3>1 DEF SubscriptionOK
  <2> QED  BY <2>1
<1> HIDE DEF K
<1> QED  BY <1>5, <1>6, <1>7, <1>8, CommitKeepsBuyer

(* Nobody holds what they did not hold.                                     *)
LEMMA NothingTaken ==
  ASSUME IInv, BuyerInv, Orderly, NEW s \in Sessions,
         req' = [req EXCEPT ![s] = Idle], req[s].op # "none",
         \A l \in Lots : /\ HoldsRes(reservation', l) \subseteq HoldsRes(reservation, l)
                         /\ HoldsSub(subscription', l) \subseteq HoldsSub(subscription, l),
         \A t \in Sessions \ {s} : req[t].op = "subscribe" => reservation' = reservation
  PROVE  BuyerInv'
<1> DEFINE K == {}
<1>1. \A l \in Lots \ K : /\ ActiveReservations(l)' \subseteq ActiveReservations(l)
                          /\ ActiveSubscriptions(l)' \subseteq ActiveSubscriptions(l)
  BY Holding
<1>2. \A l \in K : OneAt(l)' /\ TakesLot(req[s]) /\ req[s].lot = l  OBVIOUS
<1>3. \A t \in Sessions \ {s} :
        (req[t].op = "subscribe" /\ req[t].from # 0
           /\ reservation[req[t].from].state = "CONVERTED")
          => reservation'[req[t].from].state = "CONVERTED"
  OBVIOUS
<1> HIDE DEF K
<1> QED  BY <1>1, <1>2, <1>3, CommitKeepsBuyer

LEMMA ReservationKeepsBuyer ==
  ASSUME IInv, BuyerInv, Orderly, NEW s \in Sessions, CreateReservation(s) \/ UpdateReservation(s)
  PROVE  BuyerInv'
<1> DEFINE r == req[s]
<1>0. r \in Requests /\ ReservationOK(r)  BY Requested DEF RequestOK
<1>1. CASE CreateReservation(s)
  <2> DEFINE row == [state |-> r.to, lot |-> r.lot, fee |-> r.amount]
  <2>1. /\ r.op = "reserve" /\ r.stage = 1 /\ reservation[r.id].state = "none"
        /\ Unreserved(r.lot, 0, 0) /\ req' = [req EXCEPT ![s] = Idle]
        /\ reservation' = [reservation EXCEPT ![r.id] = row] /\ UNCHANGED subscription
    BY <1>1 DEF CreateReservation, Commits, Runs
  <2>2. r.id \in Reservations /\ r.lot \in Lots /\ TakesLot(r)
    <3> HIDE DEF r
    <3> QED  BY <1>0, <2>1 DEF ReservationOK, TakesLot
  <2>3. Unreserved(r.lot, r.id, 0)
    <3>1. 0 \notin ActiveReservations(r.lot)  BY IdsAssumption DEF ActiveReservations
    <3> QED  BY <2>1, <3>1 DEF Unreserved
  <2>4. row.lot = r.lot  OBVIOUS
  <2>5. \A t \in Sessions \ {s} :
          (req[t].op = "subscribe" /\ reservation[r.id].state = "CONVERTED") => req[t].from # r.id
    BY <2>1
  <2> HIDE DEF row
  <2>6. Unreserved(row.lot, r.id, 0)  BY <2>3, <2>4
  <2>7. /\ req' = [req EXCEPT ![s] = Idle] /\ UNCHANGED subscription
        /\ reservation' = [reservation EXCEPT ![r.id] = row]
    BY <2>1
  <2> QED  BY <2>2, <2>4, <2>5, <2>6, <2>7, ReservationTakes
<1>2. CASE UpdateReservation(s)
  <2> DEFINE row == [state |-> IF r.to = NotGiven THEN reservation[r.id].state ELSE r.to,
                     lot |-> r.lot, fee |-> r.amount]
  <2>1. /\ r.op = "editReservation" /\ r.stage = 2 /\ Unreserved(r.lot, r.id, 0)
        /\ req' = [req EXCEPT ![s] = Idle]
        /\ reservation' = [reservation EXCEPT ![r.id] = row] /\ UNCHANGED subscription
    BY <1>2 DEF UpdateReservation, Commits, Runs
  <2>2. r.id \in Reservations /\ r.lot \in Lots /\ TakesLot(r)
    <3> HIDE DEF r
    <3> QED  BY <1>0, <2>1 DEF ReservationOK, TakesLot
  <2>3. \A t \in Sessions \ {s} : req[t].op = "subscribe" => req[t].from # r.id
    BY <2>1 DEF Orderly
  <2>4. row.lot = r.lot  OBVIOUS
  <2> HIDE DEF row
  <2>5. Unreserved(row.lot, r.id, 0)  BY <2>1, <2>4
  <2>6. \A t \in Sessions \ {s} :
          (req[t].op = "subscribe" /\ reservation[r.id].state = "CONVERTED") => req[t].from # r.id
    BY <2>3
  <2> QED  BY <2>1, <2>2, <2>4, <2>5, <2>6, ReservationTakes
<1> QED  BY <1>1, <1>2

LEMMA SubscriptionKeepsBuyer ==
  ASSUME IInv, BuyerInv, Orderly, NEW s \in Sessions, CreateSubscription(s) \/ UpdateSubscription(s)
  PROVE  BuyerInv'
<1> DEFINE r == req[s]
<1>0. r \in Requests /\ SubscriptionOK(r)  BY Requested DEF RequestOK
<1>1. CASE CreateSubscription(s)
  <2> DEFINE row == [state |-> r.to, lot |-> r.lot, from |-> r.from]
             converted == [reservation[r.from] EXCEPT !.state = "CONVERTED"]
  <2>1. /\ Inserts(r) /\ req' = [req EXCEPT ![s] = Idle]
        /\ subscription' = [subscription EXCEPT ![r.id] = row]
        /\ reservation' = IF r.from = 0 \/ r.row.state = "CONVERTED" THEN reservation
                          ELSE [reservation EXCEPT ![r.from] = converted]
    BY <1>1 DEF CreateSubscription, Commits, Runs, Inserts
  <2>2. /\ r.id \in Subscriptions /\ r.lot \in Lots /\ TakesLot(r)
        /\ r.from # 0 => r.from \in Reservations
    <3> HIDE DEF r
    <3> QED  BY <1>0, <2>1 DEF SubscriptionOK, TakesLot, Inserts
  <2>3. HoldsRes(reservation, r.lot) \subseteq {r.from} /\ HoldsSub(subscription, r.lot) = {}
    BY <2>1, Holding DEF BuyerInv, KeptFor
  <2>4. (r.from # 0 /\ r.row.state = "CONVERTED") => reservation[r.from].state = "CONVERTED"
    <3>1. ReadOK(r)  BY DEF BuyerInv
    <3> QED  BY <2>1, <3>1 DEF ReadOK, Inserts
  <2>5. r.from # 0 => converted.state = "CONVERTED"
    BY <2>2, Tables DEF ReservationRows
  <2>6. row.lot = r.lot  OBVIOUS
  <2> HIDE DEF row, converted, r
  <2>7. \A j \in Reservations :
          \/ reservation'[j] = reservation[j] /\ (j = r.from => reservation[j].state = "CONVERTED")
          \/ j = r.from /\ reservation'[j].state = "CONVERTED"
    <3>1. CASE r.from = 0
      <4>1. 0 \notin Reservations  BY IdsAssumption
      <4> QED  BY <2>1, <3>1, <4>1
    <3>2. CASE r.from # 0 /\ r.row.state = "CONVERTED"  BY <2>1, <2>4, <3>2
    <3>3. CASE r.from # 0 /\ r.row.state # "CONVERTED"
      BY <2>1, <2>2, <2>5, <3>3, Tables
    <3> QED  BY <3>1, <3>2, <3>3
  <2>8. HoldsRes(reservation', r.lot) = {}
    BY <2>3, <2>7 DEF HoldsRes
  <2>9. \A l \in Lots : HoldsRes(reservation', l) \subseteq HoldsRes(reservation, l)
    BY <2>7 DEF HoldsRes
  <2>10. \A j \in Reservations :
           reservation[j].state = "CONVERTED" => reservation'[j].state = "CONVERTED"
    BY <2>7
  <2>11. HoldsSub(subscription, row.lot) \subseteq {r.id} /\ HoldsRes(reservation', row.lot) = {}
    BY <2>3, <2>6, <2>8
  <2> QED  BY <2>1, <2>2, <2>6, <2>9, <2>10, <2>11, SubscriptionTakes DEF r
<1>2. CASE UpdateSubscription(s)
  <2> DEFINE state == IF r.to = NotGiven THEN subscription[r.id].state ELSE r.to
             row == [subscription[r.id] EXCEPT !.state = state, !.lot = r.lot]
  <2>1. /\ r.op = "editSubscription" /\ r.stage = 2 /\ Unreserved(r.lot, 0, r.id)
        /\ req' = [req EXCEPT ![s] = Idle] /\ UNCHANGED reservation
        /\ subscription' = [subscription EXCEPT ![r.id] = row]
    BY <1>2 DEF UpdateSubscription, Commits, Runs
  <2>2. r.id \in Subscriptions /\ r.lot \in Lots /\ TakesLot(r)
    <3> HIDE DEF r
    <3> QED  BY <1>0, <2>1 DEF SubscriptionOK, TakesLot
  <2>3. row.lot = r.lot  BY <2>2, Tables DEF SubscriptionRows
  <2> HIDE DEF row, r
  <2>4. HoldsSub(subscription, r.lot) \subseteq {r.id} /\ HoldsRes(reservation, r.lot) = {}
    <3>1. 0 \notin HoldsRes(reservation, r.lot)  BY IdsAssumption DEF HoldsRes
    <3> QED  BY <2>1, <3>1, Holding DEF Unreserved
  <2>5. HoldsSub(subscription, row.lot) \subseteq {r.id} /\ HoldsRes(reservation', row.lot) = {}
    BY <2>1, <2>3, <2>4
  <2> QED  BY <2>1, <2>2, <2>3, <2>5, SubscriptionTakes DEF r
<1> QED  BY <1>1, <1>2

LEMMA StatusKeepsBuyer ==
  ASSUME IInv, BuyerInv, Orderly, NEW s \in Sessions,
         ChangeReservationStatus(s) \/ ChangeSubscriptionStatus(s)
  PROVE  BuyerInv'
<1> DEFINE r == req[s]
<1>0. r \in Requests /\ ReservationOK(r) /\ SubscriptionOK(r) /\ ReadOK(r)
  BY Requested DEF RequestOK, BuyerInv
<1>1. CASE ChangeReservationStatus(s)
  <2> DEFINE row == [reservation[r.id] EXCEPT !.state = r.to]
  <2>1. /\ r.op = "reservationStatus" /\ r.stage = 2 /\ MayBecome(r.row.state, r.to)
        /\ req' = [req EXCEPT ![s] = Idle] /\ UNCHANGED subscription
        /\ reservation' = [reservation EXCEPT ![r.id] = row]
    BY <1>1 DEF ChangeReservationStatus, Commits, Runs
  <2>2. \A t \in Sessions \ {s} : req[t].op = "none"  BY <2>1 DEF Orderly
  <2>6. r.op # "none"  BY <2>1
  <2> HIDE DEF r
  <2>3. r.id \in Reservations /\ r.row = reservation[r.id]
    BY <1>0, <2>1 DEF ReservationOK, ReadOK
  <2>4. row.state = r.to /\ row.lot = reservation[r.id].lot
    BY <2>3, Tables DEF ReservationRows
  <2> HIDE DEF row
  <2>5. \A l \in Lots : HoldsRes(reservation', l) \subseteq HoldsRes(reservation, l)
    <3>1. \A j \in Reservations : reservation'[j] = IF j = r.id THEN row ELSE reservation[j]
      BY <2>1, Tables
    <3>2. row.state \in {"ACTIVE", "CONFIRMED"} => reservation[r.id].state \in {"ACTIVE", "CONFIRMED"}
      BY <2>1, <2>3, <2>4 DEF MayBecome
    <3> QED  BY <2>4, <3>1, <3>2 DEF HoldsRes
  <2> QED  BY <2>1, <2>2, <2>5, <2>6, NothingTaken DEF r
<1>2. CASE ChangeSubscriptionStatus(s)
  <2> DEFINE row == [subscription[r.id] EXCEPT !.state = r.to]
  <2>1. /\ r.op = "subscriptionStatus" /\ r.stage = 2 /\ MayMove(r.row.state, r.to)
        /\ req' = [req EXCEPT ![s] = Idle] /\ UNCHANGED reservation
        /\ subscription' = [subscription EXCEPT ![r.id] = row]
    BY <1>2 DEF ChangeSubscriptionStatus, Commits, Runs
  <2>6. r.op # "none"  BY <2>1
  <2> HIDE DEF r
  <2>3. r.id \in Subscriptions /\ r.row = subscription[r.id]
    BY <1>0, <2>1 DEF SubscriptionOK, ReadOK
  <2>4. row.state = r.to /\ row.lot = subscription[r.id].lot
    BY <2>3, Tables DEF SubscriptionRows
  <2> HIDE DEF row
  <2>5. \A l \in Lots : HoldsSub(subscription', l) \subseteq HoldsSub(subscription, l)
    <3>1. \A j \in Subscriptions : subscription'[j] = IF j = r.id THEN row ELSE subscription[j]
      BY <2>1, Tables
    <3>2. row.state \in {"DRAFT", "SUBMITTED", "APPROVED"}
            => subscription[r.id].state \in {"DRAFT", "SUBMITTED", "APPROVED"}
      BY <2>1, <2>3, <2>4 DEF MayMove
    <3> QED  BY <2>4, <3>1, <3>2 DEF HoldsSub
  <2>7. \A l \in Lots : HoldsRes(reservation', l) \subseteq HoldsRes(reservation, l)  BY <2>1
  <2> QED  BY <2>1, <2>5, <2>6, <2>7, NothingTaken DEF r
<1> QED  BY <1>1, <1>2

LEMMA BuyerKept ==
  ASSUME IInv, BuyerInv, Orderly, "resubmit" \notin Endpoints, [Next]_vars
  PROVE  BuyerInv'
<1>1. CASE UNCHANGED vars
  <2>1. UNCHANGED <<reservation, subscription, req>>  BY <1>1 DEF vars
  <2>2. ASSUME NEW l \in Lots PROVE OneAt(l)'
    BY <2>1 DEF BuyerInv, OneAt, ActiveReservations, ActiveSubscriptions
  <2>3. ASSUME NEW t \in Sessions PROVE (Inserts(req[t]) => KeptFor(req[t]))' /\ ReadOK(req[t])'
    BY <2>1 DEF BuyerInv, Inserts, KeptFor, ReadOK, ActiveReservations, ActiveSubscriptions
  <2> QED  BY <2>2, <2>3 DEF BuyerInv
<1>2. ASSUME NEW s \in Sessions,
             CreateReservationPayment(s) \/ CancelReservationPayment(s) \/ RefundReservationPayment(s)
      PROVE  BuyerInv'
  <2>1. /\ req' = [req EXCEPT ![s] = Idle] /\ UNCHANGED <<reservation, subscription>>
        /\ req[s].op # "none"
    BY <1>2 DEF CreateReservationPayment, CancelReservationPayment, RefundReservationPayment,
                Commits, Runs
  <2>2. \A l \in Lots : /\ HoldsRes(reservation', l) \subseteq HoldsRes(reservation, l)
                        /\ HoldsSub(subscription', l) \subseteq HoldsSub(subscription, l)
    BY <2>1
  <2> QED  BY <2>1, <2>2, NothingTaken
<1>3. ASSUME NEW s \in Sessions, Resubmit(s) PROVE FALSE
  <2>1. req[s].op = "resubmit"  BY <1>3 DEF Resubmit, Commits, Runs
  <2>2. req[s].op \in Endpoints \cup {"none"}  BY Requested DEF RequestOK
  <2> QED  BY <2>1, <2>2
<1> QED
  BY <1>1, <1>2, <1>3, RequestsKeepBuyer, ReservationKeepsBuyer, SubscriptionKeepsBuyer,
     StatusKeepsBuyer
  DEF Next

LEMMA OneBuyer == ASSUME BuyerInv PROVE OneBuyerPerLot
<1> SUFFICES ASSUME NEW l \in Lots
             PROVE  Cardinality(ActiveReservations(l)) + Cardinality(ActiveSubscriptions(l)) <= 1
  BY DEF OneBuyerPerLot
<1>1. ASSUME NEW S, \A x, y \in S : x = y
      PROVE  Cardinality(S) \in {0, 1} /\ (S = {} => Cardinality(S) = 0)
  <2>1. CASE S = {}  BY <2>1, FS_EmptySet
  <2>2. CASE S # {}
    <3>1. PICK x : x \in S  BY <2>2
    <3>2. S = {x}  BY <1>1, <3>1
    <3> QED  BY <3>2, <2>2, FS_Singleton
  <2> QED  BY <2>1, <2>2
<1>2. OneAt(l)  BY DEF BuyerInv
<1> DEFINE a == Cardinality(ActiveReservations(l))
           b == Cardinality(ActiveSubscriptions(l))
<1>3. a \in {0, 1} /\ (ActiveReservations(l) = {} => a = 0)  BY <1>1, <1>2 DEF OneAt
<1>4. b \in {0, 1} /\ (ActiveSubscriptions(l) = {} => b = 0)  BY <1>1, <1>2 DEF OneAt
<1>5. a = 0 \/ b = 0  BY <1>2, <1>3, <1>4 DEF OneAt
<1> HIDE DEF a, b
<1>6. a + b <= 1  BY <1>3, <1>4, <1>5
<1> QED  BY <1>6 DEF a, b

(* A lot is promised to one buyer, whoever reserves, edits, subscribes and  *)
(* pays at once: the row of the lot is locked from before the check to      *)
(* COMMIT.  A change of status decides on what it read without a lock, and  *)
(* needs to be alone; a refused subscription that is submitted again looks  *)
(* at nothing.                                                              *)
THEOREM LotGoesToOneBuyer ==
  ASSUME "resubmit" \notin Endpoints
  PROVE  Spec /\ []Orderly => []OneBuyerPerLot
<1>1. Init => IInv /\ BuyerInv
  <2> SUFFICES ASSUME Init PROVE IInv /\ BuyerInv  OBVIOUS
  <2>1. \A s \in Sessions : req[s].op = "none"  BY DEF Init, Idle
  <2>2. \A s \in Sessions : ~Inserts(req[s]) /\ ReadOK(req[s])  BY <2>1 DEF Inserts, ReadOK
  <2>3. \A l \in Lots : ActiveReservations(l) = {} /\ ActiveSubscriptions(l) = {}
    BY DEF Init, ActiveReservations, ActiveSubscriptions
  <2> QED  BY <2>2, <2>3, Initial DEF BuyerInv, OneAt
<1>2. IInv /\ BuyerInv /\ Orderly /\ [Next]_vars => IInv' /\ BuyerInv'  BY NextKeeps, BuyerKept
<1>3. BuyerInv => OneBuyerPerLot  BY OneBuyer
<1> QED  BY <1>1, <1>2, <1>3, PTL DEF Spec

-----------------------------------------------------------------------------
(* The installments: SalesBilling, with its own requests.                   *)
CONSTANTS Scheduler, SubscriptionOf, DueDay, MaxAmount, LastDue, BillingEndpoints
VARIABLES contract, day, done, bReq

B == INSTANCE SalesBilling WITH
       subscription <- contract, req <- bReq, Endpoints <- BillingEndpoints

BillingRows ==
  /\ Installments \subseteq Nat \ {0} /\ IsFiniteSet(Receipts) /\ 0 \notin Receipts
  /\ Owed \in [Installments -> Nat] /\ DueDay \in [Installments -> Nat]
  /\ SubscriptionOf \in [Installments -> Subscriptions]
  /\ MaxAmount \in Nat /\ LastDue \in Nat /\ Scheduler \notin Sessions

OfPayments == {"pay", "cancelPayment", "refund"}
OfInvoices == {"issue", "cancelInvoice"} \cup OfPayments
BillReads == B!InvoiceRows \cup B!PaymentRows \cup {B!NotRead}

LEMMA BillFields ==
  ASSUME NEW n \in B!Requests
  PROVE  /\ n.op \in B!AllEndpoints \cup {"none"} /\ n.stage \in 0..3 /\ n.of \in Installments \cup {0}
         /\ n.id \in Receipts \cup {0} /\ n.amount \in 0..MaxAmount /\ n.row \in BillReads
         /\ n.sums \in Nat \X Nat /\ n.todo \in SUBSET Installments /\ n.made \in SUBSET Installments
         /\ n.today \in BOOLEAN /\ n.held \in SUBSET B!Locks
BY ZenonT(60) DEF B!Requests, BillReads

LEMMA BillRequestType ==
  ASSUME NEW op \in B!AllEndpoints \cup {"none"}, NEW stage \in 0..3, NEW i \in Installments \cup {0},
         NEW p \in Receipts \cup {0}, NEW amount \in 0..MaxAmount, NEW row \in BillReads,
         NEW sums \in Nat \X Nat, NEW todo \in SUBSET Installments, NEW made \in SUBSET Installments,
         NEW today \in BOOLEAN, NEW held \in SUBSET B!Locks
  PROVE  [op |-> op, stage |-> stage, of |-> i, id |-> p, amount |-> amount, row |-> row, sums |-> sums,
          todo |-> todo, made |-> made, today |-> today, held |-> held] \in B!Requests
BY ZenonT(60) DEF B!Requests, BillReads

(* A request of which some columns were written again.                      *)
LEMMA BillRebuilt ==
  ASSUME NEW r \in B!Requests, NEW m, m = [f \in DOMAIN r |-> m[f]],
         m.op \in B!AllEndpoints \cup {"none"}, m.stage \in 0..3, m.of \in Installments \cup {0},
         m.id \in Receipts \cup {0}, m.amount \in 0..MaxAmount, m.row \in BillReads,
         m.sums \in Nat \X Nat, m.todo \in SUBSET Installments, m.made \in SUBSET Installments,
         m.today \in BOOLEAN, m.held \in SUBSET B!Locks
  PROVE  m \in B!Requests
<1>1. DOMAIN r = {"op", "stage", "of", "id", "amount", "row", "sums", "todo", "made", "today", "held"}
  BY DEF B!Requests
<1>2. m = [op |-> m.op, stage |-> m.stage, of |-> m.of, id |-> m.id, amount |-> m.amount, row |-> m.row,
           sums |-> m.sums, todo |-> m.todo, made |-> m.made, today |-> m.today, held |-> m.held]
  BY <1>1
<1>3. [op |-> m.op, stage |-> m.stage, of |-> m.of, id |-> m.id, amount |-> m.amount, row |-> m.row,
       sums |-> m.sums, todo |-> m.todo, made |-> m.made, today |-> m.today, held |-> m.held]
        \in B!Requests
  BY ZenonT(60) DEF B!Requests, BillReads
<1> QED  BY <1>2, <1>3

LEMMA BillIdle ==
  ASSUME BillingRows
  PROVE  /\ B!Idle \in B!Requests /\ B!Idle.op = "none" /\ B!Idle.held = {} /\ B!Idle.made = {}
         /\ B!Idle.stage = 0 /\ B!Idle.todo = {}
<1>1. B!NotRead \in BillReads /\ 0 \in 0..MaxAmount /\ <<0, 0>> \in Nat \X Nat /\ 0 \in 0..3
  BY DEF BillReads, BillingRows
<1>2. B!Idle \in B!Requests  BY <1>1, BillRequestType DEF B!Idle
<1> QED  BY <1>2 DEF B!Idle

(* A request as it begins, as it goes on, and with what it has read.        *)
NewBill(op, i, p, a) == [B!Idle EXCEPT !.op = op, !.of = i, !.id = p, !.amount = a]
GoneOn(n, held) == [n EXCEPT !.stage = n.stage + 1, !.held = n.held \cup held]
BillRow(n, row) == [n EXCEPT !.row = row]
BillSums(n, sums) == [n EXCEPT !.sums = sums]

LEMMA NewBillType ==
  ASSUME BillingRows, NEW op \in B!AllEndpoints, NEW i \in Installments, NEW p \in Receipts \cup {0},
         NEW a \in 0..MaxAmount, NEW m, m = NewBill(op, i, p, a)
  PROVE  /\ m \in B!Requests /\ m.op = op /\ m.of = i /\ m.id = p /\ m.amount = a
         /\ m.stage = 0 /\ m.held = {} /\ m.made = {}
<1>0. B!Idle \in B!Requests /\ B!Idle.held = {} /\ B!Idle.stage = 0 /\ B!Idle.made = {}  BY BillIdle
<1>1. /\ m.op = op /\ m.of = i /\ m.id = p /\ m.amount = a /\ m.stage = B!Idle.stage
      /\ m.row = B!Idle.row /\ m.sums = B!Idle.sums /\ m.todo = B!Idle.todo /\ m.made = B!Idle.made
      /\ m.today = B!Idle.today /\ m.held = B!Idle.held /\ m = [f \in DOMAIN B!Idle |-> m[f]]
  BY <1>0 DEF B!Requests, NewBill
<1> QED  BY <1>0, <1>1, BillFields, BillRebuilt

LEMMA GoneOnType ==
  ASSUME NEW n \in B!Requests, NEW held \in SUBSET B!Locks, n.stage \in 0..2, NEW m, m = GoneOn(n, held)
  PROVE  /\ m \in B!Requests /\ m.op = n.op /\ m.of = n.of /\ m.id = n.id /\ m.amount = n.amount
         /\ m.row = n.row /\ m.sums = n.sums /\ m.made = n.made /\ m.todo = n.todo
         /\ m.stage = n.stage + 1 /\ m.held = n.held \cup held
<1>1. /\ m.op = n.op /\ m.of = n.of /\ m.id = n.id /\ m.amount = n.amount /\ m.stage = n.stage + 1
      /\ m.row = n.row /\ m.sums = n.sums /\ m.todo = n.todo /\ m.made = n.made
      /\ m.today = n.today /\ m.held = n.held \cup held /\ m = [f \in DOMAIN n |-> m[f]]
  BY DEF B!Requests, GoneOn
<1>2. m.stage \in 0..3 /\ m.held \in SUBSET B!Locks  BY <1>1, BillFields
<1> QED  BY <1>1, <1>2, BillFields, BillRebuilt

LEMMA BillRowType ==
  ASSUME NEW n \in B!Requests, NEW row \in BillReads, NEW m, m = BillRow(n, row)
  PROVE  /\ m \in B!Requests /\ m.op = n.op /\ m.of = n.of /\ m.id = n.id /\ m.amount = n.amount
         /\ m.row = row /\ m.sums = n.sums /\ m.made = n.made /\ m.stage = n.stage /\ m.held = n.held
<1>1. /\ m.op = n.op /\ m.of = n.of /\ m.id = n.id /\ m.amount = n.amount /\ m.stage = n.stage
      /\ m.row = row /\ m.sums = n.sums /\ m.todo = n.todo /\ m.made = n.made
      /\ m.today = n.today /\ m.held = n.held /\ m = [f \in DOMAIN n |-> m[f]]
  BY DEF B!Requests, BillRow
<1> QED  BY <1>1, BillFields, BillRebuilt

LEMMA BillSumsType ==
  ASSUME NEW n \in B!Requests, NEW sums \in Nat \X Nat, NEW m, m = BillSums(n, sums)
  PROVE  /\ m \in B!Requests /\ m.op = n.op /\ m.of = n.of /\ m.id = n.id /\ m.amount = n.amount
         /\ m.row = n.row /\ m.sums = sums /\ m.made = n.made /\ m.stage = n.stage /\ m.held = n.held
<1>1. /\ m.op = n.op /\ m.of = n.of /\ m.id = n.id /\ m.amount = n.amount /\ m.stage = n.stage
      /\ m.row = n.row /\ m.sums = sums /\ m.todo = n.todo /\ m.made = n.made
      /\ m.today = n.today /\ m.held = n.held /\ m = [f \in DOMAIN n |-> m[f]]
  BY DEF B!Requests, BillSums
<1> QED  BY <1>1, BillFields, BillRebuilt

(* A payment as a request writes it, and the table after.                   *)
WrittenBill(r, row) ==
  IF r.op = "pay" THEN [state |-> "CONFIRMED", of |-> r.of, amount |-> r.amount, refunded |-> 0]
  ELSE IF r.op = "cancelPayment" THEN [row EXCEPT !.state = "CANCELLED"]
  ELSE [row EXCEPT !.refunded = @ + r.amount]
After(r, rows) == [rows EXCEPT ![r.id] = WrittenBill(r, rows[r.id])]

LEMMA ChangedIs ==
  ASSUME receipt \in [Receipts -> B!PaymentRows], NEW r, r.op \in OfPayments, r.id \in Receipts
  PROVE  B!Changed(r) = After(r, receipt)
<1>1. CASE r.op = "pay"  BY <1>1 DEF B!Changed, After, WrittenBill
<1>2. CASE r.op = "cancelPayment"  BY <1>2 DEF B!Changed, After, WrittenBill
<1>3. CASE r.op = "refund"  BY <1>3 DEF B!Changed, After, WrittenBill
<1> QED  BY <1>1, <1>2, <1>3 DEF OfPayments

LEMMA WrittenRow ==
  ASSUME BillingRows, NEW r, r.op \in OfPayments, r.of \in Installments, r.amount \in 0..MaxAmount,
         NEW row \in B!PaymentRows, r.op # "pay" => row.of = r.of /\ row.state # "none"
  PROVE  /\ WrittenBill(r, row) \in B!PaymentRows
         /\ WrittenBill(r, row).of = r.of /\ WrittenBill(r, row).state # "none"
<1>1. CASE r.op = "pay"  BY <1>1 DEF WrittenBill, B!PaymentRows
<1>2. CASE r.op = "cancelPayment"  BY <1>2 DEF WrittenBill, B!PaymentRows
<1>3. CASE r.op = "refund"
  <2>1. row.refunded + r.amount \in Nat  BY DEF B!PaymentRows, BillingRows
  <2> QED  BY <1>3, <2>1 DEF WrittenBill, B!PaymentRows
<1> QED  BY <1>1, <1>2, <1>3 DEF OfPayments

LEMMA OneBooks ==
  \A i, rows : B!Paid(i, rows) = Paid(i, rows) /\ B!Refunded(i, rows) = Refunded(i, rows)
BY DEF B!Paid, Paid, B!Refunded, Refunded, B!SumFunctionOnSet, SumFunctionOnSet,
       B!FoldFunctionOnSet, FoldFunctionOnSet, B!MapThenFoldSet, MapThenFoldSet

(* What is paid and refunded are numbers, and depend on the payments of the *)
(* installment only.                                                        *)
LEMMA BillTotals ==
  ASSUME BillingRows, NEW i, NEW rows \in [Receipts -> B!PaymentRows]
  PROVE  Paid(i, rows) \in Nat /\ Refunded(i, rows) \in Nat
<1> DEFINE paid == [p \in Receipts |-> rows[p].amount]
           refunded == [p \in Receipts |-> rows[p].refunded]
           A == {p \in Receipts : rows[p].of = i /\ rows[p].state = "CONFIRMED"}
           C == {p \in Receipts : rows[p].of = i}
<1>1. A \subseteq Receipts /\ C \subseteq Receipts /\ IsFiniteSet(A) /\ IsFiniteSet(C)
  BY FS_Subset DEF BillingRows
<1>2. \A p \in Receipts : paid[p] \in Nat /\ refunded[p] \in Nat  BY DEF B!PaymentRows, BillingRows
<1>3. Paid(i, rows) = SumFunctionOnSet(paid, A) /\ Refunded(i, rows) = SumFunctionOnSet(refunded, C)
  BY DEF Paid, Refunded
<1> HIDE DEF paid, refunded, A, C
<1> QED  BY <1>1, <1>2, <1>3, SumNat

LEMMA SameTotals ==
  ASSUME BillingRows, NEW i, NEW rows \in [Receipts -> B!PaymentRows],
         NEW other \in [Receipts -> B!PaymentRows],
         \A p \in Receipts : rows[p].of = i \/ other[p].of = i => rows[p] = other[p]
  PROVE  Paid(i, other) = Paid(i, rows) /\ Refunded(i, other) = Refunded(i, rows)
<1> DEFINE paid == [p \in Receipts |-> rows[p].amount]
           refunded == [p \in Receipts |-> rows[p].refunded]
           otherPaid == [p \in Receipts |-> other[p].amount]
           otherRefunded == [p \in Receipts |-> other[p].refunded]
           A == {p \in Receipts : rows[p].of = i /\ rows[p].state = "CONFIRMED"}
           C == {p \in Receipts : rows[p].of = i}
<1>1. A \subseteq Receipts /\ C \subseteq Receipts /\ IsFiniteSet(A) /\ IsFiniteSet(C)
  BY FS_Subset DEF BillingRows
<1>2. \A p \in Receipts : paid[p] \in Int /\ refunded[p] \in Int  BY DEF B!PaymentRows, BillingRows
<1>3. \A p \in C : otherPaid[p] = paid[p] /\ otherRefunded[p] = refunded[p]  OBVIOUS
<1>4. /\ A = {p \in Receipts : other[p].of = i /\ other[p].state = "CONFIRMED"}
      /\ C = {p \in Receipts : other[p].of = i} /\ A \subseteq C
  OBVIOUS
<1>5. /\ Paid(i, rows) = SumFunctionOnSet(paid, A) /\ Refunded(i, rows) = SumFunctionOnSet(refunded, C)
      /\ Paid(i, other) = SumFunctionOnSet(otherPaid, A)
      /\ Refunded(i, other) = SumFunctionOnSet(otherRefunded, C)
  BY <1>4 DEF Paid, Refunded
<1>6. A \subseteq C  BY <1>4
<1> HIDE DEF paid, refunded, otherPaid, otherRefunded, A, C
<1>7. SumFunctionOnSet(otherPaid, A) = SumFunctionOnSet(paid, A)
  <2>1. \A p \in A : paid[p] \in Int /\ otherPaid[p] = paid[p]  BY <1>1, <1>2, <1>3, <1>6
  <2> QED  BY <1>1, <2>1, SumEqual
<1>8. SumFunctionOnSet(otherRefunded, C) = SumFunctionOnSet(refunded, C)
  <2>1. \A p \in C : refunded[p] \in Int /\ otherRefunded[p] = refunded[p]  BY <1>1, <1>2, <1>3
  <2> QED  BY <1>1, <2>1, SumEqual
<1> QED  BY <1>5, <1>7, <1>8

LEMMA NothingPaid ==
  ASSUME NEW i, NEW rows, \A p \in Receipts : rows[p].of # i
  PROVE  Paid(i, rows) = 0 /\ Refunded(i, rows) = 0
<1>1. /\ {p \in Receipts : rows[p].of = i /\ rows[p].state = "CONFIRMED"} = {}
      /\ {p \in Receipts : rows[p].of = i} = {}
  OBVIOUS
<1> QED  BY <1>1, SumEmpty DEF Paid, Refunded

LEMMA BalanceType ==
  ASSUME BillingRows, NEW i \in Installments, NEW paid \in Nat, NEW refunded \in Nat
  PROVE  Balance(i, paid, refunded) \in Nat
BY DEF Balance, BillingRows

-----------------------------------------------------------------------------
(* The types of the installments, and who holds which row.                  *)
BillExclusion == \A s, t \in B!Actors : s # t => bReq[s].held \cap bReq[t].held = {}

(* A payment that was made is one of an installment that was invoiced.      *)
BillRows(bills, rows) ==
  \A p \in Receipts :
    /\ (rows[p].state = "none") <=> (rows[p].of = 0)
    /\ rows[p].of # 0 => bills[rows[p].of].state # "none"

BillOK(r, bills, rows) ==
  /\ r.op # "run"
  /\ r.op \in OfInvoices \cup {"invoice"} => r.of \in Installments
  /\ r.op \in OfInvoices => bills[r.of].state # "none"
  /\ r.op \in OfPayments => r.id \in Receipts
  /\ r.op \in {"cancelPayment", "refund"} => rows[r.id].of = r.of
  /\ r.stage = 2 =>
       /\ r.op \in OfPayments
       /\ r.op \in {"pay", "refund"} => <<"sequence", r.op>> \in r.held
       /\ r.op = "pay" => rows[r.id].state = "none"

(* What a run of the automation has made, nobody else can have made.        *)
MadeOK(r, bills) ==
  /\ r.op \in {"none", "run"}
  /\ \A i \in r.made : bills[i].state = "none"
  /\ r.made # {} => <<"sequence", "invoice">> \in r.held

BillInv ==
  /\ B!TypeOK /\ BillExclusion /\ BillRows(invoice, receipt)
  /\ \A s \in Sessions : BillOK(bReq[s], invoice, receipt)
  /\ MadeOK(bReq[Scheduler], invoice)

LEMMA BillTables ==
  ASSUME BillInv
  PROVE  /\ invoice \in [Installments -> B!InvoiceRows] /\ receipt \in [Receipts -> B!PaymentRows]
         /\ contract \in [Subscriptions -> {"SUBMITTED", "APPROVED", "REJECTED"}]
         /\ day \in 0..LastDue /\ done \in BOOLEAN /\ bReq \in [B!Actors -> B!Requests]
BY DEF BillInv, B!TypeOK

(* A step of one request: the rows of invoices stay, and the payments stay  *)
(* those of their installments.                                             *)
LEMMA BillStep ==
  ASSUME BillInv, BillingRows, NEW s \in B!Actors, NEW n \in B!Requests, bReq' = [bReq EXCEPT ![s] = n],
         \A t \in B!Actors \ {s} : n.held \cap bReq[t].held = {},
         s \in Sessions => BillOK(n, invoice', receipt'), MadeOK(bReq'[Scheduler], invoice'),
         invoice' \in [Installments -> B!InvoiceRows], receipt' \in [Receipts -> B!PaymentRows],
         BillRows(invoice', receipt'),
         \A i \in Installments : invoice[i].state # "none" => invoice'[i].state # "none",
         \A p \in Receipts : receipt[p].of # 0 => receipt'[p].of = receipt[p].of,
         \A p \in Receipts : receipt[p].state = "none" /\ <<"sequence", "pay">> \notin bReq[s].held =>
                             receipt'[p].state = "none",
         done' \in BOOLEAN, UNCHANGED <<contract, day>>
  PROVE  BillInv'
<1>1. \A t \in B!Actors : bReq'[t] = IF t = s THEN n ELSE bReq[t]  BY BillTables
<1>2. B!TypeOK'
  <2>1. bReq' \in [B!Actors -> B!Requests]  BY BillTables
  <2> QED  BY <2>1, BillTables DEF B!TypeOK
<1>3. BillExclusion'
  <2>1. \A t, u \in B!Actors : t # u => bReq'[t].held \cap bReq'[u].held = {}
    BY <1>1 DEF BillInv, BillExclusion
  <2> QED  BY <2>1 DEF BillExclusion
<1>4. ASSUME NEW t \in Sessions PROVE BillOK(bReq'[t], invoice', receipt')
  <2>1. t \in B!Actors  BY DEF B!Actors
  <2>2. CASE t = s  BY <1>1, <2>1, <2>2
  <2>3. CASE t # s
    <3>1. bReq'[t] = bReq[t]  BY <1>1, <2>1, <2>3
    <3> DEFINE r == bReq[t]
    <3>2. BillOK(r, invoice, receipt)  BY DEF BillInv
    <3>4. <<"sequence", "pay">> \in r.held => <<"sequence", "pay">> \notin bReq[s].held
      BY <2>1, <2>3 DEF BillInv, BillExclusion
    <3> HIDE DEF r
    <3>3. BillOK(r, invoice', receipt')
      BY <3>2, <3>4 DEF BillOK, OfInvoices, OfPayments, BillingRows
    <3> QED  BY <3>1, <3>3 DEF r
  <2> QED  BY <2>2, <2>3
<1> QED  BY <1>2, <1>3, <1>4 DEF BillInv

(* One request changes, and no row.                                         *)
LEMMA BillAlone ==
  ASSUME BillInv, BillingRows, NEW s \in B!Actors, NEW n \in B!Requests, bReq' = [bReq EXCEPT ![s] = n],
         \A t \in B!Actors \ {s} : n.held \cap bReq[t].held = {},
         s \in Sessions => BillOK(n, invoice, receipt), s = Scheduler => MadeOK(n, invoice),
         done' \in BOOLEAN, UNCHANGED <<contract, day, invoice, receipt>>
  PROVE  BillInv'
<1>1. Scheduler \in B!Actors  BY DEF B!Actors
<1>2. bReq'[Scheduler] = IF Scheduler = s THEN n ELSE bReq[Scheduler]  BY <1>1, BillTables
<1>3. MadeOK(bReq'[Scheduler], invoice)  BY <1>2 DEF BillInv
<1>4. BillRows(invoice, receipt)  BY DEF BillInv
<1> QED  BY <1>3, <1>4, BillTables, BillStep

LEMMA BillBack ==
  ASSUME BillInv, BillingRows, NEW s \in B!Actors, bReq' = [bReq EXCEPT ![s] = B!Idle],
         done' \in BOOLEAN, UNCHANGED <<contract, day, invoice, receipt>>
  PROVE  BillInv'
<1>1. BillOK(B!Idle, invoice, receipt) /\ MadeOK(B!Idle, invoice)
  BY BillIdle DEF BillOK, MadeOK, OfInvoices, OfPayments
<1> QED  BY <1>1, BillIdle, BillAlone

LEMMA BillRequested ==
  ASSUME BillInv, NEW s \in Sessions
  PROVE  s \in B!Actors /\ bReq[s] \in B!Requests /\ BillOK(bReq[s], invoice, receipt)
BY BillTables DEF BillInv, B!Actors

(* What a statement waits for is a row.                                     *)
LEMMA WantedType ==
  ASSUME NEW r, r.op \in OfPayments => r.id \in Receipts
  PROVE  B!Wanted(r) \in SUBSET B!Locks
<1>1. /\ \A k \in {"invoice", "pay", "refund"} : <<"sequence", k>> \in B!Locks
      /\ \A p \in Receipts : <<"payment", p>> \in B!Locks
  BY DEF B!Locks
<1>2. B!Numbering(r) \in SUBSET B!Locks  BY <1>1 DEF B!Numbering
<1> QED  BY <1>1, <1>2 DEF B!Wanted, OfPayments

(* A request that goes on.                                                  *)
LEMMA BillGoesOn ==
  ASSUME BillInv, BillingRows, NEW s \in Sessions, NEW n \in B!Requests,
         n.stage = bReq[s].stage, n.stage \in 0..1,
         n.stage = 1 => n.op \in OfPayments /\ (n.op = "pay" => receipt[n.id].state = "none"),
         n.op = bReq[s].op, n.of = bReq[s].of, n.id = bReq[s].id, n.held = bReq[s].held,
         B!Free(s, B!Wanted(bReq[s])), B!Advance(s, n), UNCHANGED receipt
  PROVE  /\ BillInv'
         /\ bReq' = [bReq EXCEPT ![s] = GoneOn(n, B!Wanted(bReq[s]))]
<1> DEFINE r == bReq[s]
           m == GoneOn(n, B!Wanted(r))
<1>0. s \in B!Actors /\ r \in B!Requests /\ BillOK(r, invoice, receipt)  BY BillRequested
<1>1. B!Wanted(r) \in SUBSET B!Locks  BY <1>0, WantedType DEF BillOK
<1>2. bReq' = [bReq EXCEPT ![s] = m] /\ UNCHANGED <<contract, invoice, day, done>>
  BY DEF B!Advance, GoneOn
<1>3. m \in B!Requests /\ m.op = r.op /\ m.of = r.of /\ m.id = r.id /\ m.held = r.held \cup B!Wanted(r)
  BY <1>1, GoneOnType
<1>4. \A t \in B!Actors \ {s} : m.held \cap bReq[t].held = {}
  BY <1>0, <1>3 DEF B!Free, BillInv, BillExclusion
<1>5. BillOK(m, invoice, receipt)
  <2>1. r.stage = 1 /\ r.op \in {"pay", "refund"} => <<"sequence", r.op>> \in B!Wanted(r)
    BY DEF B!Wanted, B!Numbering
  <2>2. m.stage = r.stage + 1  BY <1>1, GoneOnType
  <2> HIDE DEF m, r
  <2> QED  BY <1>0, <1>3, <2>1, <2>2 DEF BillOK, r
<1>6. s # Scheduler  BY DEF BillingRows
<1> HIDE DEF m, r
<1>7. BillInv'  BY <1>0, <1>2, <1>3, <1>4, <1>5, <1>6, BillTables, BillAlone
<1> QED  BY <1>2, <1>7 DEF m, r

LEMMA BillRead ==
  ASSUME BillInv, BillingRows, NEW s \in Sessions, B!ReadRow(s)
  PROVE  BillInv' /\ \E m \in B!Requests : m.stage = 1 /\ bReq' = [bReq EXCEPT ![s] = m]
<1> DEFINE r == bReq[s]
<1>0. r \in B!Requests /\ BillOK(r, invoice, receipt) /\ s \in B!Actors  BY BillRequested
<1>1. ASSUME NEW row \in BillReads, r.stage = 0, B!Free(s, B!Wanted(r)), B!Advance(s, [r EXCEPT !.row = row]),
             UNCHANGED receipt
      PROVE  BillInv' /\ \E m \in B!Requests : m.stage = 1 /\ bReq' = [bReq EXCEPT ![s] = m]
  <2> DEFINE n == BillRow(r, row)
  <2>1. n \in B!Requests /\ n.op = r.op /\ n.of = r.of /\ n.id = r.id /\ n.stage = r.stage /\ n.held = r.held
    BY <1>0, BillRowType
  <2>2. B!Advance(s, n)  BY <1>1 DEF BillRow
  <2> HIDE DEF n
  <2>3. BillInv' /\ bReq' = [bReq EXCEPT ![s] = GoneOn(n, B!Wanted(r))]  BY <1>1, <2>1, <2>2, BillGoesOn
  <2>4. B!Wanted(r) \in SUBSET B!Locks  BY <1>0, WantedType DEF BillOK
  <2>5. GoneOn(n, B!Wanted(r)) \in B!Requests /\ GoneOn(n, B!Wanted(r)).stage = 1
    BY <1>1, <2>1, <2>4, GoneOnType
  <2> QED  BY <2>3, <2>5
<1>2. ASSUME NEW op \in {"invoice", "issue", "cancelInvoice", "pay"}, B!Runs(s, op, 0),
             B!Advance(s, [r EXCEPT !.row = invoice[r.of]]), UNCHANGED receipt
      PROVE  BillInv' /\ \E m \in B!Requests : m.stage = 1 /\ bReq' = [bReq EXCEPT ![s] = m]
  <2>1. r.op = op /\ r.stage = 0 /\ B!Free(s, B!Wanted(r))  BY <1>2 DEF B!Runs
  <2>2. r.of \in Installments  BY <1>0, <2>1 DEF BillOK, OfInvoices, OfPayments
  <2>3. invoice[r.of] \in BillReads  BY <2>2, BillTables DEF BillReads
  <2> HIDE DEF r
  <2> QED  BY <1>1, <1>2, <2>1, <2>3
<1>3. ASSUME NEW op \in {"cancelPayment", "refund"}, B!Runs(s, op, 0),
             B!Advance(s, [r EXCEPT !.row = receipt[r.id]]), UNCHANGED receipt
      PROVE  BillInv' /\ \E m \in B!Requests : m.stage = 1 /\ bReq' = [bReq EXCEPT ![s] = m]
  <2>1. r.op = op /\ r.stage = 0 /\ B!Free(s, B!Wanted(r))  BY <1>3 DEF B!Runs
  <2>2. r.id \in Receipts  BY <1>0, <2>1 DEF BillOK, OfPayments
  <2>3. receipt[r.id] \in BillReads  BY <2>2, BillTables DEF BillReads
  <2> HIDE DEF r
  <2> QED  BY <1>1, <1>3, <2>1, <2>3
<1> QED  BY <1>2, <1>3 DEF B!ReadRow

(* A request that sums sees its own payment written.                        *)
LEMMA AfterType ==
  ASSUME BillInv, BillingRows, NEW s \in Sessions, bReq[s].op \in OfPayments
  PROVE  /\ After(bReq[s], receipt) \in [Receipts -> B!PaymentRows]
         /\ WrittenBill(bReq[s], receipt[bReq[s].id]).of = bReq[s].of
         /\ WrittenBill(bReq[s], receipt[bReq[s].id]).state # "none"
         /\ bReq[s].id \in Receipts /\ bReq[s].of \in Installments
<1> DEFINE r == bReq[s]
           row == receipt[r.id]
<1>0. r \in B!Requests /\ BillOK(r, invoice, receipt) /\ BillRows(invoice, receipt)
  BY BillRequested DEF BillInv
<1>1. r.id \in Receipts /\ r.of \in Installments /\ r.amount \in 0..MaxAmount
  BY <1>0, BillFields DEF BillOK, OfInvoices
<1>2. row \in B!PaymentRows  BY <1>1, BillTables
<1>3. r.op # "pay" => row.of = r.of /\ row.state # "none"
  BY <1>0, <1>1 DEF BillOK, BillRows, OfPayments, BillingRows
<1>4. WrittenBill(r, row) \in B!PaymentRows /\ WrittenBill(r, row).of = r.of /\ WrittenBill(r, row).state # "none"
  <2> HIDE DEF r, row
  <2> QED  BY <1>1, <1>2, <1>3, WrittenRow DEF r
<1> QED  BY <1>1, <1>4, BillTables DEF After

LEMMA BillSum ==
  ASSUME BillInv, BillingRows, NEW s \in Sessions, B!SumPayments(s)
  PROVE  /\ BillInv'
         /\ bReq[s].op \in OfPayments /\ bReq[s].stage = 1
         /\ \E m \in B!Requests :
              /\ bReq' = [bReq EXCEPT ![s] = m]
              /\ m.op = bReq[s].op /\ m.of = bReq[s].of /\ m.id = bReq[s].id /\ m.amount = bReq[s].amount
              /\ m.stage = 2 /\ m.row = bReq[s].row
              /\ m.sums = <<Paid(bReq[s].of, After(bReq[s], receipt)), Refunded(bReq[s].of, After(bReq[s], receipt))>>
         /\ UNCHANGED <<invoice, receipt, contract, day, done>>
<1> DEFINE r == bReq[s]
           sums == <<Paid(r.of, After(r, receipt)), Refunded(r.of, After(r, receipt))>>
           n == BillSums(r, sums)
           m == GoneOn(n, B!Wanted(r))
<1>0. r \in B!Requests /\ BillOK(r, invoice, receipt) /\ s \in B!Actors  BY BillRequested
<1>1. /\ r.op \in OfPayments /\ r.stage = 1 /\ B!Free(s, B!Wanted(r)) /\ UNCHANGED receipt
      /\ r.op = "pay" => receipt[r.id].state = "none"
  BY DEF B!SumPayments, B!Runs, OfPayments
<1>2. r.id \in Receipts  BY <1>0, <1>1 DEF BillOK
<1>3. B!Changed(r) = After(r, receipt)  BY <1>1, <1>2, BillTables, ChangedIs
<1>4. B!Advance(s, n)
  <2>1. <<B!Paid(r.of, B!Changed(r)), B!Refunded(r.of, B!Changed(r))>> = sums  BY <1>3, OneBooks
  <2>2. B!Advance(s, [r EXCEPT !.sums = <<B!Paid(r.of, B!Changed(r)), B!Refunded(r.of, B!Changed(r))>>])
    BY DEF B!SumPayments
  <2> QED  BY <2>1, <2>2 DEF BillSums
<1>5. sums \in Nat \X Nat  BY <1>1, AfterType, BillTotals
<1>6. /\ n \in B!Requests /\ n.op = r.op /\ n.of = r.of /\ n.id = r.id /\ n.amount = r.amount
      /\ n.row = r.row /\ n.sums = sums /\ n.stage = r.stage /\ n.held = r.held
  <2> HIDE DEF r, sums
  <2> QED  BY <1>0, <1>5, BillSumsType DEF r
<1>7. BillInv' /\ bReq' = [bReq EXCEPT ![s] = m]
  <2> HIDE DEF n
  <2> QED  BY <1>1, <1>2, <1>4, <1>6, BillGoesOn
<1>8. B!Wanted(r) \in SUBSET B!Locks  BY <1>2, WantedType
<1>9. /\ m \in B!Requests /\ m.op = r.op /\ m.of = r.of /\ m.id = r.id /\ m.amount = r.amount
      /\ m.stage = 2 /\ m.row = r.row /\ m.sums = sums
  <2> HIDE DEF n, r
  <2> QED  BY <1>1, <1>6, <1>8, GoneOnType
<1>10. UNCHANGED <<invoice, contract, day, done>>  BY <1>4 DEF B!Advance
<1> HIDE DEF m
<1> QED  BY <1>1, <1>7, <1>9, <1>10

LEMMA RefreshedType ==
  ASSUME BillingRows, NEW i \in Installments, NEW row \in B!InvoiceRows, NEW sums \in Nat \X Nat
  PROVE  /\ B!Refreshed(i, row, sums) \in B!InvoiceRows
         /\ B!Refreshed(i, row, sums).state # "none"
         /\ B!Refreshed(i, row, sums).paid = sums[1] /\ B!Refreshed(i, row, sums).refunded = sums[2]
         /\ B!Refreshed(i, row, sums).balance = Balance(i, sums[1], sums[2])
<1>1. sums[1] \in Nat /\ sums[2] \in Nat  OBVIOUS
<1>2. Balance(i, sums[1], sums[2]) \in Nat  BY <1>1, BalanceType
<1>3. B!Balance(i, sums[1], sums[2]) = Balance(i, sums[1], sums[2])  BY DEF B!Balance, Balance
<1> QED  BY <1>1, <1>2, <1>3 DEF B!Refreshed, B!InvoiceRows, B!InvoiceStates

LEMMA BillStore ==
  ASSUME BillInv, BillingRows, NEW s \in Sessions, B!StorePayment(s)
  PROVE  /\ BillInv'
         /\ bReq[s].op \in OfPayments /\ bReq[s].stage = 2
         /\ receipt' = After(bReq[s], receipt)
         /\ invoice' = [invoice EXCEPT ![bReq[s].of] = B!Refreshed(bReq[s].of, invoice[bReq[s].of], bReq[s].sums)]
         /\ bReq' = [bReq EXCEPT ![s] = B!Idle]
<1> DEFINE r == bReq[s]
           row == B!Refreshed(r.of, invoice[r.of], r.sums)
           new == WrittenBill(r, receipt[r.id])
<1>0. /\ r \in B!Requests /\ BillOK(r, invoice, receipt) /\ s \in B!Actors /\ BillRows(invoice, receipt)
      /\ MadeOK(bReq[Scheduler], invoice)
  BY BillRequested DEF BillInv
<1>1. /\ r.op \in OfPayments /\ r.stage = 2 /\ receipt' = B!Changed(r)
      /\ invoice' = [invoice EXCEPT ![r.of] = row] /\ bReq' = [bReq EXCEPT ![s] = B!Idle]
      /\ UNCHANGED <<contract, day, done>>
  BY DEF B!StorePayment, B!Commits, B!Runs, OfPayments
<1>2. r.id \in Receipts /\ r.of \in Installments /\ r.sums \in Nat \X Nat
  BY <1>0, <1>1, BillFields DEF BillOK, OfInvoices
<1>3. receipt' = After(r, receipt)  BY <1>1, <1>2, BillTables, ChangedIs
<1>4. After(r, receipt) \in [Receipts -> B!PaymentRows] /\ new.of = r.of /\ new.state # "none"
  BY <1>1, AfterType
<1>5. \A p \in Receipts : receipt'[p] = IF p = r.id THEN new ELSE receipt[p]
  BY <1>2, <1>3, BillTables DEF After
<1>6. row \in B!InvoiceRows /\ row.state # "none"
  <2>1. invoice[r.of] \in B!InvoiceRows  BY <1>2, BillTables
  <2> HIDE DEF r
  <2> QED  BY <1>2, <2>1, RefreshedType
<1>7. \A i \in Installments : invoice'[i] = IF i = r.of THEN row ELSE invoice[i]
  BY <1>1, <1>2, BillTables
<1>8. r.op = "pay" => receipt[r.id].of = 0 /\ <<"sequence", "pay">> \in r.held
  BY <1>0, <1>1, <1>2 DEF BillOK, BillRows
<1>9. r.op # "pay" => receipt[r.id].of = r.of /\ receipt[r.id].state # "none"
  BY <1>0, <1>1, <1>2 DEF BillOK, BillRows, OfPayments, BillingRows
<1>10. /\ invoice' \in [Installments -> B!InvoiceRows] /\ receipt' \in [Receipts -> B!PaymentRows]
       /\ done' \in BOOLEAN
  BY <1>1, <1>2, <1>3, <1>4, <1>6, BillTables
<1>11. s # Scheduler /\ Scheduler \in B!Actors  BY DEF BillingRows, B!Actors
<1>12. bReq'[Scheduler] = bReq[Scheduler]  BY <1>1, <1>11, BillTables
<1>13. invoice[r.of].state # "none" /\ r.of # 0  BY <1>0, <1>1, <1>2 DEF BillOK, OfInvoices, BillingRows
<1> HIDE DEF r, row, new
<1>14. BillRows(invoice', receipt')
  <2>1. \A p \in Receipts : receipt[p].of \in Installments \cup {0}  BY BillTables DEF B!PaymentRows
  <2> QED  BY <1>0, <1>2, <1>4, <1>5, <1>6, <1>7, <1>13, <2>1 DEF BillRows
<1>15. MadeOK(bReq'[Scheduler], invoice')
  <2>1. bReq[Scheduler].made \subseteq Installments  BY <1>11, BillTables, BillFields
  <2> QED  BY <1>0, <1>7, <1>12, <1>13, <2>1 DEF MadeOK
<1>16. \A i \in Installments : invoice[i].state # "none" => invoice'[i].state # "none"  BY <1>6, <1>7
<1>17. \A p \in Receipts : receipt[p].of # 0 => receipt'[p].of = receipt[p].of
  BY <1>4, <1>5, <1>8, <1>9
<1>18. \A p \in Receipts : receipt[p].state = "none" /\ <<"sequence", "pay">> \notin bReq[s].held =>
                           receipt'[p].state = "none"
  BY <1>5, <1>8, <1>9 DEF r
<1>19. BillInv'
  <2>1. \A t \in B!Actors \ {s} : B!Idle.held \cap bReq[t].held = {}  BY BillIdle
  <2>2. BillOK(B!Idle, invoice', receipt')  BY BillIdle DEF BillOK, OfInvoices, OfPayments
  <2> QED
    BY <1>0, <1>1, <1>10, <1>14, <1>15, <1>16, <1>17, <1>18, <2>1, <2>2, BillIdle, BillStep
<1> QED  BY <1>1, <1>3, <1>19 DEF r, row

(* An invoice that is issued, cancelled or made by hand.                    *)
LEMMA InvoiceStep ==
  ASSUME BillInv, BillingRows, NEW s \in Sessions, NEW i \in Installments, NEW row \in B!InvoiceRows,
         row.state # "none", invoice' = [invoice EXCEPT ![i] = row],
         invoice[i].state # "none" \/ bReq[Scheduler].made = {},
         bReq' = [bReq EXCEPT ![s] = B!Idle], UNCHANGED <<contract, receipt, day, done>>
  PROVE  BillInv'
<1>0. s \in B!Actors /\ BillRows(invoice, receipt) /\ MadeOK(bReq[Scheduler], invoice)
  BY BillRequested DEF BillInv
<1>1. \A j \in Installments : invoice'[j] = IF j = i THEN row ELSE invoice[j]  BY BillTables
<1>2. s # Scheduler /\ Scheduler \in B!Actors  BY DEF BillingRows, B!Actors
<1>3. bReq'[Scheduler] = bReq[Scheduler]  BY <1>2, BillTables
<1>4. bReq[Scheduler].made \subseteq Installments  BY <1>2, BillTables, BillFields
<1>5. MadeOK(bReq'[Scheduler], invoice')  BY <1>0, <1>1, <1>3, <1>4 DEF MadeOK
<1>6. BillRows(invoice', receipt')
  <2>1. \A p \in Receipts : receipt[p].of \in Installments \cup {0}  BY BillTables DEF B!PaymentRows
  <2> QED  BY <1>0, <1>1, <2>1 DEF BillRows
<1>7. /\ invoice' \in [Installments -> B!InvoiceRows] /\ receipt' \in [Receipts -> B!PaymentRows]
      /\ done' \in BOOLEAN
  BY BillTables
<1>8. \A t \in B!Actors \ {s} : B!Idle.held \cap bReq[t].held = {}  BY BillIdle
<1>9. BillOK(B!Idle, invoice', receipt')  BY BillIdle DEF BillOK, OfInvoices, OfPayments
<1>10. \A j \in Installments : invoice[j].state # "none" => invoice'[j].state # "none"  BY <1>1
<1>11. /\ \A p \in Receipts : receipt[p].of # 0 => receipt'[p].of = receipt[p].of
       /\ \A p \in Receipts : receipt[p].state = "none" /\ <<"sequence", "pay">> \notin bReq[s].held =>
                              receipt'[p].state = "none"
  OBVIOUS
<1> QED  BY <1>0, <1>5, <1>6, <1>7, <1>8, <1>9, <1>10, <1>11, BillIdle, BillStep

(* The amounts of the invoices stay, but for a new one, which has none.     *)
AmountsStay ==
  \A i \in Installments :
    \/ /\ invoice'[i].paid = invoice[i].paid /\ invoice'[i].refunded = invoice[i].refunded
       /\ invoice'[i].balance = invoice[i].balance /\ (invoice'[i].state = "none" <=> invoice[i].state = "none")
    \/ invoice[i].state = "none" /\ invoice'[i] = B!NewInvoice(i)

LEMMA NewInvoiceType ==
  ASSUME BillingRows, NEW i \in Installments
  PROVE  /\ B!NewInvoice(i) \in B!InvoiceRows /\ B!NewInvoice(i).state # "none"
         /\ B!NewInvoice(i).paid = 0 /\ B!NewInvoice(i).refunded = 0 /\ B!NewInvoice(i).balance = Owed[i]
BY DEF B!NewInvoice, B!InvoiceRows, B!InvoiceStates, BillingRows

LEMMA InvoiceKeeps ==
  ASSUME BillInv, BillingRows, NEW s \in Sessions,
         B!IssueInvoice(s) \/ B!CancelInvoice(s) \/ B!GenerateInvoice(s)
  PROVE  /\ BillInv' /\ AmountsStay
         /\ bReq' = [bReq EXCEPT ![s] = B!Idle] /\ UNCHANGED receipt
<1> DEFINE r == bReq[s]
<1>0. r \in B!Requests /\ BillOK(r, invoice, receipt)  BY BillRequested
<1>1. ASSUME NEW state \in B!InvoiceStates, r.op \in OfInvoices,
             invoice' = [invoice EXCEPT ![r.of].state = state],
             bReq' = [bReq EXCEPT ![s] = B!Idle], UNCHANGED <<contract, receipt, day, done>>
      PROVE  BillInv' /\ AmountsStay
  <2> DEFINE i == r.of
             row == [invoice[i] EXCEPT !.state = state]
  <2>1. i \in Installments /\ invoice[i].state # "none"  BY <1>0, <1>1 DEF BillOK
  <2>2. invoice[i] \in B!InvoiceRows  BY <2>1, BillTables
  <2>3. /\ row \in B!InvoiceRows /\ row.state = state /\ row.paid = invoice[i].paid
        /\ row.refunded = invoice[i].refunded /\ row.balance = invoice[i].balance
    BY <2>2 DEF B!InvoiceRows
  <2>4. state # "none"  BY DEF B!InvoiceStates
  <2>5. invoice' = [invoice EXCEPT ![i] = row]  BY <1>1, <2>1, BillTables
  <2>6. \A j \in Installments : invoice'[j] = IF j = i THEN row ELSE invoice[j]  BY <2>5, BillTables
  <2> HIDE DEF row, i
  <2>7. AmountsStay  BY <2>1, <2>3, <2>4, <2>6 DEF AmountsStay
  <2>8. BillInv'  BY <1>1, <2>1, <2>3, <2>4, <2>5, InvoiceStep
  <2> QED  BY <2>7, <2>8
<1>2. CASE B!IssueInvoice(s)
  <2> DEFINE state == IF invoice[r.of].balance <= 0 THEN "PAID" ELSE "ISSUED"
  <2>1. /\ r.op = "issue" /\ invoice' = [invoice EXCEPT ![r.of].state = state]
        /\ bReq' = [bReq EXCEPT ![s] = B!Idle] /\ UNCHANGED <<contract, receipt, day, done>>
    BY <1>2 DEF B!IssueInvoice, B!Commits, B!Runs
  <2>2. state \in B!InvoiceStates  BY DEF B!InvoiceStates
  <2> HIDE DEF state
  <2> QED  BY <1>1, <2>1, <2>2 DEF OfInvoices
<1>3. CASE B!CancelInvoice(s)
  <2>1. /\ r.op = "cancelInvoice" /\ invoice' = [invoice EXCEPT ![r.of].state = "CANCELLED"]
        /\ bReq' = [bReq EXCEPT ![s] = B!Idle] /\ UNCHANGED <<contract, receipt, day, done>>
    BY <1>3 DEF B!CancelInvoice, B!Commits, B!Runs
  <2>2. "CANCELLED" \in B!InvoiceStates  BY DEF B!InvoiceStates
  <2> QED  BY <1>1, <2>1, <2>2 DEF OfInvoices
<1>4. CASE B!GenerateInvoice(s)
  <2>1. /\ r.op = "invoice" /\ r.stage = 1 /\ B!Free(s, B!Wanted(r)) /\ invoice[r.of].state = "none"
        /\ invoice' = [invoice EXCEPT ![r.of] = B!NewInvoice(r.of)]
        /\ bReq' = [bReq EXCEPT ![s] = B!Idle] /\ UNCHANGED <<contract, receipt, day, done>>
    BY <1>4 DEF B!GenerateInvoice, B!Commits, B!Runs
  <2>2. r.of \in Installments  BY <1>0, <2>1 DEF BillOK
  <2>3. B!NewInvoice(r.of) \in B!InvoiceRows /\ B!NewInvoice(r.of).state # "none"  BY <2>2, NewInvoiceType
  <2>4. <<"sequence", "invoice">> \in B!Wanted(r)  BY <2>1 DEF B!Wanted, B!Numbering
  <2>5. Scheduler \in B!Actors \ {s}  BY DEF B!Actors, BillingRows
  <2>6. bReq[Scheduler].made = {}  BY <2>1, <2>4, <2>5 DEF B!Free, BillInv, MadeOK
  <2>7. BillInv'
    <3> HIDE DEF r
    <3> QED  BY <2>1, <2>2, <2>3, <2>6, InvoiceStep
  <2>8. AmountsStay  BY <2>1, <2>2, BillTables DEF AmountsStay
  <2> QED  BY <2>1, <2>7, <2>8
<1> QED
  <2>1. bReq' = [bReq EXCEPT ![s] = B!Idle] /\ UNCHANGED receipt
    BY DEF B!IssueInvoice, B!CancelInvoice, B!GenerateInvoice, B!Commits
  <2>2. BillInv' /\ AmountsStay  BY <1>2, <1>3, <1>4
  <2> QED  BY <2>1, <2>2

(* The automation takes the installment that was due first.                 *)
LEMMA FirstOf ==
  ASSUME BillingRows, NEW ids \in SUBSET Installments, ids # {} PROVE B!First(ids) \in ids
<1> DEFINE days == {DueDay[i] : i \in ids}
<1>1. ids \subseteq Nat /\ \A i \in ids : DueDay[i] \in Nat  BY DEF BillingRows
<1>0. days \subseteq Nat /\ days # {}  BY <1>1
<1>2. PICK d \in days : \A e \in days : d <= e
  <2> HIDE DEF days
  <2> QED  BY <1>0, LeastNumber
<1> DEFINE those == {i \in ids : DueDay[i] = d}
<1>3. those # {} /\ those \subseteq Nat  BY <1>1, <1>2
<1>4. PICK n \in those : \A m \in those : n <= m  BY <1>3, LeastNumber
<1>5. n \in ids /\ DueDay[n] = d  BY <1>4
<1>6. \A j \in ids : DueDay[n] < DueDay[j] \/ (DueDay[n] = DueDay[j] /\ n <= j)
  BY <1>1, <1>2, <1>4, <1>5
<1> QED  BY <1>5, <1>6 DEF B!First

LEMMA SchedulerRequest ==
  ASSUME BillInv, BillingRows
  PROVE  /\ Scheduler \in B!Actors /\ Scheduler \notin Sessions
         /\ bReq[Scheduler] \in B!Requests /\ MadeOK(bReq[Scheduler], invoice)
BY BillTables DEF BillInv, B!Actors, BillingRows

(* A run as it starts and as it goes on.                                    *)
NewRun(todo) == [B!Idle EXCEPT !.op = "run", !.today = TRUE, !.todo = todo]
RunOn(r, todo, made, held) == [r EXCEPT !.todo = todo, !.made = made, !.held = held]

LEMMA NewRunType ==
  ASSUME BillingRows, NEW todo \in SUBSET Installments, NEW m, m = NewRun(todo)
  PROVE  m \in B!Requests /\ m.op = "run" /\ m.held = {} /\ m.made = {} /\ m.stage = 0
<1>0. B!Idle \in B!Requests /\ B!Idle.held = {} /\ B!Idle.made = {} /\ B!Idle.stage = 0  BY BillIdle
<1>1. /\ m.op = "run" /\ m.of = B!Idle.of /\ m.id = B!Idle.id /\ m.amount = B!Idle.amount
      /\ m.stage = B!Idle.stage /\ m.row = B!Idle.row /\ m.sums = B!Idle.sums /\ m.todo = todo
      /\ m.made = B!Idle.made /\ m.today = TRUE /\ m.held = B!Idle.held /\ m = [f \in DOMAIN B!Idle |-> m[f]]
  BY <1>0 DEF B!Requests, NewRun
<1>2. m.op \in B!AllEndpoints \cup {"none"} /\ m.today \in BOOLEAN /\ m.todo \in SUBSET Installments
  BY <1>1 DEF B!AllEndpoints
<1>3. /\ m.stage \in 0..3 /\ m.of \in Installments \cup {0} /\ m.id \in Receipts \cup {0}
      /\ m.amount \in 0..MaxAmount /\ m.row \in BillReads /\ m.sums \in Nat \X Nat
      /\ m.made \in SUBSET Installments /\ m.held \in SUBSET B!Locks
  BY <1>0, <1>1, BillFields
<1> QED  BY <1>0, <1>1, <1>2, <1>3, BillRebuilt

LEMMA RunOnType ==
  ASSUME NEW r \in B!Requests, NEW todo \in SUBSET Installments, NEW made \in SUBSET Installments,
         NEW held \in SUBSET B!Locks, NEW m, m = RunOn(r, todo, made, held)
  PROVE  m \in B!Requests /\ m.op = r.op /\ m.held = held /\ m.made = made
<1>1. /\ m.op = r.op /\ m.of = r.of /\ m.id = r.id /\ m.amount = r.amount
      /\ m.stage = r.stage /\ m.row = r.row /\ m.sums = r.sums /\ m.todo = todo
      /\ m.made = made /\ m.today = r.today /\ m.held = held /\ m = [f \in DOMAIN r |-> m[f]]
  BY DEF B!Requests, RunOn
<1> QED  BY <1>1, BillFields, BillRebuilt

LEMMA StartRunKeeps ==
  ASSUME BillInv, BillingRows, B!StartRun(Scheduler)
  PROVE  /\ BillInv' /\ UNCHANGED <<invoice, receipt>>
         /\ \A s \in Sessions : bReq'[s] = bReq[s]
<1> DEFINE todo == {i \in B!Due : /\ contract[SubscriptionOf[i]] \in {"SUBMITTED", "APPROVED"}
                                  /\ invoice[i].state \in {"none", "CANCELLED"}}
           m == NewRun(todo)
<1>1. bReq' = [bReq EXCEPT ![Scheduler] = m] /\ UNCHANGED <<contract, invoice, receipt, day, done>>
  BY DEF B!StartRun, NewRun
<1>2. todo \in SUBSET Installments  BY DEF B!Due
<1> HIDE DEF todo
<1>3. m \in B!Requests /\ m.op = "run" /\ m.held = {} /\ m.made = {}  BY <1>2, NewRunType
<1> HIDE DEF m
<1>4. MadeOK(m, invoice)  BY <1>3 DEF MadeOK
<1>5. \A t \in B!Actors \ {Scheduler} : m.held \cap bReq[t].held = {}  BY <1>3
<1>6. BillInv'  BY <1>1, <1>3, <1>4, <1>5, BillTables, SchedulerRequest, BillAlone
<1> QED  BY <1>1, <1>6, BillTables, SchedulerRequest DEF B!Actors

LEMMA RunInstallmentKeeps ==
  ASSUME BillInv, BillingRows, B!RunInstallment(Scheduler)
  PROVE  /\ BillInv' /\ UNCHANGED <<invoice, receipt>>
         /\ \A s \in Sessions : bReq'[s] = bReq[s]
<1> DEFINE r == bReq[Scheduler]
           i == B!First(r.todo)
           rows == {<<"installment", i>>, <<"subscription", SubscriptionOf[i]>>}
           todo == r.todo \ {i}
<1>0. r \in B!Requests /\ MadeOK(r, invoice)  BY SchedulerRequest
<1>1. r.op = "run" /\ r.todo # {} /\ B!Free(Scheduler, rows) /\ UNCHANGED <<contract, invoice, receipt, day, done>>
  BY DEF B!RunInstallment
<1>2. r.todo \in SUBSET Installments /\ r.made \in SUBSET Installments /\ r.held \in SUBSET B!Locks
  BY <1>0, BillFields
<1>3. i \in r.todo /\ i \in Installments  BY <1>1, <1>2, FirstOf
<1>4. todo \in SUBSET Installments /\ rows \in SUBSET B!Locks
  <2>1. SubscriptionOf[i] \in Subscriptions  BY <1>3 DEF BillingRows
  <2> QED  BY <1>2, <1>3, <2>1 DEF B!Locks
<1>5. B!Numbering(r) = {<<"sequence", "invoice">>} /\ B!Numbering(r) \in SUBSET B!Locks
  BY <1>1 DEF B!Numbering, B!Locks
<1>6. \/ bReq' = [bReq EXCEPT ![Scheduler] = RunOn(r, todo, r.made, r.held \cup rows)]
      \/ /\ B!Free(Scheduler, B!Numbering(r)) /\ invoice[i].state = "none"
         /\ bReq' = [bReq EXCEPT ![Scheduler] =
              RunOn(r, todo, r.made \cup {i}, r.held \cup rows \cup B!Numbering(r))]
  BY <1>0 DEF B!RunInstallment, RunOn, B!Requests
<1> HIDE DEF i, rows, todo
<1>7. ASSUME NEW made \in SUBSET Installments, NEW more \in SUBSET B!Locks, B!Free(Scheduler, more),
             NEW m, m = RunOn(r, todo, made, r.held \cup more), MadeOK(m, invoice),
             bReq' = [bReq EXCEPT ![Scheduler] = m]
      PROVE  BillInv' /\ \A s \in Sessions : bReq'[s] = bReq[s]
  <2>1. m \in B!Requests /\ m.held = r.held \cup more  BY <1>0, <1>2, <1>4, <1>7, RunOnType
  <2>2. \A t \in B!Actors \ {Scheduler} : m.held \cap bReq[t].held = {}
    BY <1>7, <2>1, SchedulerRequest DEF B!Free, BillInv, BillExclusion
  <2>3. BillInv'  BY <1>1, <1>7, <2>1, <2>2, BillTables, SchedulerRequest, BillAlone
  <2> QED  BY <1>7, <2>3, BillTables, SchedulerRequest DEF B!Actors
<1>8. CASE bReq' = [bReq EXCEPT ![Scheduler] = RunOn(r, todo, r.made, r.held \cup rows)]
  <2> DEFINE m == RunOn(r, todo, r.made, r.held \cup rows)
  <2>1. m.op = r.op /\ m.made = r.made /\ m.held = r.held \cup rows  BY <1>0, <1>2, <1>4, RunOnType
  <2>2. MadeOK(m, invoice)  BY <1>0, <2>1 DEF MadeOK
  <2>3. bReq' = [bReq EXCEPT ![Scheduler] = m]  BY <1>8
  <2>4. m = RunOn(r, todo, r.made, r.held \cup rows)  OBVIOUS
  <2> HIDE DEF m
  <2> QED  BY <1>1, <1>2, <1>4, <1>7, <2>2, <2>3, <2>4
<1>9. CASE /\ B!Free(Scheduler, B!Numbering(r)) /\ invoice[i].state = "none"
           /\ bReq' = [bReq EXCEPT ![Scheduler] =
                RunOn(r, todo, r.made \cup {i}, r.held \cup rows \cup B!Numbering(r))]
  <2> DEFINE more == rows \cup B!Numbering(r)
             made == r.made \cup {i}
             m == RunOn(r, todo, made, r.held \cup more)
  <2>0. made \in SUBSET Installments /\ more \in SUBSET B!Locks /\ B!Free(Scheduler, more)
    BY <1>1, <1>2, <1>3, <1>4, <1>5, <1>9 DEF B!Free
  <2>3. bReq' = [bReq EXCEPT ![Scheduler] = m]
    <3>1. r.held \cup rows \cup B!Numbering(r) = r.held \cup more  OBVIOUS
    <3> QED  BY <1>9, <3>1
  <2>4. m = RunOn(r, todo, made, r.held \cup more)  OBVIOUS
  <2>5. <<"sequence", "invoice">> \in more /\ \A j \in made : invoice[j].state = "none"
    BY <1>0, <1>5, <1>9 DEF MadeOK
  <2> HIDE DEF m, more, made
  <2>1. m.op = r.op /\ m.made = made /\ m.held = r.held \cup more  BY <1>0, <1>2, <1>4, <2>0, <2>4, RunOnType
  <2>2. MadeOK(m, invoice)  BY <1>0, <2>1, <2>5 DEF MadeOK
  <2> QED  BY <1>1, <1>7, <2>0, <2>2, <2>3, <2>4
<1> QED  BY <1>1, <1>6, <1>8, <1>9

LEMMA FailRunKeeps ==
  ASSUME BillInv, BillingRows, B!FailRun(Scheduler)
  PROVE  /\ BillInv' /\ UNCHANGED <<invoice, receipt>>
         /\ \A s \in Sessions : bReq'[s] = bReq[s]
<1>1. bReq' = [bReq EXCEPT ![Scheduler] = B!Idle] /\ UNCHANGED <<contract, invoice, receipt, day, done>>
  BY DEF B!FailRun
<1>2. BillInv'  BY <1>1, BillTables, SchedulerRequest, BillBack
<1> QED  BY <1>1, <1>2, BillTables, SchedulerRequest DEF B!Actors

LEMMA FinishRunKeeps ==
  ASSUME BillInv, BillingRows, B!FinishRun(Scheduler)
  PROVE  /\ BillInv' /\ AmountsStay /\ UNCHANGED receipt
         /\ \A s \in Sessions : bReq'[s] = bReq[s]
<1> DEFINE r == bReq[Scheduler]
<1>0. /\ r \in B!Requests /\ MadeOK(r, invoice) /\ Scheduler \in B!Actors /\ Scheduler \notin Sessions
      /\ BillRows(invoice, receipt)
  BY SchedulerRequest DEF BillInv
<1>1. /\ invoice' = [i \in Installments |-> IF i \in r.made THEN B!NewInvoice(i) ELSE invoice[i]]
      /\ done' = (done \/ r.today) /\ bReq' = [bReq EXCEPT ![Scheduler] = B!Idle]
      /\ UNCHANGED <<contract, receipt, day>>
  BY DEF B!FinishRun
<1>2. \A i \in Installments :
        /\ B!NewInvoice(i) \in B!InvoiceRows /\ B!NewInvoice(i).state # "none"
  BY NewInvoiceType
<1>3. \A i \in Installments : invoice'[i] = IF i \in r.made THEN B!NewInvoice(i) ELSE invoice[i]
  BY <1>1
<1>4. invoice' \in [Installments -> B!InvoiceRows]  BY <1>1, <1>2, BillTables
<1>5. done' \in BOOLEAN  BY <1>1, BillTables
<1>6. \A i \in r.made : invoice[i].state = "none"  BY <1>0 DEF MadeOK
<1> HIDE DEF r
<1>7. AmountsStay  BY <1>3, <1>6 DEF AmountsStay
<1>8. BillRows(invoice', receipt')
  <2>1. \A p \in Receipts : receipt[p].of \in Installments \cup {0}  BY BillTables DEF B!PaymentRows
  <2> QED  BY <1>0, <1>1, <1>2, <1>3, <2>1 DEF BillRows
<1>9. bReq'[Scheduler] = B!Idle  BY <1>0, <1>1, BillTables
<1>10. MadeOK(bReq'[Scheduler], invoice')  BY <1>9, BillIdle DEF MadeOK
<1>11. \A i \in Installments : invoice[i].state # "none" => invoice'[i].state # "none"  BY <1>2, <1>3
<1>12. \A t \in B!Actors \ {Scheduler} : B!Idle.held \cap bReq[t].held = {}  BY BillIdle
<1>13. receipt' \in [Receipts -> B!PaymentRows]  BY <1>1, BillTables
<1>14. /\ \A p \in Receipts : receipt[p].of # 0 => receipt'[p].of = receipt[p].of
       /\ \A p \in Receipts : receipt[p].state = "none" /\ <<"sequence", "pay">> \notin bReq[Scheduler].held =>
                              receipt'[p].state = "none"
  BY <1>1
<1>15. BillInv'
  BY <1>0, <1>1, <1>4, <1>5, <1>8, <1>10, <1>11, <1>12, <1>13, <1>14, BillIdle, BillStep
<1> QED  BY <1>0, <1>1, <1>7, <1>15, BillTables DEF B!Actors

(* A day passes: the requests stay as they are.                             *)
NotToday(r) == [r EXCEPT !.today = FALSE]

LEMMA NotTodayType ==
  ASSUME NEW r \in B!Requests, NEW m, m = NotToday(r)
  PROVE  /\ m \in B!Requests /\ m.op = r.op /\ m.of = r.of /\ m.id = r.id /\ m.amount = r.amount
         /\ m.stage = r.stage /\ m.row = r.row /\ m.sums = r.sums /\ m.made = r.made /\ m.held = r.held
<1>1. /\ m.op = r.op /\ m.of = r.of /\ m.id = r.id /\ m.amount = r.amount
      /\ m.stage = r.stage /\ m.row = r.row /\ m.sums = r.sums /\ m.todo = r.todo
      /\ m.made = r.made /\ m.today = FALSE /\ m.held = r.held /\ m = [f \in DOMAIN r |-> m[f]]
  BY DEF B!Requests, NotToday
<1> QED  BY <1>1, BillFields, BillRebuilt

LEMMA NextDayKeeps ==
  ASSUME BillInv, BillingRows, B!NextDay
  PROVE  /\ BillInv' /\ UNCHANGED <<invoice, receipt>>
         /\ \A s \in B!Actors : bReq'[s] = NotToday(bReq[s])
<1>1. /\ day' = (IF day < LastDue THEN day + 1 ELSE day) /\ done' = FALSE
      /\ UNCHANGED <<contract, invoice, receipt>>
      /\ bReq' = [s \in B!Actors |-> NotToday(bReq[s])]
  BY DEF B!NextDay, NotToday
<1>2. \A s \in B!Actors : bReq'[s] = NotToday(bReq[s])  BY <1>1
<1>3. \A s \in B!Actors :
        /\ bReq'[s] \in B!Requests /\ bReq'[s].op = bReq[s].op /\ bReq'[s].of = bReq[s].of
        /\ bReq'[s].id = bReq[s].id /\ bReq'[s].stage = bReq[s].stage
        /\ bReq'[s].made = bReq[s].made /\ bReq'[s].held = bReq[s].held
  BY <1>2, BillTables, NotTodayType
<1>4. bReq' \in [B!Actors -> B!Requests]
  <2>1. bReq' = [s \in B!Actors |-> bReq'[s]]  BY <1>1
  <2> QED  BY <1>3, <2>1
<1>5. day' \in 0..LastDue  BY <1>1, BillTables DEF BillingRows
<1>6. B!TypeOK'  BY <1>1, <1>4, <1>5, BillTables DEF B!TypeOK
<1>7. BillExclusion'
  <2>1. \A s, t \in B!Actors : s # t => bReq'[s].held \cap bReq'[t].held = {}
    BY <1>3 DEF BillInv, BillExclusion
  <2> QED  BY <2>1 DEF BillExclusion
<1>8. ASSUME NEW s \in Sessions PROVE BillOK(bReq'[s], invoice', receipt')
  <2>1. s \in B!Actors  BY DEF B!Actors
  <2>2. BillOK(bReq[s], invoice, receipt)  BY DEF BillInv
  <2> QED  BY <1>1, <1>3, <2>1, <2>2 DEF BillOK
<1>9. MadeOK(bReq'[Scheduler], invoice')  BY <1>1, <1>3, SchedulerRequest DEF MadeOK
<1>10. BillRows(invoice', receipt')  BY <1>1 DEF BillInv
<1> QED  BY <1>1, <1>2, <1>6, <1>7, <1>8, <1>9, <1>10 DEF BillInv

LEMMA BillBegins ==
  ASSUME BillInv, BillingRows, NEW s \in Sessions, B!Request(s)
  PROVE  /\ BillInv' /\ UNCHANGED <<invoice, receipt>>
         /\ \E m \in B!Requests : m.stage = 0 /\ bReq' = [bReq EXCEPT ![s] = m]
<1>0. /\ s \in B!Actors /\ s # Scheduler /\ BillRows(invoice, receipt)
      /\ 0 \in Receipts \cup {0} /\ 0 \in 0..MaxAmount /\ 1..MaxAmount \subseteq 0..MaxAmount
  BY DEF B!Actors, BillingRows, BillInv
<1>1. ASSUME NEW op \in B!AllEndpoints \ {"run"}, NEW i \in Installments, NEW p \in Receipts \cup {0},
             NEW a \in 0..MaxAmount, B!Begin(s, op, i, p, a),
             op \in OfInvoices => invoice[i].state # "none", op \in OfPayments => p \in Receipts,
             op \in {"cancelPayment", "refund"} => receipt[p].of = i
      PROVE  /\ BillInv' /\ UNCHANGED <<invoice, receipt>>
             /\ \E m \in B!Requests : m.stage = 0 /\ bReq' = [bReq EXCEPT ![s] = m]
  <2> DEFINE m == NewBill(op, i, p, a)
  <2>1. bReq' = [bReq EXCEPT ![s] = m] /\ UNCHANGED <<contract, invoice, receipt, day, done>>
    BY <1>1 DEF B!Begin, NewBill
  <2>2. m \in B!Requests /\ m.op = op /\ m.of = i /\ m.id = p /\ m.stage = 0 /\ m.held = {}
    <3>1. op \in B!AllEndpoints /\ m = NewBill(op, i, p, a)  OBVIOUS
    <3> HIDE DEF m
    <3> QED  BY <3>1, NewBillType
  <2> HIDE DEF m
  <2>3. BillOK(m, invoice, receipt)  BY <1>1, <2>2 DEF BillOK
  <2>4. \A t \in B!Actors \ {s} : m.held \cap bReq[t].held = {}  BY <2>2
  <2>5. BillInv'  BY <1>0, <2>1, <2>2, <2>3, <2>4, BillTables, BillAlone
  <2> QED  BY <2>1, <2>2, <2>5
<1>2. ASSUME NEW i \in Installments, NEW op \in {"invoice", "issue", "cancelInvoice"},
             op # "invoice" => invoice[i].state # "none", B!Begin(s, op, i, 0, 0)
      PROVE  /\ BillInv' /\ UNCHANGED <<invoice, receipt>>
             /\ \E m \in B!Requests : m.stage = 0 /\ bReq' = [bReq EXCEPT ![s] = m]
  <2>1. op \in B!AllEndpoints \ {"run"} /\ op \notin OfPayments /\ (op \in OfInvoices => invoice[i].state # "none")
    BY <1>2 DEF B!AllEndpoints, OfPayments, OfInvoices
  <2> QED  BY <1>0, <1>1, <1>2, <2>1
<1>3. ASSUME NEW i \in Installments, NEW p \in Receipts, NEW a \in 1..MaxAmount,
             invoice[i].state # "none", B!Begin(s, "pay", i, p, a)
      PROVE  /\ BillInv' /\ UNCHANGED <<invoice, receipt>>
             /\ \E m \in B!Requests : m.stage = 0 /\ bReq' = [bReq EXCEPT ![s] = m]
  <2>1. "pay" \in B!AllEndpoints \ {"run"}  BY DEF B!AllEndpoints
  <2>2. a \in 0..MaxAmount  BY <1>0
  <2> QED  BY <1>1, <1>3, <2>1, <2>2
<1>4. ASSUME NEW p \in Receipts, NEW op \in {"cancelPayment", "refund"}, NEW a \in 1..MaxAmount,
             receipt[p].state # "none", B!Begin(s, op, receipt[p].of, p, a)
      PROVE  /\ BillInv' /\ UNCHANGED <<invoice, receipt>>
             /\ \E m \in B!Requests : m.stage = 0 /\ bReq' = [bReq EXCEPT ![s] = m]
  <2> DEFINE i == receipt[p].of
  <2>1. receipt[p] \in B!PaymentRows  BY BillTables
  <2>2. i \in Installments /\ invoice[i].state # "none"
    BY <1>0, <1>4, <2>1 DEF BillRows, B!PaymentRows
  <2>3. op \in B!AllEndpoints \ {"run"}  BY DEF B!AllEndpoints
  <2>4. a \in 0..MaxAmount  BY <1>0
  <2>5. B!Begin(s, op, i, p, a) /\ receipt[p].of = i  BY <1>4
  <2> HIDE DEF i
  <2> QED  BY <1>1, <2>2, <2>3, <2>4, <2>5
<1> QED  BY <1>2, <1>3, <1>4 DEF B!Request

LEMMA DecideKeeps ==
  ASSUME BillInv, BillingRows, NEW u \in Subscriptions, NEW status \in {"APPROVED", "REJECTED"},
         B!Decide(u, status)
  PROVE  BillInv' /\ UNCHANGED <<invoice, receipt, bReq>>
<1>1. contract' = [contract EXCEPT ![u] = status] /\ UNCHANGED <<invoice, receipt, day, done, bReq>>
  BY DEF B!Decide
<1>2. B!TypeOK'  BY <1>1, BillTables DEF B!TypeOK
<1> QED  BY <1>1, <1>2 DEF BillInv, BillExclusion

LEMMA BillInit ==
  ASSUME BillingRows, B!Init PROVE BillInv
<1>1. 0 \in 0..MaxAmount /\ 0 \in 0..LastDue  BY DEF BillingRows
<1>2. /\ invoice = [i \in Installments |-> [state |-> "none", paid |-> 0, refunded |-> 0, balance |-> 0]]
      /\ receipt = [p \in Receipts |-> [state |-> "none", of |-> 0, amount |-> 0, refunded |-> 0]]
      /\ contract = [u \in Subscriptions |-> "SUBMITTED"] /\ day = 0 /\ done = FALSE
      /\ bReq = [s \in B!Actors |-> B!Idle]
  BY DEF B!Init
<1>3. B!TypeOK
  BY <1>1, <1>2, BillIdle DEF B!TypeOK, B!InvoiceRows, B!InvoiceStates, B!PaymentRows
<1>4. \A s \in B!Actors : bReq[s] = B!Idle  BY <1>2
<1>5. BillExclusion  BY <1>4, BillIdle DEF BillExclusion
<1>6. BillRows(invoice, receipt)  BY <1>2 DEF BillRows
<1>7. \A s \in Sessions : BillOK(bReq[s], invoice, receipt)
  BY <1>4, BillIdle DEF BillOK, OfInvoices, OfPayments, B!Actors
<1>8. MadeOK(bReq[Scheduler], invoice)  BY <1>4, BillIdle DEF MadeOK, B!Actors
<1> QED  BY <1>3, <1>5, <1>6, <1>7, <1>8 DEF BillInv

LEMMA BillNext == ASSUME BillInv, BillingRows, [B!Next]_B!vars PROVE BillInv'
<1>1. CASE UNCHANGED B!vars
  <2>1. UNCHANGED <<contract, invoice, receipt, day, done, bReq>>  BY <1>1 DEF B!vars
  <2>2. B!TypeOK'  BY <2>1, BillTables DEF B!TypeOK
  <2> QED  BY <2>1, <2>2 DEF BillInv, BillExclusion
<1>2. ASSUME NEW s \in Sessions, B!Rollback(s) PROVE BillInv'
  BY <1>2, BillRequested, BillTables, BillBack DEF B!Rollback
<1>3. CASE B!Automation
  BY <1>3, StartRunKeeps, RunInstallmentKeeps, FailRunKeeps, FinishRunKeeps DEF B!Automation
<1> QED
  BY <1>1, <1>2, <1>3, BillBegins, BillRead, BillSum, BillStore, InvoiceKeeps, NextDayKeeps, DecideKeeps
  DEF B!Next

(* What the installments, their payments and the requests are; the numbers  *)
(* that nextSequenceValue gives are taken by one request at a time.         *)
THEOREM InstallmentTypes ==
  ASSUME BillingRows PROVE B!Spec => [](B!TypeOK /\ BillExclusion)
<1>1. B!Spec => []BillInv
  <2>1. B!Init => BillInv  BY BillInit
  <2>2. BillInv /\ [B!Next]_B!vars => BillInv'  BY BillNext
  <2> QED  BY <2>1, <2>2, PTL DEF B!Spec
<1>2. BillInv => B!TypeOK /\ BillExclusion  BY DEF BillInv
<1> QED  BY <1>1, <1>2, PTL

-----------------------------------------------------------------------------
(* The amounts of an invoice are those of its payments.                     *)

(* What a request has summed is what its invoice will hold of the payments. *)
SummedOK(r, rows) ==
  r.stage = 2 => r.sums = <<Paid(r.of, After(r, rows)), Refunded(r.of, After(r, rows))>>

Follows(bills, rows) ==
  \A i \in Installments :
    bills[i].state # "none" =>
      /\ bills[i].paid = Paid(i, rows) /\ bills[i].refunded = Refunded(i, rows)
      /\ bills[i].balance = Balance(i, Paid(i, rows), Refunded(i, rows))

BalanceInv == Follows(invoice, receipt) /\ \A s \in Sessions : SummedOK(bReq[s], receipt)

(* Two requests that have summed the payments of one invoice at once both   *)
(* pay, or both refund: nobody cancels a payment meanwhile.                 *)
SummedAlike ==
  \A s, t \in Sessions :
    s # t /\ bReq[s].stage = 2 /\ bReq[t].stage = 2 /\ bReq[s].of = bReq[t].of
      => bReq[s].op = bReq[t].op /\ bReq[s].op # "cancelPayment"

(* The payments stay, and so do the amounts of the invoices.                *)
LEMMA BalanceStays ==
  ASSUME BillInv, BillingRows, BalanceInv, AmountsStay, UNCHANGED receipt,
         \A s \in Sessions : bReq'[s].stage = 2 => SummedOK(bReq'[s], receipt)
  PROVE  BalanceInv'
<1>1. ASSUME NEW i \in Installments, invoice[i].state = "none", invoice'[i] = B!NewInvoice(i)
      PROVE  /\ invoice'[i].paid = Paid(i, receipt) /\ invoice'[i].refunded = Refunded(i, receipt)
             /\ invoice'[i].balance = Balance(i, Paid(i, receipt), Refunded(i, receipt))
  <2>1. \A p \in Receipts : receipt[p].of # i  BY <1>1 DEF BillInv, BillRows, BillingRows
  <2>2. Paid(i, receipt) = 0 /\ Refunded(i, receipt) = 0  BY <2>1, NothingPaid
  <2>3. Balance(i, 0, 0) = Owed[i]  BY DEF Balance, BillingRows
  <2> QED  BY <1>1, <2>2, <2>3, NewInvoiceType
<1>2. Follows(invoice', receipt)
  <2> SUFFICES ASSUME NEW i \in Installments, invoice'[i].state # "none"
               PROVE  /\ invoice'[i].paid = Paid(i, receipt) /\ invoice'[i].refunded = Refunded(i, receipt)
                      /\ invoice'[i].balance = Balance(i, Paid(i, receipt), Refunded(i, receipt))
    BY DEF Follows
  <2>1. CASE invoice[i].state = "none" /\ invoice'[i] = B!NewInvoice(i)  BY <1>1, <2>1
  <2>2. CASE ~(invoice[i].state = "none" /\ invoice'[i] = B!NewInvoice(i))
    <3>1. /\ invoice'[i].paid = invoice[i].paid /\ invoice'[i].refunded = invoice[i].refunded
          /\ invoice'[i].balance = invoice[i].balance /\ invoice[i].state # "none"
      BY <2>2 DEF AmountsStay
    <3> QED  BY <3>1 DEF BalanceInv, Follows
  <2> QED  BY <2>1, <2>2
<1>3. \A s \in Sessions : SummedOK(bReq'[s], receipt)  BY DEF SummedOK
<1> QED  BY <1>2, <1>3 DEF BalanceInv

LEMMA SameAmounts == ASSUME UNCHANGED invoice PROVE AmountsStay  BY DEF AmountsStay

(* A payment is stored.                                                     *)
LEMMA BalanceStored ==
  ASSUME BillInv, BillInv', BillingRows, BalanceInv, SummedAlike, NEW s \in Sessions, B!StorePayment(s)
  PROVE  BalanceInv'
<1> DEFINE r == bReq[s]
           new == WrittenBill(r, receipt[r.id])
           row == B!Refreshed(r.of, invoice[r.of], r.sums)
<1>0. /\ r.op \in OfPayments /\ r.stage = 2 /\ receipt' = After(r, receipt)
      /\ invoice' = [invoice EXCEPT ![r.of] = row] /\ bReq' = [bReq EXCEPT ![s] = B!Idle]
  BY BillStore
<1>1. /\ r \in B!Requests /\ BillOK(r, invoice, receipt) /\ s \in B!Actors /\ BillRows(invoice, receipt)
  BY BillRequested DEF BillInv
<1>2. /\ After(r, receipt) \in [Receipts -> B!PaymentRows] /\ new.of = r.of
      /\ r.id \in Receipts /\ r.of \in Installments
  BY <1>0, AfterType
<1>3. \A p \in Receipts : receipt'[p] = IF p = r.id THEN new ELSE receipt[p]
  BY <1>0, <1>2, BillTables DEF After
<1>4. \A i \in Installments : invoice'[i] = IF i = r.of THEN row ELSE invoice[i]
  BY <1>0, <1>2, BillTables
<1>5. receipt[r.id].of \in {0, r.of} /\ r.of # 0 /\ (r.op = "pay" => receipt[r.id].of = 0)
  BY <1>0, <1>1, <1>2 DEF BillOK, BillRows, OfPayments, BillingRows
<1>6. receipt \in [Receipts -> B!PaymentRows] /\ receipt' \in [Receipts -> B!PaymentRows]
  BY <1>0, <1>2, BillTables
<1>7. /\ row.paid = r.sums[1] /\ row.refunded = r.sums[2] /\ row.balance = Balance(r.of, r.sums[1], r.sums[2])
  <2>1. invoice[r.of] \in B!InvoiceRows /\ r.sums \in Nat \X Nat  BY <1>1, <1>2, BillTables, BillFields
  <2> HIDE DEF r
  <2> QED  BY <1>2, <2>1, RefreshedType
<1>8. r.sums[1] = Paid(r.of, receipt') /\ r.sums[2] = Refunded(r.of, receipt')
  BY <1>0 DEF BalanceInv, SummedOK
<1>9. \A t \in Sessions : bReq'[t] = IF t = s THEN B!Idle ELSE bReq[t]
  BY <1>0, <1>1, BillTables DEF B!Actors
<1> HIDE DEF row, new
<1>10. Follows(invoice', receipt')
  <2> SUFFICES ASSUME NEW i \in Installments, invoice'[i].state # "none"
               PROVE  /\ invoice'[i].paid = Paid(i, receipt') /\ invoice'[i].refunded = Refunded(i, receipt')
                      /\ invoice'[i].balance = Balance(i, Paid(i, receipt'), Refunded(i, receipt'))
    BY DEF Follows
  <2>1. CASE i = r.of  BY <1>4, <1>7, <1>8, <2>1
  <2>2. CASE i # r.of
    <3>0. i # 0  BY DEF BillingRows
    <3>1. \A p \in Receipts : receipt[p].of = i \/ receipt'[p].of = i => receipt[p] = receipt'[p]
      BY <1>2, <1>3, <1>5, <2>2, <3>0
    <3>2. Paid(i, receipt') = Paid(i, receipt) /\ Refunded(i, receipt') = Refunded(i, receipt)
      BY <1>6, <3>1, SameTotals
    <3>3. invoice'[i] = invoice[i]  BY <1>4, <2>2
    <3> QED  BY <3>2, <3>3 DEF BalanceInv, Follows
  <2> QED  BY <2>1, <2>2
<1>11. ASSUME NEW t \in Sessions PROVE SummedOK(bReq'[t], receipt')
  <2>1. CASE t = s  BY <1>9, <2>1, BillIdle DEF SummedOK
  <2>2. CASE t # s /\ bReq[t].stage = 2
    <3> DEFINE q == bReq[t]
               mine == WrittenBill(q, receipt[q.id])
    <3>1. /\ q \in B!Requests /\ BillOK(q, invoice, receipt) /\ q.op \in OfPayments /\ t \in B!Actors
          /\ SummedOK(q, receipt) /\ q.stage = 2
      BY <2>2, BillRequested DEF BillOK, BalanceInv
    <3>2. /\ After(q, receipt) \in [Receipts -> B!PaymentRows] /\ mine.of = q.of
          /\ q.id \in Receipts /\ q.of \in Installments
      BY <3>1, AfterType
    <3>3. r.op # q.op \/ r.op = "cancelPayment"
      BY <1>0, <1>1, <2>2, <3>1 DEF BillOK, BillInv, BillExclusion, OfPayments
    <3>4. q.of # r.of  BY <1>0, <2>2, <3>1, <3>3 DEF SummedAlike, OfPayments
    <3>5. receipt[q.id].of \in {0, q.of} /\ q.of # 0 /\ (q.op # "pay" => receipt[q.id].of = q.of)
      BY <1>1, <3>1, <3>2 DEF BillOK, BillRows, OfPayments, BillingRows
    <3>6. q.id # r.id
      BY <1>0, <1>1, <1>5, <3>1, <3>3, <3>4, <3>5 DEF BillOK, OfPayments
    <3>7. After(q, receipt') \in [Receipts -> B!PaymentRows]
      <4>1. bReq'[t] = q /\ t \in Sessions  BY <1>9, <2>2
      <4>2. receipt'[q.id] = receipt[q.id]  BY <1>3, <3>2, <3>6
      <4>3. mine \in B!PaymentRows  BY <3>1, <3>2, BillTables DEF After
      <4> QED  BY <1>6, <3>2, <4>2, <4>3 DEF After
    <3>8. \A p \in Receipts : /\ After(q, receipt)[p] = IF p = q.id THEN mine ELSE receipt[p]
                              /\ After(q, receipt')[p] = IF p = q.id THEN mine ELSE receipt'[p]
      <4>1. receipt'[q.id] = receipt[q.id]  BY <1>3, <3>2, <3>6
      <4> QED  BY <1>6, <3>2, <4>1 DEF After
    <3> HIDE DEF mine, q
    <3>9. \A p \in Receipts : After(q, receipt)[p].of = q.of \/ After(q, receipt')[p].of = q.of
                              => After(q, receipt)[p] = After(q, receipt')[p]
      BY <1>2, <1>3, <1>5, <3>4, <3>5, <3>8
    <3>10. /\ Paid(q.of, After(q, receipt')) = Paid(q.of, After(q, receipt))
           /\ Refunded(q.of, After(q, receipt')) = Refunded(q.of, After(q, receipt))
      BY <3>2, <3>7, <3>9, SameTotals
    <3>11. bReq'[t] = q  BY <1>9, <2>2 DEF q
    <3> QED  BY <3>1, <3>10, <3>11 DEF SummedOK
  <2>3. CASE t # s /\ bReq[t].stage # 2  BY <1>9, <2>3 DEF SummedOK
  <2> QED  BY <2>1, <2>2, <2>3
<1> QED  BY <1>10, <1>11 DEF BalanceInv

LEMMA BalanceNext ==
  ASSUME BillInv, BillInv', BillingRows, BalanceInv, SummedAlike, [B!Next]_B!vars PROVE BalanceInv'
<1>1. ASSUME UNCHANGED <<invoice, receipt>>, \A s \in Sessions : bReq'[s].stage = 2 => SummedOK(bReq'[s], receipt)
      PROVE  BalanceInv'
  BY <1>1, SameAmounts, BalanceStays
<1>2. ASSUME AmountsStay, UNCHANGED receipt, \A s \in Sessions : bReq'[s] \in {bReq[s], B!Idle}
      PROVE  BalanceInv'
  <2>1. \A s \in Sessions : bReq'[s].stage = 2 => SummedOK(bReq'[s], receipt)
    BY <1>2, BillIdle DEF BalanceInv
  <2> QED  BY <1>2, <2>1, BalanceStays
<1>3. ASSUME NEW s \in Sessions, NEW m, m.stage = 2 => SummedOK(m, receipt), bReq' = [bReq EXCEPT ![s] = m],
             UNCHANGED <<invoice, receipt>>
      PROVE  BalanceInv'
  <2>1. \A t \in Sessions : bReq'[t] = IF t = s THEN m ELSE bReq[t]  BY <1>3, BillTables DEF B!Actors
  <2> QED  BY <1>1, <1>3, <2>1 DEF BalanceInv
<1>4. CASE UNCHANGED B!vars
  <2>1. UNCHANGED <<invoice, receipt, bReq>>  BY <1>4 DEF B!vars
  <2> QED  BY <1>1, <2>1 DEF BalanceInv
<1>5. ASSUME NEW s \in Sessions, B!Request(s) PROVE BalanceInv'
  <2>1. UNCHANGED <<invoice, receipt>>  BY <1>5, BillBegins
  <2>2. PICK m \in B!Requests : m.stage = 0 /\ bReq' = [bReq EXCEPT ![s] = m]  BY <1>5, BillBegins
  <2>3. m.stage = 2 => SummedOK(m, receipt)  BY <2>2
  <2> QED  BY <1>3, <2>1, <2>2, <2>3
<1>6. ASSUME NEW s \in Sessions, B!ReadRow(s) PROVE BalanceInv'
  <2>1. UNCHANGED <<invoice, receipt>>  BY <1>6 DEF B!ReadRow, B!Advance
  <2>2. \E m \in B!Requests : m.stage = 1 /\ bReq' = [bReq EXCEPT ![s] = m]  BY <1>6, BillRead
  <2>3. PICK m \in B!Requests : m.stage = 1 /\ bReq' = [bReq EXCEPT ![s] = m]  BY <2>2
  <2>4. m.stage = 2 => SummedOK(m, receipt)  BY <2>3
  <2> QED  BY <1>3, <2>1, <2>3, <2>4
<1>7. ASSUME NEW s \in Sessions, B!SumPayments(s) PROVE BalanceInv'
  <2> DEFINE r == bReq[s]
  <2>1. UNCHANGED <<invoice, receipt>> /\ r.op \in OfPayments  BY <1>7, BillSum
  <2>2. PICK m \in B!Requests :
          /\ bReq' = [bReq EXCEPT ![s] = m] /\ m.op = r.op /\ m.of = r.of /\ m.id = r.id /\ m.amount = r.amount
          /\ m.sums = <<Paid(r.of, After(r, receipt)), Refunded(r.of, After(r, receipt))>>
    BY <1>7, BillSum
  <2> HIDE DEF r
  <2>3. After(m, receipt) = After(r, receipt)  BY <2>2 DEF After, WrittenBill
  <2>4. SummedOK(m, receipt)  BY <2>2, <2>3 DEF SummedOK
  <2> QED  BY <1>3, <2>1, <2>2, <2>4
<1>8. ASSUME NEW s \in Sessions, B!StorePayment(s) PROVE BalanceInv'  BY <1>8, BalanceStored
<1>9. ASSUME NEW s \in Sessions, B!Rollback(s) PROVE BalanceInv'
  <2>1. bReq' = [bReq EXCEPT ![s] = B!Idle] /\ UNCHANGED <<invoice, receipt>>  BY <1>9 DEF B!Rollback
  <2>2. B!Idle.stage = 2 => SummedOK(B!Idle, receipt)  BY BillIdle
  <2> QED  BY <1>3, <2>1, <2>2
<1>10. ASSUME NEW s \in Sessions, B!IssueInvoice(s) \/ B!CancelInvoice(s) \/ B!GenerateInvoice(s)
       PROVE  BalanceInv'
  <2>1. AmountsStay /\ bReq' = [bReq EXCEPT ![s] = B!Idle] /\ UNCHANGED receipt  BY <1>10, InvoiceKeeps
  <2>2. \A t \in Sessions : bReq'[t] \in {bReq[t], B!Idle}  BY <2>1, BillTables DEF B!Actors
  <2> QED  BY <1>2, <2>1, <2>2
<1>11. CASE B!Automation
  <2>1. AmountsStay /\ UNCHANGED receipt /\ \A s \in Sessions : bReq'[s] = bReq[s]
    BY <1>11, SameAmounts, StartRunKeeps, RunInstallmentKeeps, FailRunKeeps, FinishRunKeeps DEF B!Automation
  <2> QED  BY <1>2, <2>1
<1>12. CASE B!NextDay
  <2>1. UNCHANGED <<invoice, receipt>>  BY <1>12, NextDayKeeps
  <2>2. ASSUME NEW s \in Sessions, bReq'[s].stage = 2 PROVE SummedOK(bReq'[s], receipt)
    <3>1. bReq'[s] = NotToday(bReq[s]) /\ bReq[s] \in B!Requests  BY <1>12, NextDayKeeps, BillRequested
    <3> DEFINE m == bReq'[s]
               r == bReq[s]
    <3>2. m.op = r.op /\ m.of = r.of /\ m.id = r.id /\ m.amount = r.amount /\ m.stage = r.stage /\ m.sums = r.sums
      BY <3>1, NotTodayType
    <3>3. SummedOK(r, receipt)  BY DEF BalanceInv
    <3> HIDE DEF m, r
    <3>4. After(m, receipt) = After(r, receipt)  BY <3>2 DEF After, WrittenBill
    <3>5. SummedOK(m, receipt)  BY <3>2, <3>3, <3>4 DEF SummedOK
    <3> QED  BY <3>5 DEF m
  <2> QED  BY <1>1, <2>1, <2>2
<1>13. ASSUME NEW u \in Subscriptions, NEW status \in {"APPROVED", "REJECTED"}, B!Decide(u, status)
       PROVE  BalanceInv'
  <2>1. UNCHANGED <<invoice, receipt, bReq>>  BY <1>13, DecideKeeps
  <2> QED  BY <1>1, <2>1 DEF BalanceInv
<1> QED
  BY <1>4, <1>5, <1>6, <1>7, <1>8, <1>9, <1>10, <1>11, <1>12, <1>13 DEF B!Next

(* The amounts of an invoice are those of its payments, whichever payments  *)
(* are made at once: they queue for their numbers before they sum, and      *)
(* store before the next one sums (refreshInvoiceAggregates).  A payment, a *)
(* refund and a cancellation do not queue behind each other: where two of   *)
(* them have summed one invoice at once, the last to store loses the other. *)
THEOREM AmountsFollow ==
  ASSUME BillingRows PROVE B!Spec /\ []SummedAlike => []InvoiceFollowsPayments
<1>1. B!Spec => []BillInv
  <2>1. B!Init => BillInv  BY BillInit
  <2>2. BillInv /\ [B!Next]_B!vars => BillInv'  BY BillNext
  <2> QED  BY <2>1, <2>2, PTL DEF B!Spec
<1>2. B!Init => BalanceInv
  <2> SUFFICES ASSUME B!Init PROVE BalanceInv  OBVIOUS
  <2>1. \A i \in Installments : invoice[i].state = "none"  BY DEF B!Init
  <2>2. \A s \in Sessions : bReq[s] = B!Idle  BY DEF B!Init, B!Actors
  <2> QED  BY <2>1, <2>2, BillIdle DEF BalanceInv, Follows, SummedOK
<1>3. BillInv /\ BillInv' /\ BalanceInv /\ SummedAlike /\ [B!Next]_B!vars => BalanceInv'
  BY BalanceNext
<1>4. BalanceInv => InvoiceFollowsPayments  BY DEF BalanceInv, Follows, InvoiceFollowsPayments
<1> QED  BY <1>1, <1>2, <1>3, <1>4, PTL DEF B!Spec
=============================================================================

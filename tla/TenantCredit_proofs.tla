-------------------------- MODULE TenantCredit_proofs --------------------------
(***************************************************************************)
(* Proofs about TenantCredit, for any sessions, credits, refunds, invoices  *)
(* and bills: every row and request keeps its type, no credit is used       *)
(* twice, the oldest is drawn first, and the cash books and invoices follow *)
(* the credits.                                                             *)
(*                                                                          *)
(* OldestFirstIsEnough is about the drawing rule alone, by induction on the *)
(* credits from the oldest.  IInv is the types with what ties the tables    *)
(* together: a draw or a refund is of a credit that was received, and an    *)
(* invoice is issued by one request, which finds none of its draws there.   *)
(***************************************************************************)
EXTENDS TenantCredit, Sums

-----------------------------------------------------------------------------
(* What an invoice takes from the credits, oldest first.                    *)

(* take is what an invoice of this total draws from the credits S, each of  *)
(* which has so much left: a credit gives what the older ones leave to pay, *)
(* as far as it goes.                                                       *)
OldestGivesFirst(S, left, total, take) ==
  /\ S \subseteq Nat /\ IsFiniteSet(S) /\ total \in Nat
  /\ \A c \in S :
       /\ left[c] \in Nat
       /\ take[c] = AtMost(left[c], AtLeast0(total - SumFunctionOnSet(left, {d \in S : d < c})))

(* Together the credits never give more than the total.                     *)
LEMMA OldestFirstIsEnough ==
  ASSUME NEW S, NEW left, NEW total, NEW take, OldestGivesFirst(S, left, total, take)
  PROVE  SumFunctionOnSet(take, S) <= total
<1> DEFINE Oldest(B) == \A c \in B, d \in S : d < c => d \in B
           Paid(B) == SumFunctionOnSet(take, B) = AtMost(total, SumFunctionOnSet(left, B))
           T == {n \in Nat : \A B \in SUBSET S : Cardinality(B) = n /\ Oldest(B) => Paid(B)}
<1>a. S \subseteq Nat /\ IsFiniteSet(S) /\ total \in Nat  BY DEF OldestGivesFirst
<1>b. \A c \in S : left[c] \in Nat  BY DEF OldestGivesFirst
<1>0. \A B \in SUBSET S : IsFiniteSet(B) /\ Cardinality(B) \in Nat
  BY <1>a, FS_Subset, FS_CardinalityType
<1>1. 0 \in T
  <2>1. SumFunctionOnSet(take, {}) = 0 /\ SumFunctionOnSet(left, {}) = 0  BY SumEmpty
  <2>2. \A B \in SUBSET S : Cardinality(B) = 0 => B = {}  BY <1>0, FS_EmptySet
  <2>3. Paid({})  BY <1>a, <2>1 DEF AtMost
  <2> QED  BY <2>2, <2>3
<1>2. ASSUME NEW n \in Nat, n \in T PROVE n + 1 \in T
  <2>1. ASSUME NEW B \in SUBSET S, Cardinality(B) = n + 1, Oldest(B) PROVE Paid(B)
    <3>1. IsFiniteSet(B) /\ B \subseteq Int /\ B # {}  BY <1>0, <1>a, <2>1, FS_EmptySet
    <3>2. PICK m \in B : \A k \in B : k <= m  BY <3>1, LargestNumber
    <3> DEFINE C == B \ {m}
    <3>3. Cardinality(C) = n /\ C \in SUBSET S  BY <1>0, <2>1, <3>2, SmallerSet
    <3>4. m \in Nat /\ B \subseteq Nat  BY <1>a, <3>2
    <3>5. Oldest(C)
      <4> SUFFICES ASSUME NEW c \in C, NEW d \in S, d < c PROVE d \in C
        OBVIOUS
      <4>1. d \in B /\ c <= m /\ c \in Nat /\ d \in Nat  BY <1>a, <2>1, <3>2, <3>4
      <4>2. d # m  BY <4>1, <3>4
      <4> QED  BY <4>1, <4>2
    <3>6. Paid(C)  BY <1>2, <3>3, <3>5
    <3>7. {d \in S : d < m} = C
      <4>1. ASSUME NEW d \in S, d < m PROVE d \in C
        <5>1. d \in B  BY <2>1, <3>2, <4>1
        <5>2. d # m  BY <4>1, <3>4
        <5> QED  BY <5>1, <5>2
      <4>2. ASSUME NEW d \in C PROVE d < m
        <5>1. d <= m /\ d # m /\ d \in Nat  BY <1>a, <3>2, <3>4
        <5> QED  BY <5>1, <3>4
      <4>3. C \subseteq S  BY <3>3
      <4> HIDE DEF C
      <4> QED  BY <4>1, <4>2, <4>3
    <3>8. take[m] = AtMost(left[m], AtLeast0(total - SumFunctionOnSet(left, C)))
      <4> HIDE DEF C
      <4> QED  BY <3>7, <3>2 DEF OldestGivesFirst
    <3>9. SumFunctionOnSet(left, C) \in Nat
      <4>1. IsFiniteSet(C) /\ \A c \in C : left[c] \in Nat  BY <1>0, <1>b, <3>3
      <4> HIDE DEF C
      <4> QED  BY <4>1, SumNat
    <3>10. \A c \in B : take[c] \in Nat /\ left[c] \in Nat
      <4> SUFFICES ASSUME NEW c \in B PROVE take[c] \in Nat /\ left[c] \in Nat
        OBVIOUS
      <4> DEFINE D == {d \in S : d < c}
                 older == SumFunctionOnSet(left, D)
      <4>1. D \subseteq S /\ IsFiniteSet(D)  BY <1>0
      <4>2. older \in Nat
        <5>1. \A d \in D : left[d] \in Nat  BY <1>b
        <5> HIDE DEF D
        <5> QED  BY <4>1, <5>1, SumNat
      <4>3. take[c] = AtMost(left[c], AtLeast0(total - older)) /\ left[c] \in Nat
        BY DEF OldestGivesFirst
      <4> HIDE DEF older
      <4> QED  BY <1>a, <4>2, <4>3 DEF AtMost, AtLeast0
    <3>11. SumFunctionOnSet(take, B) = take[m] + SumFunctionOnSet(take, C)
      <4>1. \A c \in B : take[c] \in Int  BY <3>10
      <4>2. SumFunctionOnSet(take, B) = take[m] + SumFunctionOnSet(take, B \ {m})
        <5> HIDE DEF C, T, Paid, Oldest
        <5>1. IsFiniteSet(B) /\ m \in B  BY <3>1, <3>2
        <5> QED  BY <4>1, <5>1, SumTakeOne
      <4> QED  BY <4>2
    <3>12. SumFunctionOnSet(left, B) = left[m] + SumFunctionOnSet(left, C)
      <4>1. \A c \in B : left[c] \in Int  BY <3>10
      <4>2. SumFunctionOnSet(left, B) = left[m] + SumFunctionOnSet(left, B \ {m})
        <5> HIDE DEF C, T, Paid, Oldest
        <5>1. IsFiniteSet(B) /\ m \in B  BY <3>1, <3>2
        <5> QED  BY <4>1, <5>1, SumTakeOne
      <4> QED  BY <4>2
    <3> HIDE DEF C
    <3>13. left[m] \in Nat  BY <1>b, <3>2
    <3> QED  BY <1>a, <3>6, <3>8, <3>9, <3>11, <3>12, <3>13 DEF AtMost, AtLeast0
  <2> HIDE DEF Oldest, Paid
  <2> QED  BY <2>1
<1> HIDE DEF T
<1>3. Cardinality(S) \in T  BY <1>0, <1>1, <1>2, SetInduction
<1>4. Oldest(S)  OBVIOUS
<1>5. SumFunctionOnSet(take, S) = AtMost(total, SumFunctionOnSet(left, S))  BY <1>3, <1>4 DEF T
<1>6. SumFunctionOnSet(left, S) \in Nat  BY <1>a, <1>b, SumNat
<1> QED  BY <1>a, <1>5, <1>6 DEF AtMost

-----------------------------------------------------------------------------
(* The inductive invariant.                                                 *)

LockingEndpoints == AllEndpoints \ {"create", "removeDraw", "restoreDraw"}

(* A draw is on an invoice that was issued and of a credit that was         *)
(* received, and so is a refund.                                            *)
RowsOK ==
  /\ \A f \in Refunds : refund[f].state # "none" =>
       refund[f].credit \in Credits /\ credit[refund[f].credit].state # "none"
  /\ \A c \in Credits, i \in Invoices : drawn[c][i].amount # 0 =>
       invoice[i].state = "live" /\ credit[c].state # "none"

TablesOK ==
  /\ credit \in [Credits -> CreditRows]
  /\ refund \in [Refunds -> RefundRows]
  /\ drawn \in [Credits -> [Invoices -> Draws]]
  /\ invoice \in [Invoices -> InvoiceRows]
  /\ RowsOK

(* A request names the rows it was made for.                                *)
RequestOK(r) ==
  /\ r.op \in LockingEndpoints \cup {"none"}
  /\ r.op # "none" => r.op \in Endpoints
  /\ r.op = "issue" => \E i \in Invoices, b \in Bills : r.invoice = {i} /\ r.bill = {b}
  /\ r.op # "issue" => r.invoice = {}
  /\ r.op \notin {"none", "issue"} => r.credit \in Credits
  /\ r.op \in {"trashRefund", "restoreRefund"} => r.refund \in Refunds /\ r.seen \in Nat

(* An invoice is issued by one request, and is not yet there.               *)
RequestsOK ==
  /\ req \in [Sessions -> Requests]
  /\ \A s \in Sessions :
       /\ RequestOK(req[s])
       /\ \A i \in req[s].invoice : invoice[i].state = "absent"
       /\ \A t \in Sessions \ {s} : req[s].invoice \cap req[t].invoice = {}

IInv == TablesOK /\ RequestsOK

LEMMA InitHolds == Init => IInv
<1> SUFFICES ASSUME Init PROVE IInv
  OBVIOUS
<1>1. Idle \in Requests /\ RequestOK(Idle) /\ Idle.invoice = {}
  BY AmountAssumption DEF Idle, Requests, RequestOK, Amounts, CreditStatuses
<1>2. \A s \in Sessions : req[s] = Idle  BY DEF Init
<1>3. RequestsOK  BY <1>1, <1>2 DEF Init, RequestsOK
<1>4. 0 \in Amounts  BY AmountAssumption DEF Amounts
<1>5. credit \in [Credits -> CreditRows]  BY <1>4 DEF Init, CreditRows, CreditStatuses
<1>6. refund \in [Refunds -> RefundRows]  BY <1>4 DEF Init, RefundRows
<1>7. drawn \in [Credits -> [Invoices -> Draws]]  BY <1>4 DEF Init, Draws
<1>8. invoice \in [Invoices -> InvoiceRows]  BY DEF Init, InvoiceRows, InvoiceStatuses
<1>9. RowsOK  BY DEF Init, RowsOK
<1> QED  BY <1>3, <1>5, <1>6, <1>7, <1>8, <1>9 DEF IInv, TablesOK

-----------------------------------------------------------------------------
(* Requests.                                                                *)

LEMMA Fields ==
  ASSUME NEW n \in Requests
  PROVE  /\ n.op \in AllEndpoints \cup {"none"} /\ n.stage \in 0..3
         /\ n.credit \in Credits \cup {0} /\ n.refund \in Refunds \cup {0}
         /\ n.amount \in Amounts /\ n.invoice \in SUBSET Invoices /\ n.bill \in SUBSET Bills
         /\ n.candidates \in SUBSET Credits /\ n.held \in SUBSET RowLocks
         /\ n.seen \in Int /\ n.label \in CreditStatuses
BY Zenon DEF Requests

LEMMA RequestType ==
  ASSUME NEW op \in AllEndpoints \cup {"none"}, NEW stage \in 0..3, NEW c \in Credits \cup {0},
         NEW f \in Refunds \cup {0}, NEW amount \in Amounts, NEW is \in SUBSET Invoices,
         NEW bs \in SUBSET Bills, NEW cs \in SUBSET Credits, NEW held \in SUBSET RowLocks,
         NEW seen \in Int, NEW label \in CreditStatuses
  PROVE  [op |-> op, stage |-> stage, credit |-> c, refund |-> f, amount |-> amount,
          invoice |-> is, bill |-> bs, candidates |-> cs, held |-> held, seen |-> seen,
          label |-> label] \in Requests
BY Zenon DEF Requests

(* What a request is like after its next lock statement.                    *)
Advanced(r, stage, held, seen, label) ==
  [r EXCEPT !.stage = stage, !.held = held, !.seen = seen, !.label = label]

LEMMA NextStage ==
  ASSUME NEW r \in Requests, NEW stage \in 0..3, NEW held \in SUBSET RowLocks,
         NEW seen \in Int, NEW label \in CreditStatuses,
         NEW m, m = Advanced(r, stage, held, seen, label)
  PROVE  /\ m \in Requests
         /\ m.stage = stage /\ m.held = held /\ m.seen = seen /\ m.label = label
         /\ m.op = r.op /\ m.credit = r.credit /\ m.refund = r.refund /\ m.amount = r.amount
         /\ m.invoice = r.invoice /\ m.bill = r.bill /\ m.candidates = r.candidates
<1>1. /\ m.stage = stage /\ m.held = held /\ m.seen = seen /\ m.label = label
      /\ m.op = r.op /\ m.credit = r.credit /\ m.refund = r.refund /\ m.amount = r.amount
      /\ m.invoice = r.invoice /\ m.bill = r.bill /\ m.candidates = r.candidates
      /\ m = [f \in DOMAIN r |-> m[f]]
  BY DEF Requests, Advanced
<1>2. m = [op |-> m.op, stage |-> m.stage, credit |-> m.credit, refund |-> m.refund,
           amount |-> m.amount, invoice |-> m.invoice, bill |-> m.bill,
           candidates |-> m.candidates, held |-> m.held, seen |-> m.seen, label |-> m.label]
  <2>1. DOMAIN r = {"op", "stage", "credit", "refund", "amount", "invoice", "bill",
                    "candidates", "held", "seen", "label"}
    BY DEF Requests
  <2> QED  BY <1>1, <2>1
<1>3. [op |-> r.op, stage |-> stage, credit |-> r.credit, refund |-> r.refund,
       amount |-> r.amount, invoice |-> r.invoice, bill |-> r.bill,
       candidates |-> r.candidates, held |-> held, seen |-> seen, label |-> label] \in Requests
  BY ZenonT(60), Fields, RequestType
<1> QED  BY <1>1, <1>2, <1>3

LEMMA IdleRequest == Idle \in Requests /\ RequestOK(Idle) /\ Idle.invoice = {} /\ Idle.op = "none"
BY AmountAssumption DEF Idle, Requests, RequestOK, Amounts, CreditStatuses

(* A step that changes one request and no table.                            *)
LEMMA OneRequest ==
  ASSUME IInv, NEW s \in Sessions, NEW n \in Requests, RequestOK(n),
         \A i \in n.invoice : invoice[i].state = "absent",
         \A t \in Sessions \ {s} : n.invoice \cap req[t].invoice = {},
         req' = [req EXCEPT ![s] = n], UNCHANGED <<credit, refund, drawn, invoice>>
  PROVE  IInv'
<1>1. TablesOK'  BY DEF IInv, TablesOK, RowsOK
<1>2. req \in [Sessions -> Requests]  BY DEF IInv, RequestsOK
<1>3. \A t \in Sessions : req'[t] = IF t = s THEN n ELSE req[t]  BY <1>2
<1>4. req' \in [Sessions -> Requests]  BY <1>2
<1>5. ASSUME NEW t \in Sessions
      PROVE  /\ RequestOK(req'[t])
             /\ \A i \in req'[t].invoice : invoice'[i].state = "absent"
             /\ \A u \in Sessions \ {t} : req'[t].invoice \cap req'[u].invoice = {}
  BY <1>3 DEF IInv, RequestsOK
<1>6. RequestsOK'
  BY <1>4, <1>5 DEF RequestsOK, RequestOK
<1> QED  BY <1>1, <1>6 DEF IInv

(* A step that ends a request, or touches none, and issues at most the      *)
(* invoice of the request that it ends.                                     *)
LEMMA OthersGoOn ==
  ASSUME IInv, req' = req \/ \E s \in Sessions : req' = [req EXCEPT ![s] = Idle],
         \A t \in Sessions : req'[t] = req[t] =>
           \A i \in req[t].invoice : invoice'[i].state = "absent"
  PROVE  RequestsOK'
<1>1. req \in [Sessions -> Requests]  BY DEF IInv, RequestsOK
<1>2. req' \in [Sessions -> Requests]  BY <1>1, IdleRequest
<1>3. \A t \in Sessions : req'[t] = req[t] \/ req'[t] = Idle  BY <1>1
<1>4. ASSUME NEW t \in Sessions
      PROVE  /\ RequestOK(req'[t])
             /\ \A i \in req'[t].invoice : invoice'[i].state = "absent"
             /\ \A u \in Sessions \ {t} : req'[t].invoice \cap req'[u].invoice = {}
  BY <1>3, IdleRequest DEF IInv, RequestsOK
<1> QED  BY <1>2, <1>4 DEF RequestsOK, RequestOK

-----------------------------------------------------------------------------
(* Sums over the rows.                                                      *)

LEMMA SubsetsFinite ==
  /\ \A S : S \subseteq Credits => IsFiniteSet(S)
  /\ \A S : S \subseteq Refunds => IsFiniteSet(S)
BY FiniteAssumption, FS_Subset

LEMMA AllocatedType ==
  ASSUME TablesOK, NEW c \in Credits PROVE Allocated(c) \in Nat
<1> DEFINE f == [i \in Invoices |-> drawn[c][i].amount]
<1>1. \A i \in Invoices : f[i] \in Nat  BY AmountAssumption DEF TablesOK, Draws, Amounts
<1>2. Allocated(c) = SumFunctionOnSet(f, Invoices)  BY DEF Allocated
<1> HIDE DEF f
<1> QED  BY <1>1, <1>2, FiniteAssumption, SumNat

LEMMA RefundAmounts ==
  ASSUME TablesOK, NEW fs, fs \subseteq Refunds PROVE SumOf(fs) \in Nat
<1> DEFINE h == [f \in Refunds |-> refund[f].amount]
<1>1. \A f \in fs : h[f] \in Nat  BY AmountAssumption DEF TablesOK, RefundRows, Amounts
<1>2. SumOf(fs) = SumFunctionOnSet(h, fs)  BY DEF SumOf
<1>3. IsFiniteSet(fs)  BY SubsetsFinite
<1> HIDE DEF h
<1> QED  BY <1>1, <1>2, <1>3, SumNat

LEMMA RefundedType ==
  ASSUME TablesOK, NEW c PROVE Refunded(c) \in Nat
<1>1. RefundsOf(c, {"live"}) \subseteq Refunds  BY DEF RefundsOf
<1> QED  BY <1>1, RefundAmounts DEF Refunded

LEMMA BalanceType ==
  ASSUME NEW amount \in Amounts, NEW a \in Nat, NEW b \in Nat
  PROVE  /\ BalanceOf(amount, a, b).remaining \in Amounts
         /\ BalanceOf(amount, a, b).status \in CreditStatuses
         /\ a + b <= amount => BalanceOf(amount, a, b).remaining = amount - a - b
<1> DEFINE left == AtLeast0(amount - a - b)
<1>1. left \in Amounts /\ (a + b <= amount => left = amount - a - b)
  BY AmountAssumption DEF AtLeast0, Amounts
<1>2. BalanceOf(amount, a, b).remaining = left  BY DEF BalanceOf
<1>3. BalanceOf(amount, a, b).status \in CreditStatuses
  BY Zenon DEF BalanceOf, CreditStatuses
<1> QED  BY <1>1, <1>2, <1>3

LEMMA JoinedType ==
  ASSUME TablesOK, NEW c \in Credits, NEW active, active \subseteq Refunds
  PROVE  /\ JoinedBalance(c, active).remaining \in Amounts
         /\ JoinedBalance(c, active).status \in CreditStatuses
<1> DEFINE times(n) == IF n = 0 THEN 1 ELSE n
           rows == Cardinality(RefundsOf(c, {"live", "trashed"}))
           draws == Cardinality(DrawnBy(c))
<1>1. rows \in Nat
  <2>1. IsFiniteSet(RefundsOf(c, {"live", "trashed"}))  BY SubsetsFinite DEF RefundsOf
  <2> QED  BY <2>1, FS_CardinalityType
<1>2. draws \in Nat
  <2>1. DrawnBy(c) \in SUBSET Invoices  BY DEF DrawnBy
  <2>2. IsFiniteSet(DrawnBy(c))  BY <2>1, FiniteAssumption, FS_Subset
  <2> QED  BY <2>2, FS_CardinalityType
<1>3. times(rows) \in Nat /\ times(draws) \in Nat  BY <1>1, <1>2
<1>4. Allocated(c) \in Nat /\ SumOf(active) \in Nat  BY AllocatedType, RefundAmounts
<1> DEFINE x == Allocated(c) * times(rows)
           y == SumOf(active) * times(draws)
<1>5. x \in Nat /\ y \in Nat
  <2> DEFINE tr == times(rows)
             td == times(draws)
  <2>1. tr \in Nat /\ td \in Nat  BY <1>3
  <2> HIDE DEF tr, td
  <2>2. Allocated(c) * tr \in Nat /\ SumOf(active) * td \in Nat  BY <1>4, <2>1
  <2> QED  BY <2>2 DEF tr, td
<1>6. JoinedBalance(c, active) = BalanceOf(credit[c].amount, x, y)  BY DEF JoinedBalance
<1>7. credit[c].amount \in Amounts  BY DEF TablesOK, CreditRows
<1> HIDE DEF x, y
<1> QED  BY <1>5, <1>6, <1>7, BalanceType

LEMMA AfterTrashType ==
  ASSUME TablesOK, NEW c \in Credits, NEW f
  PROVE  /\ BalanceAfterTrash(c, f).remaining \in Amounts
         /\ BalanceAfterTrash(c, f).status \in CreditStatuses
<1> DEFINE rest == SumOf(RefundsOf(c, {"live"}) \ {f})
           left == AtLeast0(credit[c].amount - rest)
<1>1. rest \in Nat
  <2>1. RefundsOf(c, {"live"}) \ {f} \subseteq Refunds  BY DEF RefundsOf
  <2> QED  BY <2>1, RefundAmounts
<1>2. credit[c].amount \in Amounts  BY DEF TablesOK, CreditRows
<1>3. left \in Amounts
  <2> HIDE DEF rest
  <2> QED  BY <1>1, <1>2, AmountAssumption DEF AtLeast0, Amounts
<1>4. BalanceAfterTrash(c, f).remaining = left  BY DEF BalanceAfterTrash
<1>5. BalanceAfterTrash(c, f).status \in CreditStatuses
  BY Zenon DEF BalanceAfterTrash, CreditStatuses
<1> QED  BY <1>3, <1>4, <1>5

-----------------------------------------------------------------------------
(* What an invoice draws.                                                   *)

LEMMA BillOf ==
  ASSUME NEW r, NEW b, r.bill = {b} PROVE (CHOOSE x \in r.bill : TRUE) = b
OBVIOUS

LEMMA DrawFits ==
  ASSUME TablesOK, NEW r, NEW b \in Bills, r.bill = {b}, r.candidates \subseteq Credits,
         NEW c \in Credits
  PROVE  /\ DrawFrom(r, c) \in Nat /\ DrawFrom(r, c) <= credit[c].remaining
         /\ DrawFrom(r, c) # 0 => Eligible(c)
<1> DEFINE before == {d \in r.candidates : Eligible(d) /\ d < c}
           left == [d \in Credits |-> credit[d].remaining]
<1>1. before \subseteq Credits /\ IsFiniteSet(before)  BY SubsetsFinite
<1>2. \A d \in Credits : credit[d].remaining \in Nat
  BY AmountAssumption DEF TablesOK, CreditRows, Amounts
<1>3. BalancesOf(before) \in Nat
  <2>1. BalancesOf(before) = SumFunctionOnSet(left, before)  BY DEF BalancesOf
  <2>2. \A d \in before : left[d] \in Nat  BY <1>1, <1>2
  <2> HIDE DEF left, before
  <2> QED  BY <1>1, <2>1, <2>2, SumNat
<1>4. DrawFrom(r, c) = IF c \in r.candidates /\ Eligible(c)
                       THEN AtMost(credit[c].remaining, AtLeast0(b.total - BalancesOf(before)))
                       ELSE 0
  BY BillOf DEF DrawFrom
<1>5. b.total \in Nat  BY BillsAssumption
<1> HIDE DEF before
<1>6. AtLeast0(b.total - BalancesOf(before)) \in Nat  BY <1>3, <1>5 DEF AtLeast0
<1> QED  BY <1>2, <1>4, <1>6 DEF AtMost

(* All that an invoice draws is at most its total.                          *)
LEMMA DrawsWithinTotal ==
  ASSUME TablesOK, NEW r, NEW b \in Bills, r.bill = {b}, r.candidates \subseteq Credits
  PROVE  SumFunctionOnSet([c \in Credits |-> DrawFrom(r, c)], Credits) <= b.total
<1> DEFINE S == {c \in r.candidates : Eligible(c)}
           left == [c \in Credits |-> credit[c].remaining]
           take == [c \in Credits |-> DrawFrom(r, c)]
<1>1. S \subseteq Credits /\ IsFiniteSet(S) /\ S \subseteq Nat /\ b.total \in Nat
  BY SubsetsFinite, OrderAssumption, BillsAssumption
<1>2. ASSUME NEW c \in S
      PROVE  /\ left[c] \in Nat
             /\ take[c] = AtMost(left[c],
                                 AtLeast0(b.total - SumFunctionOnSet(left, {d \in S : d < c})))
  <2>1. c \in Credits /\ c \in r.candidates /\ Eligible(c)  OBVIOUS
  <2>2. left[c] = credit[c].remaining /\ left[c] \in Nat
    BY <2>1, AmountAssumption DEF TablesOK, CreditRows, Amounts
  <2>3. {d \in r.candidates : Eligible(d) /\ d < c} = {d \in S : d < c}  OBVIOUS
  <2>4. take[c] = AtMost(credit[c].remaining, AtLeast0(b.total -
                    BalancesOf({d \in r.candidates : Eligible(d) /\ d < c})))
    BY <2>1, BillOf DEF DrawFrom
  <2> QED  BY <2>2, <2>3, <2>4 DEF BalancesOf
<1>3. OldestGivesFirst(S, left, b.total, take)
  <2> HIDE DEF left, take, S
  <2> QED  BY <1>1, <1>2 DEF OldestGivesFirst
<1>4. SumFunctionOnSet(take, S) <= b.total  BY <1>3, OldestFirstIsEnough
<1>5. SumFunctionOnSet(take, Credits) = SumFunctionOnSet(take, S)
  <2>1. \A c \in Credits : take[c] \in Int  BY DrawFits
  <2>2. \A c \in Credits \ S : take[c] = 0  BY DEF DrawFrom
  <2> HIDE DEF take, S
  <2> QED  BY <1>1, <2>1, <2>2, FiniteAssumption, SumOfSupport
<1> QED  BY <1>4, <1>5

LEMMA SyndicType ==
  ASSUME TablesOK, NEW r, NEW b \in Bills, r.bill = {b}, r.candidates \subseteq Credits,
         NEW c \in Credits
  PROVE  SyndicPart(r, c) \in Int
<1> DEFINE x == 2 * DrawFrom(r, c) * b.syndic + b.total
           y == 2 * b.total
<1>1. DrawFrom(r, c) \in Int /\ b.syndic \in Int /\ b.total \in Nat \ {0}
  BY DrawFits, BillsAssumption
<1>2. x \in Int /\ y \in Nat \ {0}
  <2> DEFINE d == DrawFrom(r, c)
             e == b.syndic
  <2>1. d \in Int /\ e \in Int  BY <1>1
  <2> HIDE DEF d, e
  <2>2. (2 * d) * e \in Int  BY <2>1
  <2> QED  BY <1>1, <2>2 DEF d, e
<1>3. SyndicPart(r, c) = IF c \in Banked \/ ~credit[c].funded THEN 0 ELSE x \div y
  BY BillOf DEF SyndicPart
<1> HIDE DEF x, y
<1>4. x \div y \in Int  BY <1>2
<1> QED  BY <1>3, <1>4

LEMMA MovedType ==
  ASSUME TablesOK, NEW r, NEW b \in Bills, r.bill = {b}, r.candidates \subseteq Credits, NEW m
  PROVE  Moved(r, m) \in Int
<1> DEFINE S == {c \in Credits : m \in LinkedMovement(c)}
           f == [c \in Credits |-> SyndicPart(r, c)]
<1>1. S \subseteq Credits /\ IsFiniteSet(S)  BY SubsetsFinite
<1>2. \A c \in S : f[c] \in Int  BY SyndicType
<1>3. Moved(r, m) = SumFunctionOnSet(f, S)  BY DEF Moved
<1> HIDE DEF S, f
<1> QED  BY <1>1, <1>2, <1>3, SumType

-----------------------------------------------------------------------------
(* Row locks.                                                               *)

LEMMA LinkedType == \A c \in Credits : LinkedMovement(c) \subseteq RowLocks
<1> SUFFICES ASSUME NEW c \in Credits PROVE LinkedMovement(c) \subseteq RowLocks
  OBVIOUS
<1> DEFINE out == RefundsOf(c, {"live"})
<1>1. out \subseteq Refunds /\ IsFiniteSet(out) /\ out \subseteq Int
  <2>1. out \subseteq Refunds  BY DEF RefundsOf
  <2> HIDE DEF out
  <2>2. out \subseteq Int  BY <2>1, OrderAssumption
  <2>3. IsFiniteSet(out)  BY <2>1, FiniteAssumption, FS_Subset
  <2> QED  BY <2>1, <2>2, <2>3
<1>2. CASE out # {}
  <2>1. PICK m \in out : \A k \in out : k <= m  BY <1>1, <1>2, LargestNumber
  <2>2. \A k \in out : m >= k  BY <1>1, <2>1
  <2>3. Max(out) \in out  BY <2>2 DEF Max
  <2> QED  BY <1>1, <1>2, <2>3 DEF LinkedMovement, RowLocks
<1>3. CASE out = {}  BY <1>3 DEF LinkedMovement, RowLocks
<1> QED  BY <1>2, <1>3

LEMMA WantedType ==
  ASSUME IInv, NEW s \in Sessions PROVE Wanted(req[s]) \subseteq RowLocks
<1> DEFINE r == req[s]
<1>0. r \in Requests /\ RequestOK(r)  BY DEF IInv, RequestsOK
<1>1. /\ r.candidates \subseteq Credits
      /\ r.op \notin {"none", "issue"} => r.credit \in Credits
      /\ r.op \in {"trashRefund", "restoreRefund"} => r.refund \in Refunds
  BY <1>0, Fields DEF RequestOK
<1>2. /\ \A c \in Credits : <<"credit", c>> \in RowLocks /\ <<"source", c>> \in RowLocks
      /\ \A f \in Refunds : <<"refund", f>> \in RowLocks
      /\ \A cs : cs \subseteq Credits => {"credit"} \X cs \subseteq RowLocks
      /\ \A fs : fs \subseteq Refunds => {"refund"} \X fs \subseteq RowLocks
  BY DEF RowLocks
<1>3. \A c, states : RefundsOf(c, states) \subseteq Refunds  BY DEF RefundsOf
<1>4. UNION {LinkedMovement(c) : c \in {d \in Credits : SyndicPart(r, d) > 0}} \subseteq RowLocks
  BY LinkedType
<1> HIDE DEF r
<1>5. r.op = "update" => UpdateLocks(r) \subseteq RowLocks  BY <1>1, <1>2, LinkedType DEF UpdateLocks
<1>6. r.op \notin {"none", "issue"} =>
        {<<"source", r.credit>>} \cup ({"refund"} \X RefundsOf(r.credit, {"live", "trashed"}))
          \subseteq RowLocks
  <2> DEFINE fs == RefundsOf(r.credit, {"live", "trashed"})
  <2>1. fs \subseteq Refunds  BY <1>3
  <2> HIDE DEF fs
  <2>2. {"refund"} \X fs \subseteq RowLocks  BY <1>2, <2>1
  <2>3. r.op \notin {"none", "issue"} => <<"source", r.credit>> \in RowLocks  BY <1>1, <1>2
  <2>4. r.op \notin {"none", "issue"} => {<<"source", r.credit>>} \cup ({"refund"} \X fs) \subseteq RowLocks
    BY <2>2, <2>3
  <2> QED  BY <2>4 DEF fs
<1>7. Wanted(r) \subseteq RowLocks
  BY <1>1, <1>2, <1>3, <1>4, <1>5, <1>6 DEF Wanted
<1> QED  BY <1>7 DEF r

LEMMA AcquireKeeps ==
  ASSUME IInv, NEW s \in Sessions, Acquire(s) PROVE IInv'
<1> DEFINE r == req[s]
           read == CASE r.op = "trashRefund" /\ r.stage = 0 ->
                          BalanceAfterTrash(r.credit, r.refund)
                     [] r.op = "restoreRefund" /\ r.stage = 0 ->
                          JoinedBalance(r.credit, RefundsOf(r.credit, {"live"}) \cup {r.refund})
                     [] OTHER -> [remaining |-> r.seen, status |-> r.label]
           m == [r EXCEPT !.stage = r.stage + 1, !.held = r.held \cup Wanted(r),
                          !.seen = read.remaining, !.label = read.status]
<1>1. r \in Requests /\ RequestOK(r)  BY DEF IInv, RequestsOK
<1>2. r.op # "none" /\ r.stage < Stages(r.op) /\ req' = [req EXCEPT ![s] = m]
      /\ UNCHANGED <<credit, refund, drawn, invoice>>
  BY DEF Acquire
<1>3. /\ read.remaining \in Int /\ read.status \in CreditStatuses
      /\ r.op \in {"trashRefund", "restoreRefund"} => read.remaining \in Nat
  <2>1. CASE r.op = "trashRefund" /\ r.stage = 0
    <3>1. r.credit \in Credits  BY <1>1, <2>1 DEF RequestOK
    <3>2. read = BalanceAfterTrash(r.credit, r.refund)  BY <2>1
    <3>3. BalanceAfterTrash(r.credit, r.refund).remaining \in Amounts
          /\ BalanceAfterTrash(r.credit, r.refund).status \in CreditStatuses
      BY <3>1, AfterTrashType DEF IInv
    <3> HIDE DEF read, r
    <3> QED  BY <3>2, <3>3, AmountAssumption DEF Amounts
  <2>2. CASE r.op = "restoreRefund" /\ r.stage = 0
    <3> DEFINE active == RefundsOf(r.credit, {"live"}) \cup {r.refund}
    <3>1. r.credit \in Credits /\ r.refund \in Refunds  BY <1>1, <2>2 DEF RequestOK
    <3>2. read = JoinedBalance(r.credit, active)  BY <2>2
    <3>3. active \subseteq Refunds  BY <3>1 DEF RefundsOf
    <3> HIDE DEF active, read, r
    <3>4. JoinedBalance(r.credit, active).remaining \in Amounts
          /\ JoinedBalance(r.credit, active).status \in CreditStatuses
      BY <3>1, <3>3, JoinedType DEF IInv
    <3> QED  BY <3>2, <3>4, AmountAssumption DEF Amounts
  <2>3. CASE ~(r.op = "trashRefund" /\ r.stage = 0) /\ ~(r.op = "restoreRefund" /\ r.stage = 0)
    <3>1. read = [remaining |-> r.seen, status |-> r.label]  BY <2>3
    <3>2. r.seen \in Int /\ r.label \in CreditStatuses  BY <1>1, Fields
    <3> HIDE DEF read
    <3> QED  BY <1>1, <3>1, <3>2 DEF RequestOK
  <2> QED  BY <2>1, <2>2, <2>3
<1>4. r.stage \in Nat /\ r.stage < 3
  <2>1. r.stage \in 0..3  BY <1>1, Fields
  <2>2. Stages(r.op) \in 0..3  BY DEF Stages
  <2> HIDE DEF r
  <2> QED  BY <1>2, <2>1, <2>2
<1> DEFINE stage == r.stage + 1
           held == r.held \cup Wanted(r)
           seen == read.remaining
           label == read.status
<1>5. stage \in 0..3 /\ held \in SUBSET RowLocks
  BY <1>1, <1>4, Fields, WantedType
<1>6. seen \in Int /\ label \in CreditStatuses  BY <1>3
<1>7. m = Advanced(r, stage, held, seen, label)  BY DEF Advanced
<1> HIDE DEF stage, held, seen, label, m, read
<1>8. /\ m \in Requests /\ m.op = r.op /\ m.credit = r.credit /\ m.refund = r.refund
      /\ m.invoice = r.invoice /\ m.bill = r.bill /\ m.seen = seen
  <2> HIDE DEF r
  <2> QED  BY <1>1, <1>5, <1>6, <1>7, NextStage
<1>9. RequestOK(m)  BY <1>1, <1>3, <1>8 DEF RequestOK, seen
<1>10. \A i \in m.invoice : invoice[i].state = "absent"
  BY <1>8 DEF IInv, RequestsOK
<1>11. \A t \in Sessions \ {s} : m.invoice \cap req[t].invoice = {}
  BY <1>8 DEF IInv, RequestsOK
<1> HIDE DEF r
<1> QED  BY <1>2, <1>8, <1>9, <1>10, <1>11, OneRequest

-----------------------------------------------------------------------------
(* Requests arrive.                                                         *)

(* Begin fills in the fields that its caller does not give.                 *)
Made(op, c, f, amount, is, bs, cs) ==
  [op |-> op, stage |-> 0, credit |-> c, refund |-> f, amount |-> amount,
   invoice |-> is, bill |-> bs, candidates |-> cs, held |-> {}, seen |-> 0,
   label |-> "AVAILABLE"]

FilledIn(fields) ==
  [x \in DOMAIN Idle |-> IF x \in DOMAIN fields THEN fields[x] ELSE Idle[x]]

LEMMA MadeForCredit ==
  ASSUME NEW op, NEW c
  PROVE  FilledIn([op |-> op, credit |-> c]) = Made(op, c, 0, 0, {}, {}, {})
BY DEF FilledIn, Made, Idle

LEMMA MadeForAmount ==
  ASSUME NEW op, NEW c, NEW amount
  PROVE  FilledIn([op |-> op, credit |-> c, amount |-> amount]) = Made(op, c, 0, amount, {}, {}, {})
BY DEF FilledIn, Made, Idle

LEMMA MadeForRefund ==
  ASSUME NEW op, NEW c, NEW f
  PROVE  FilledIn([op |-> op, refund |-> f, credit |-> c]) = Made(op, c, f, 0, {}, {}, {})
BY DEF FilledIn, Made, Idle

LEMMA MadeForInvoice ==
  ASSUME NEW op, NEW is, NEW bs, NEW cs
  PROVE  FilledIn([op |-> op, invoice |-> is, bill |-> bs, candidates |-> cs])
           = Made(op, 0, 0, 0, is, bs, cs)
BY DEF FilledIn, Made, Idle

LEMMA MadeType ==
  ASSUME NEW op \in AllEndpoints, NEW c \in Credits \cup {0}, NEW f \in Refunds \cup {0},
         NEW amount \in Amounts, NEW is \in SUBSET Invoices, NEW bs \in SUBSET Bills,
         NEW cs \in SUBSET Credits
  PROVE  /\ Made(op, c, f, amount, is, bs, cs) \in Requests
         /\ Made(op, c, f, amount, is, bs, cs).op = op
         /\ Made(op, c, f, amount, is, bs, cs).credit = c
         /\ Made(op, c, f, amount, is, bs, cs).refund = f
         /\ Made(op, c, f, amount, is, bs, cs).invoice = is
         /\ Made(op, c, f, amount, is, bs, cs).bill = bs
         /\ Made(op, c, f, amount, is, bs, cs).seen = 0
<1>1. /\ op \in AllEndpoints \cup {"none"} /\ 0 \in 0..3 /\ 0 \in Int
      /\ {} \in SUBSET RowLocks /\ "AVAILABLE" \in CreditStatuses
  BY DEF CreditStatuses
<1>2. Made(op, c, f, amount, is, bs, cs) \in Requests
  BY <1>1 DEF Made, Requests
<1> QED  BY <1>2 DEF Made

LEMMA BeginKeeps ==
  ASSUME IInv, NEW s \in Sessions, NEW n \in Requests, RequestOK(n), n.invoice = {},
         req' = [req EXCEPT ![s] = n], UNCHANGED <<credit, refund, drawn, invoice>>
  PROVE  IInv'
BY OneRequest

LEMMA BeginOnCreditKeeps ==
  ASSUME IInv, NEW s \in Sessions, NEW c \in Credits, NEW amount \in Amounts,
         NEW op \in {"cancel", "trashCredit", "restoreCredit", "removeSource", "restoreSource",
                     "refund", "update"},
         BeginOnCredit(s, op, c) \/ BeginWithAmount(s, op, c, amount)
  PROVE  IInv'
<1>1. PICK a \in Amounts : req' = [req EXCEPT ![s] = Made(op, c, 0, a, {}, {}, {})]
  <2>1. CASE BeginOnCredit(s, op, c)
    <3>1. req' = [req EXCEPT ![s] = FilledIn([op |-> op, credit |-> c])]
      BY <2>1 DEF BeginOnCredit, Begin, FilledIn
    <3>2. 0 \in Amounts  BY AmountAssumption DEF Amounts
    <3>3. req' = [req EXCEPT ![s] = Made(op, c, 0, 0, {}, {}, {})]  BY <3>1, MadeForCredit
    <3> QED  BY <3>2, <3>3
  <2>2. CASE BeginWithAmount(s, op, c, amount)
    <3>1. req' = [req EXCEPT ![s] = FilledIn([op |-> op, credit |-> c, amount |-> amount])]
      BY <2>2 DEF BeginWithAmount, Begin, FilledIn
    <3> QED  BY <3>1, MadeForAmount
  <2> QED  BY <2>1, <2>2
<1>2. op \in Endpoints /\ UNCHANGED <<credit, refund, drawn, invoice>>
  BY DEF BeginOnCredit, BeginWithAmount, Begin
<1> DEFINE n == Made(op, c, 0, a, {}, {}, {})
<1>3. op \in AllEndpoints /\ op \in LockingEndpoints  BY DEF AllEndpoints, LockingEndpoints
<1>4. n \in Requests /\ n.op = op /\ n.credit = c /\ n.invoice = {}
  BY <1>3, MadeType
<1> HIDE DEF n
<1>5. RequestOK(n)  BY <1>2, <1>3, <1>4 DEF RequestOK
<1>6. req' = [req EXCEPT ![s] = n]  BY <1>1 DEF n
<1> QED  BY <1>2, <1>4, <1>5, <1>6, BeginKeeps

LEMMA BeginOnRefundKeeps ==
  ASSUME IInv, NEW s \in Sessions, NEW f \in Refunds, NEW op \in {"trashRefund", "restoreRefund"},
         BeginOnRefund(s, op, f)
  PROVE  IInv'
<1> DEFINE c == refund[f].credit
           n == Made(op, c, f, 0, {}, {}, {})
<1>1. op \in Endpoints /\ UNCHANGED <<credit, refund, drawn, invoice>> /\ refund[f].state # "none"
  BY DEF BeginOnRefund, Begin
<1>2. req' = [req EXCEPT ![s] = n]
  <2>1. req' = [req EXCEPT ![s] = FilledIn([op |-> op, refund |-> f, credit |-> c])]
    BY DEF BeginOnRefund, Begin, FilledIn
  <2> QED  BY <2>1, MadeForRefund
<1>3. c \in Credits  BY <1>1 DEF IInv, TablesOK, RowsOK
<1>4. op \in AllEndpoints /\ op \in LockingEndpoints  BY DEF AllEndpoints, LockingEndpoints
<1> HIDE DEF c
<1>5. n \in Requests /\ n.op = op /\ n.credit = c /\ n.refund = f /\ n.invoice = {} /\ n.seen = 0
  <2>1. 0 \in Amounts /\ c \in Credits \cup {0} /\ f \in Refunds \cup {0}
    BY <1>3, AmountAssumption DEF Amounts
  <2> QED  BY <1>4, <2>1, MadeType
<1> HIDE DEF n
<1>6. RequestOK(n)  BY <1>1, <1>3, <1>4, <1>5 DEF RequestOK
<1> QED  BY <1>1, <1>2, <1>5, <1>6, BeginKeeps

LEMMA BeginInvoiceKeeps ==
  ASSUME IInv, NEW s \in Sessions, NEW i \in Invoices, NEW b \in Bills, BeginInvoice(s, i, b)
  PROVE  IInv'
<1> DEFINE found == {c \in Credits : Eligible(c)}
           n == Made("issue", 0, 0, 0, {i}, {b}, found)
<1>1. /\ invoice[i].state = "absent" /\ \A t \in Sessions : i \notin req[t].invoice
      /\ "issue" \in Endpoints /\ UNCHANGED <<credit, refund, drawn, invoice>>
  BY DEF BeginInvoice, Begin
<1>2. req' = [req EXCEPT ![s] = n]
  <2>1. req' = [req EXCEPT ![s] = FilledIn([op |-> "issue", invoice |-> {i}, bill |-> {b},
                                            candidates |-> found])]
    BY DEF BeginInvoice, Begin, FilledIn
  <2> QED  BY <2>1, MadeForInvoice
<1>3. found \in SUBSET Credits  OBVIOUS
<1> HIDE DEF found
<1>4. n \in Requests /\ n.op = "issue" /\ n.invoice = {i} /\ n.bill = {b}
  <2>1. 0 \in Amounts /\ "issue" \in AllEndpoints
    BY AmountAssumption DEF Amounts, AllEndpoints
  <2>2. {i} \in SUBSET Invoices /\ {b} \in SUBSET Bills  OBVIOUS
  <2>3. 0 \in Credits \cup {0} /\ 0 \in Refunds \cup {0}  OBVIOUS
  <2> DEFINE op == "issue"
             is == {i}
             bs == {b}
  <2>4. op \in AllEndpoints /\ is \in SUBSET Invoices /\ bs \in SUBSET Bills
    BY <2>1, <2>2
  <2> HIDE DEF op, is, bs
  <2>5. /\ Made(op, 0, 0, 0, is, bs, found) \in Requests
        /\ Made(op, 0, 0, 0, is, bs, found).op = op
        /\ Made(op, 0, 0, 0, is, bs, found).invoice = is
        /\ Made(op, 0, 0, 0, is, bs, found).bill = bs
    BY <1>3, <2>1, <2>3, <2>4, MadeType
  <2> QED  BY <2>5 DEF op, is, bs
<1> HIDE DEF n
<1>5. RequestOK(n)  BY <1>1, <1>4 DEF RequestOK, LockingEndpoints, AllEndpoints
<1>6. /\ \A j \in n.invoice : invoice[j].state = "absent"
      /\ \A t \in Sessions \ {s} : n.invoice \cap req[t].invoice = {}
  BY <1>1, <1>4
<1> QED  BY <1>1, <1>2, <1>4, <1>5, <1>6, OneRequest

-----------------------------------------------------------------------------
(* What the requests write.                                                 *)

LEMMA BackToIdle ==
  ASSUME IInv, NEW s \in Sessions, req' = [req EXCEPT ![s] = Idle],
         UNCHANGED <<credit, refund, drawn, invoice>>
  PROVE  IInv'
BY IdleRequest, BeginKeeps

LEMMA InvoicesStay ==
  ASSUME IInv, NEW s \in Sessions, NEW op, Ready(s, op), UNCHANGED invoice
  PROVE  RequestsOK'
<1>1. req' = [req EXCEPT ![s] = Idle]  BY DEF Ready
<1>2. \A t \in Sessions : \A i \in req[t].invoice : invoice'[i].state = "absent"
  BY DEF IInv, RequestsOK
<1> QED  BY <1>1, <1>2, OthersGoOn

LEMMA Asked ==
  ASSUME IInv, NEW s \in Sessions PROVE req[s] \in Requests /\ RequestOK(req[s])
BY DEF IInv, RequestsOK

CreditRow(state, amount, remaining, status, funded, cash, syndic) ==
  [state |-> state, amount |-> amount, remaining |-> remaining, status |-> status,
   funded |-> funded, cash |-> cash, syndic |-> syndic]

LEMMA CreditRowType ==
  ASSUME NEW state \in {"none", "live", "trashed"}, NEW amount \in Amounts,
         NEW remaining \in Amounts, NEW status \in CreditStatuses, NEW funded \in BOOLEAN,
         NEW cash \in Int, NEW syndic \in Int
  PROVE  CreditRow(state, amount, remaining, status, funded, cash, syndic) \in CreditRows
BY DEF CreditRow, CreditRows

LEMMA CreditFields ==
  ASSUME credit \in [Credits -> CreditRows], NEW c \in Credits
  PROVE  /\ credit[c].state \in {"none", "live", "trashed"} /\ credit[c].amount \in Amounts
         /\ credit[c].remaining \in Amounts /\ credit[c].status \in CreditStatuses
         /\ credit[c].funded \in BOOLEAN /\ credit[c].cash \in Int /\ credit[c].syndic \in Int
BY DEF CreditRows

(* The row of a credit as the four columns of its balance are rewritten.    *)
Rebalanced(row, remaining, status, cash, syndic) ==
  [row EXCEPT !.remaining = remaining, !.status = status, !.cash = cash, !.syndic = syndic]

LEMMA BalanceRewritten ==
  ASSUME credit \in [Credits -> CreditRows], NEW c \in Credits, NEW remaining \in Amounts,
         NEW status \in CreditStatuses, NEW cash \in Int, NEW syndic \in Int,
         NEW m, m = Rebalanced(credit[c], remaining, status, cash, syndic)
  PROVE  /\ m \in CreditRows /\ m.remaining = remaining /\ m.amount = credit[c].amount
         /\ m.state = credit[c].state /\ m.status = status /\ m.cash = cash
         /\ m.syndic = syndic /\ m.funded = credit[c].funded
<1>1. credit[c] \in CreditRows  OBVIOUS
<1> QED  BY <1>1 DEF CreditRows, Rebalanced

LEMMA CreateKeeps ==
  ASSUME IInv, NEW c \in Credits, NEW a \in 1..MaxAmount, CreateCredit(c, a) PROVE IInv'
<1> DEFINE n == CreditRow("live", a, a, "AVAILABLE", TRUE, IF c \in Banked THEN 0 ELSE a, 0)
<1>1. n \in CreditRows
  <2>1. a \in Amounts /\ (IF c \in Banked THEN 0 ELSE a) \in Int /\ 0 \in Int
    BY AmountAssumption DEF Amounts
  <2>2. "AVAILABLE" \in CreditStatuses  BY DEF CreditStatuses
  <2> QED  BY <2>1, <2>2, CreditRowType
<1>2. credit' = [credit EXCEPT ![c] = n] /\ n.state = "live"  BY DEF CreateCredit, CreditRow
<1>3. UNCHANGED <<refund, drawn, invoice, req>>  BY DEF CreateCredit
<1> HIDE DEF n
<1>4. TablesOK'  BY <1>1, <1>2, <1>3 DEF IInv, TablesOK, RowsOK
<1>5. RequestsOK'
  <2>1. \A t \in Sessions : \A i \in req[t].invoice : invoice'[i].state = "absent"
    BY <1>3 DEF IInv, RequestsOK
  <2> QED  BY <1>3, <2>1, OthersGoOn
<1> QED  BY <1>4, <1>5 DEF IInv

(* What an invoice leaves of each credit, and what it takes from it.        *)
IssueEffect(r, i, b) ==
  /\ r.op = "issue" /\ r.invoice = {i} /\ r.bill = {b} /\ r.candidates \subseteq Credits
  /\ invoice[i].state = "absent"
  /\ invoice' = [invoice EXCEPT ![i] =
       [state |-> "live", total |-> b.total, syndic |-> b.syndic,
        status |-> InvoiceStatus(b.total, PaidOn(i, drawn'))]]
  /\ refund' = [f \in Refunds |-> [refund[f] EXCEPT !.cash = @ - Moved(r, <<"refund", f>>)]]
  /\ drawn' = [c \in Credits |->
       IF DrawFrom(r, c) > 0
       THEN [drawn[c] EXCEPT ![i] = [amount |-> DrawFrom(r, c), paid |-> TRUE]]
       ELSE drawn[c]]
  /\ credit' \in [Credits -> CreditRows]
  /\ \A c \in Credits :
       /\ credit'[c].state = credit[c].state /\ credit'[c].amount = credit[c].amount
       /\ credit'[c].remaining = credit[c].remaining - DrawFrom(r, c)
       /\ credit'[c].cash = credit[c].cash - Moved(r, <<"source", c>>)
       /\ credit'[c].syndic = credit[c].syndic
                                + (IF LinkedMovement(c) = {} THEN 0 ELSE SyndicPart(r, c))
       /\ DrawFrom(r, c) = 0 => credit'[c].status = credit[c].status

LEMMA Issued ==
  ASSUME IInv, NEW s \in Sessions, IssueInvoice(s)
  PROVE  \E i \in Invoices, b \in Bills : IssueEffect(req[s], i, b)
<1> DEFINE r == req[s]
<1>1. r \in Requests /\ RequestOK(r) /\ r.op = "issue" /\ r.candidates \subseteq Credits
  BY Asked, Fields DEF IssueInvoice, Ready
<1>2. PICK i \in Invoices, b \in Bills : r.invoice = {i} /\ r.bill = {b}
  BY <1>1 DEF RequestOK
<1>3. (CHOOSE x \in r.invoice : TRUE) = i /\ (CHOOSE x \in r.bill : TRUE) = b  BY <1>2
<1>4. invoice[i].state = "absent"  BY <1>2 DEF IInv, RequestsOK
<1> DEFINE left(c) == credit[c].remaining - DrawFrom(r, c)
           status(c) == IF DrawFrom(r, c) = 0 THEN credit[c].status
                        ELSE IF left(c) <= 0 THEN "USED" ELSE "PARTIALLY_USED"
           cash(c) == credit[c].cash - Moved(r, <<"source", c>>)
           syndic(c) == credit[c].syndic
                          + (IF LinkedMovement(c) = {} THEN 0 ELSE SyndicPart(r, c))
           row(c) == Rebalanced(credit[c], left(c), status(c), cash(c), syndic(c))
<1>5. credit' = [c \in Credits |-> row(c)]
  BY DEF IssueInvoice, Rebalanced
<1>6. drawn' = [c \in Credits |->
                  IF DrawFrom(r, c) > 0
                  THEN [drawn[c] EXCEPT ![i] = [amount |-> DrawFrom(r, c), paid |-> TRUE]]
                  ELSE drawn[c]]
  BY <1>3 DEF IssueInvoice
<1>7. invoice' = [invoice EXCEPT ![i] =
                [state |-> "live", total |-> b.total, syndic |-> b.syndic,
                 status |-> InvoiceStatus(b.total, PaidOn(i, drawn'))]]
  BY <1>3 DEF IssueInvoice
<1>8. refund' = [f \in Refunds |-> [refund[f] EXCEPT !.cash = @ - Moved(r, <<"refund", f>>)]]
  BY DEF IssueInvoice
<1>9. ASSUME NEW c \in Credits
      PROVE  /\ row(c) \in CreditRows /\ row(c).state = credit[c].state
             /\ row(c).amount = credit[c].amount /\ row(c).remaining = left(c)
             /\ row(c).cash = cash(c) /\ row(c).syndic = syndic(c)
             /\ DrawFrom(r, c) = 0 => row(c).status = credit[c].status
  <2>1. /\ DrawFrom(r, c) \in Nat /\ DrawFrom(r, c) <= credit[c].remaining
        /\ SyndicPart(r, c) \in Int /\ Moved(r, <<"source", c>>) \in Int
    BY <1>1, <1>2, DrawFits, SyndicType, MovedType DEF IInv
  <2>2. credit \in [Credits -> CreditRows]  BY DEF IInv, TablesOK
  <2>3. left(c) \in Amounts /\ cash(c) \in Int /\ syndic(c) \in Int
    BY <2>1, <2>2, CreditFields, AmountAssumption DEF Amounts
  <2>4. status(c) \in CreditStatuses  BY <2>2, CreditFields DEF CreditStatuses
  <2>5. DrawFrom(r, c) = 0 => status(c) = credit[c].status  OBVIOUS
  <2> HIDE DEF left, cash, syndic, status
  <2> QED  BY <2>2, <2>3, <2>4, <2>5, BalanceRewritten
<1> HIDE DEF row, r
<1>10. /\ credit' \in [Credits -> CreditRows]
       /\ \A c \in Credits :
            /\ credit'[c].state = credit[c].state /\ credit'[c].amount = credit[c].amount
            /\ credit'[c].remaining = credit[c].remaining - DrawFrom(r, c)
            /\ credit'[c].cash = cash(c) /\ credit'[c].syndic = syndic(c)
            /\ DrawFrom(r, c) = 0 => credit'[c].status = credit[c].status
  BY <1>5, <1>9
<1>11. IssueEffect(r, i, b)
  BY <1>1, <1>2, <1>4, <1>6, <1>7, <1>8, <1>10 DEF IssueEffect
<1> QED  BY <1>11 DEF r

LEMMA IssueKeeps ==
  ASSUME IInv, NEW s \in Sessions, IssueInvoice(s) PROVE IInv'
<1> DEFINE r == req[s]
<1>1. PICK i \in Invoices, b \in Bills : IssueEffect(r, i, b)  BY Issued
<1>2. \A c \in Credits : /\ DrawFrom(r, c) \in Nat /\ DrawFrom(r, c) <= credit[c].remaining
                         /\ DrawFrom(r, c) # 0 => credit[c].state = "live"
  BY <1>1, DrawFits DEF IssueEffect, IInv, Eligible
<1>3. drawn' \in [Credits -> [Invoices -> Draws]]
  <2>1. ASSUME NEW c \in Credits PROVE DrawFrom(r, c) \in Amounts
    <3>1. credit[c].remaining \in Amounts  BY CreditFields DEF IInv, TablesOK
    <3>2. DrawFrom(r, c) \in Nat /\ DrawFrom(r, c) <= credit[c].remaining  BY <1>2
    <3> QED  BY <3>1, <3>2, AmountAssumption DEF Amounts
  <2>2. \A c \in Credits : [amount |-> DrawFrom(r, c), paid |-> TRUE] \in Draws
    BY <2>1 DEF Draws
  <2> HIDE DEF r
  <2> QED  BY <1>1, <2>2 DEF IssueEffect, IInv, TablesOK
<1>4. refund' \in [Refunds -> RefundRows]
  <2>1. ASSUME NEW f \in Refunds
        PROVE  [refund[f] EXCEPT !.cash = @ - Moved(r, <<"refund", f>>)] \in RefundRows
    <3>1. Moved(r, <<"refund", f>>) \in Int  BY <1>1, MovedType DEF IssueEffect, IInv
    <3>2. refund[f] \in RefundRows  BY DEF IInv, TablesOK
    <3> QED  BY <3>1, <3>2 DEF RefundRows
  <2> HIDE DEF r
  <2> QED  BY <1>1, <2>1 DEF IssueEffect
<1>5. \A f \in Refunds : refund'[f].state = refund[f].state /\ refund'[f].credit = refund[f].credit
  BY <1>1 DEF IssueEffect, IInv, TablesOK, RefundRows
<1>6. /\ invoice' \in [Invoices -> InvoiceRows]
      /\ invoice'[i].state = "live" /\ \A j \in Invoices \ {i} : invoice'[j] = invoice[j]
  <2> DEFINE status == InvoiceStatus(b.total, PaidOn(i, drawn'))
  <2>1. invoice' = [invoice EXCEPT ![i] =
                      [state |-> "live", total |-> b.total, syndic |-> b.syndic, status |-> status]]
    BY <1>1 DEF IssueEffect
  <2>2. status \in InvoiceStatuses  BY DEF InvoiceStatus, InvoiceStatuses
  <2>3. b.total \in Nat /\ b.syndic \in Nat  BY BillsAssumption
  <2>4. invoice \in [Invoices -> InvoiceRows]  BY DEF IInv, TablesOK
  <2> HIDE DEF status
  <2> QED  BY <2>1, <2>2, <2>3, <2>4 DEF InvoiceRows
<1>7. RowsOK'
  <2>1. ASSUME NEW f \in Refunds, refund'[f].state # "none"
        PROVE  refund'[f].credit \in Credits /\ credit'[refund'[f].credit].state # "none"
    <3>1. refund[f].credit \in Credits /\ credit[refund[f].credit].state # "none"
      BY <1>5, <2>1 DEF IInv, TablesOK, RowsOK
    <3> QED  BY <1>1, <1>5, <3>1 DEF IssueEffect
  <2>2. ASSUME NEW c \in Credits, NEW j \in Invoices, drawn'[c][j].amount # 0
        PROVE  invoice'[j].state = "live" /\ credit'[c].state # "none"
    <3>1. credit'[c].state = credit[c].state  BY <1>1 DEF IssueEffect
    <3>2. drawn' = [d \in Credits |->
            IF DrawFrom(r, d) > 0
            THEN [drawn[d] EXCEPT ![i] = [amount |-> DrawFrom(r, d), paid |-> TRUE]]
            ELSE drawn[d]]
      BY <1>1 DEF IssueEffect
    <3>3. drawn[c] \in [Invoices -> Draws]  BY DEF IInv, TablesOK
    <3>4. CASE j = i /\ DrawFrom(r, c) > 0
      BY <1>2, <1>6, <3>1, <3>4
    <3>5. CASE ~(j = i /\ DrawFrom(r, c) > 0)
      <4>1. drawn'[c][j] = drawn[c][j]  BY <3>2, <3>3, <3>5
      <4>2. invoice[j].state = "live" /\ credit[c].state # "none"
        BY <2>2, <4>1 DEF IInv, TablesOK, RowsOK
      <4> QED  BY <1>6, <3>1, <4>2
    <3> QED  BY <3>4, <3>5
  <2> QED  BY <2>1, <2>2 DEF RowsOK
<1>8. TablesOK'  BY <1>1, <1>3, <1>4, <1>6, <1>7 DEF TablesOK, IssueEffect
<1>9. RequestsOK'
  <2>1. req' = [req EXCEPT ![s] = Idle] /\ req'[s] = Idle
    BY DEF IssueInvoice, Ready, IInv, RequestsOK
  <2>2. ASSUME NEW t \in Sessions, req'[t] = req[t], NEW j \in req[t].invoice
        PROVE  invoice'[j].state = "absent"
    <3>1. t # s  BY <1>1, <2>1, <2>2, IdleRequest DEF IssueEffect
    <3>2. invoice[j].state = "absent" /\ j # i /\ j \in Invoices
      <4>1. req[t].invoice \cap req[s].invoice = {}  BY <3>1 DEF IInv, RequestsOK
      <4>2. req[s].invoice = {i}  BY <1>1 DEF IssueEffect
      <4>3. req[t].invoice \subseteq Invoices  BY Asked, Fields
      <4> QED  BY <2>2, <4>1, <4>2, <4>3 DEF IInv, RequestsOK
    <3> QED  BY <1>6, <3>2
  <2> QED  BY <2>1, <2>2, OthersGoOn
<1> QED  BY <1>8, <1>9 DEF IInv

(* A refund: one more row, and its amount less on the credit.               *)
LEMMA FreeRefund ==
  ASSUME IInv, MoreRefunds
  PROVE  NextRefund \in Refunds /\ refund[NextRefund].state = "none"
<1> DEFINE free == {f \in Refunds : refund[f].state = "none"}
<1>1. free # {} /\ free \subseteq Nat  BY OrderAssumption DEF MoreRefunds
<1>2. PICK n \in free : \A f \in free : n <= f
  <2> HIDE DEF free
  <2> QED  BY <1>1, LeastNumber
<1>3. \E f \in Refunds : refund[f].state = "none"
                         /\ \A g \in Refunds : refund[g].state = "none" => f <= g
  BY <1>2
<1> QED  BY <1>3 DEF NextRefund

LEMMA GiveBackKeeps ==
  ASSUME IInv, NEW s \in Sessions, NEW op, Ready(s, op), NEW c \in Credits, NEW amount \in Amounts,
         NEW final \in CreditStatuses, GiveBack(c, amount, final), MoreRefunds,
         amount <= credit[c].remaining, credit[c].state = "live", UNCHANGED <<drawn, invoice>>
  PROVE  /\ IInv'
         /\ \E f \in Refunds :
              /\ refund[f].state = "none"
              /\ refund'[f].state = "live" /\ refund'[f].credit = c /\ refund'[f].amount = amount
              /\ \A g \in Refunds \ {f} : refund'[g] = refund[g]
         /\ \A d \in Credits : credit'[d].state = credit[d].state /\ credit'[d].amount = credit[d].amount
         /\ \A d \in Credits \ {c} : credit'[d] = credit[d]
         /\ credit'[c].remaining = credit[c].remaining - amount
<1> DEFINE f == NextRefund
           left == credit[c].remaining - amount
<1>1. f \in Refunds /\ refund[f].state = "none"  BY FreeRefund
<1>2. /\ refund' = [refund EXCEPT ![f] = [state |-> "live", credit |-> c, amount |-> amount,
                                          cash |-> amount]]
      /\ credit' = [credit EXCEPT ![c].remaining = left, ![c].status = final]
  BY DEF GiveBack
<1>3. left \in Amounts /\ amount \in Int
  BY CreditFields, AmountAssumption DEF IInv, TablesOK, Amounts
<1>4. credit \in [Credits -> CreditRows] /\ refund \in [Refunds -> RefundRows]  BY DEF IInv, TablesOK
<1> HIDE DEF f, left
<1>5. /\ credit' \in [Credits -> CreditRows] /\ credit'[c].remaining = left
      /\ credit'[c].state = credit[c].state /\ credit'[c].amount = credit[c].amount
      /\ \A d \in Credits \ {c} : credit'[d] = credit[d]
  BY ZenonT(60), <1>2, <1>3, <1>4 DEF CreditRows
<1>6. /\ refund'[f].state = "live" /\ refund'[f].credit = c /\ refund'[f].amount = amount
      /\ \A g \in Refunds \ {f} : refund'[g] = refund[g]
      /\ refund' \in [Refunds -> RefundRows]
  BY <1>1, <1>2, <1>3, <1>4 DEF RefundRows
<1>7. \A d \in Credits : credit'[d].state = credit[d].state /\ credit'[d].amount = credit[d].amount
  BY <1>5
<1>8. RowsOK'
  <2>1. ASSUME NEW g \in Refunds, refund'[g].state # "none"
        PROVE  refund'[g].credit \in Credits /\ credit'[refund'[g].credit].state # "none"
    <3>1. CASE g = f  BY <1>6, <1>7, <3>1
    <3>2. CASE g # f  BY <1>6, <1>7, <2>1, <3>2 DEF IInv, TablesOK, RowsOK
    <3> QED  BY <3>1, <3>2
  <2>2. ASSUME NEW d \in Credits, NEW j \in Invoices, drawn'[d][j].amount # 0
        PROVE  invoice'[j].state = "live" /\ credit'[d].state # "none"
    BY <1>7, <2>2 DEF IInv, TablesOK, RowsOK
  <2> QED  BY <2>1, <2>2 DEF RowsOK
<1>9. IInv'
  BY <1>5, <1>6, <1>8, InvoicesStay DEF IInv, TablesOK
<1> QED  BY <1>1, <1>5, <1>6, <1>7, <1>9 DEF left

LEMMA RefundGives ==
  ASSUME IInv, NEW s \in Sessions, RefundCredit(s)
  PROVE  \E c \in Credits, amount \in Amounts, final \in CreditStatuses :
           /\ Ready(s, "refund") /\ GiveBack(c, amount, final) /\ MoreRefunds
           /\ amount <= credit[c].remaining /\ credit[c].state = "live"
           /\ UNCHANGED <<drawn, invoice>>
<1> DEFINE c == req[s].credit
           amount == req[s].amount
           final == IF credit[c].remaining = amount THEN "REFUNDED" ELSE "PARTIALLY_USED"
<1>1. Ready(s, "refund") /\ GiveBack(c, amount, final) /\ UNCHANGED <<drawn, invoice>>
  BY DEF RefundCredit
<1>2. req[s].op = "refund" /\ Accepted(req[s])  BY <1>1 DEF Ready
<1>3. c \in Credits /\ amount \in Amounts  BY <1>2, Asked, Fields DEF RequestOK
<1>4. MoreRefunds /\ amount <= credit[c].remaining /\ credit[c].state = "live"
  BY <1>2 DEF Accepted
<1>5. final \in CreditStatuses  BY DEF CreditStatuses
<1> HIDE DEF c, amount, final
<1> QED  BY <1>1, <1>3, <1>4, <1>5

LEMMA CancelGives ==
  ASSUME IInv, NEW s \in Sessions, CancelCredit(s)
  PROVE  \E c \in Credits, amount \in Amounts, final \in CreditStatuses :
           /\ Ready(s, "cancel") /\ GiveBack(c, amount, final) /\ MoreRefunds
           /\ amount <= credit[c].remaining /\ credit[c].state = "live"
           /\ amount = credit[c].remaining
           /\ UNCHANGED <<drawn, invoice>>
<1> DEFINE c == req[s].credit
           amount == credit[c].remaining
<1>1. Ready(s, "cancel") /\ GiveBack(c, amount, "CANCELLED") /\ UNCHANGED <<drawn, invoice>>
  BY DEF CancelCredit
<1>2. req[s].op = "cancel" /\ Accepted(req[s])  BY <1>1 DEF Ready
<1>3. c \in Credits  BY <1>2, Asked DEF RequestOK
<1>4. MoreRefunds /\ credit[c].state = "live"  BY <1>2 DEF Accepted
<1> HIDE DEF c
<1>5. amount \in Amounts /\ amount <= amount
  BY <1>3, CreditFields, AmountAssumption DEF IInv, TablesOK, Amounts
<1>6. "CANCELLED" \in CreditStatuses  BY DEF CreditStatuses
<1> HIDE DEF amount
<1>7. amount <= credit[c].remaining /\ amount = credit[c].remaining  BY <1>5 DEF amount
<1> QED  BY <1>1, <1>3, <1>4, <1>5, <1>6, <1>7

(* The row of a credit, from the columns that a request writes.             *)
LEMMA OneCredit ==
  ASSUME IInv, NEW s \in Sessions, NEW op, Ready(s, op), UNCHANGED invoice,
         credit' \in [Credits -> CreditRows],
         \A c \in Credits : credit[c].state # "none" => credit'[c].state # "none",
         refund' \in [Refunds -> RefundRows],
         \A f \in Refunds : /\ refund'[f].credit = refund[f].credit
                            /\ refund[f].state = "none" => refund'[f].state = "none",
         drawn' \in [Credits -> [Invoices -> Draws]],
         \A c \in Credits, i \in Invoices : drawn'[c][i].amount = drawn[c][i].amount
  PROVE  IInv'
<1>1. RowsOK'
  <2>1. ASSUME NEW f \in Refunds, refund'[f].state # "none"
        PROVE  refund'[f].credit \in Credits /\ credit'[refund'[f].credit].state # "none"
    BY <2>1 DEF IInv, TablesOK, RowsOK
  <2>2. ASSUME NEW c \in Credits, NEW i \in Invoices, drawn'[c][i].amount # 0
        PROVE  invoice'[i].state = "live" /\ credit'[c].state # "none"
    BY <2>2 DEF IInv, TablesOK, RowsOK
  <2> QED  BY <2>1, <2>2 DEF RowsOK
<1> QED  BY <1>1, InvoicesStay DEF IInv, TablesOK

LEMMA UpdateKeeps ==
  ASSUME IInv, NEW s \in Sessions, UpdateCredit(s)
  PROVE  /\ IInv'
         /\ LET c == req[s].credit
            IN /\ c \in Credits
               /\ \A d \in Credits \ {c} : credit'[d] = credit[d]
               /\ credit'[c].state = credit[c].state
               /\ credit'[c].remaining = credit'[c].amount - Allocated(c) - Refunded(c)
         /\ \A f \in Refunds : /\ refund'[f].state = refund[f].state
                               /\ refund'[f].credit = refund[f].credit
                               /\ refund'[f].amount = refund[f].amount
         /\ UNCHANGED <<drawn, invoice>>
<1> DEFINE c == req[s].credit
           amount == req[s].amount
           b == BalanceOf(amount, Allocated(c), Refunded(c))
           linked == LinkedMovement(c)
           cash == IF <<"source", c>> \in linked THEN amount ELSE credit[c].cash
           remaining == b.remaining
           status == b.status
<1>1. /\ Ready(s, "update") /\ UNCHANGED <<drawn, invoice>>
      /\ refund' = [f \in Refunds |->
           IF <<"refund", f>> \in linked THEN [refund[f] EXCEPT !.cash = amount] ELSE refund[f]]
  BY DEF UpdateCredit
<1>2. credit' = [credit EXCEPT ![c].amount = amount, ![c].remaining = remaining,
                               ![c].status = status, ![c].cash = cash]
  BY DEF UpdateCredit
<1>3. req[s].op = "update" /\ Accepted(req[s])  BY <1>1 DEF Ready
<1>4. c \in Credits /\ amount \in Amounts  BY <1>3, Asked, Fields DEF RequestOK
<1>5. amount >= Allocated(c) + Refunded(c)  BY <1>3 DEF Accepted
<1> HIDE DEF c, amount
<1>6. /\ remaining \in Amounts /\ status \in CreditStatuses
      /\ remaining = amount - Allocated(c) - Refunded(c)
  <2> DEFINE x == Allocated(c)
             y == Refunded(c)
  <2>1. x \in Nat /\ y \in Nat  BY <1>4, AllocatedType, RefundedType DEF IInv
  <2>2. amount \in Nat  BY <1>4, AmountAssumption DEF Amounts
  <2> HIDE DEF x, y
  <2>3. x + y <= amount  BY <1>5, <2>1, <2>2 DEF x, y
  <2>4. /\ BalanceOf(amount, x, y).remaining \in Amounts
        /\ BalanceOf(amount, x, y).status \in CreditStatuses
        /\ BalanceOf(amount, x, y).remaining = amount - x - y
    BY <1>4, <2>1, <2>3, BalanceType
  <2> QED  BY <2>4 DEF x, y
<1>7. credit \in [Credits -> CreditRows] /\ refund \in [Refunds -> RefundRows]
      /\ drawn \in [Credits -> [Invoices -> Draws]]
  BY DEF IInv, TablesOK
<1>8. amount \in Int /\ cash \in Int
  BY <1>4, <1>7, CreditFields, AmountAssumption DEF Amounts
<1> HIDE DEF remaining, status, cash, linked
<1>9. /\ credit'[c].state = credit[c].state /\ credit'[c].amount = amount
      /\ credit'[c].remaining = remaining /\ credit'[c].status = status
      /\ credit'[c].cash = cash /\ credit'[c].funded = credit[c].funded
      /\ credit'[c].syndic = credit[c].syndic
      /\ \A d \in Credits \ {c} : credit'[d] = credit[d]
      /\ DOMAIN credit' = Credits /\ credit' = [d \in Credits |-> credit'[d]]
      /\ credit'[c] = [f \in DOMAIN credit[c] |-> credit'[c][f]]
  BY ZenonT(60), <1>2, <1>4, <1>7 DEF CreditRows
<1>10. credit' \in [Credits -> CreditRows]
  <2>1. DOMAIN credit[c] = {"state", "amount", "remaining", "status", "funded", "cash", "syndic"}
    BY <1>4, <1>7 DEF CreditRows
  <2>2. credit'[c] = CreditRow(credit[c].state, amount, remaining, status, credit[c].funded, cash,
                               credit[c].syndic)
    BY <1>9, <2>1 DEF CreditRow
  <2> DEFINE st == credit[c].state
             fu == credit[c].funded
             sy == credit[c].syndic
  <2>3. st \in {"none", "live", "trashed"} /\ fu \in BOOLEAN /\ sy \in Int
    BY <1>4, <1>7, CreditFields
  <2> HIDE DEF st, fu, sy
  <2>4. CreditRow(st, amount, remaining, status, fu, cash, sy) \in CreditRows
    BY <1>4, <1>6, <1>8, <2>3, CreditRowType
  <2>5. credit'[c] \in CreditRows  BY <2>2, <2>4 DEF st, fu, sy
  <2> QED  BY <1>7, <1>9, <2>5
<1>11. /\ refund' \in [Refunds -> RefundRows]
       /\ \A f \in Refunds : /\ refund'[f].state = refund[f].state
                             /\ refund'[f].credit = refund[f].credit
                             /\ refund'[f].amount = refund[f].amount
  BY <1>1, <1>7, <1>8 DEF RefundRows
<1>12. IInv'
  BY <1>1, <1>7, <1>9, <1>10, <1>11, OneCredit
<1> QED  BY <1>1, <1>4, <1>6, <1>9, <1>11, <1>12 DEF c

LEMMA TrashKeeps ==
  ASSUME IInv, NEW s \in Sessions, TrashCredit(s)
  PROVE  /\ IInv'
         /\ \A c \in Credits :
              \/ credit'[c] = credit[c] /\ RefundsOf(c, {"live"})' = RefundsOf(c, {"live"})
              \/ credit'[c].state = "trashed"
         /\ \A f \in Refunds : refund'[f].amount = refund[f].amount
         /\ \A c \in Credits, i \in Invoices : drawn'[c][i].amount = drawn[c][i].amount
         /\ UNCHANGED invoice
<1> DEFINE c == req[s].credit
           gone == RefundsOf(c, {"live"})
           unpaid == [i \in Invoices |-> [drawn[c][i] EXCEPT !.paid = FALSE]]
<1>1. /\ Ready(s, "trashCredit") /\ UNCHANGED invoice
      /\ credit' = [credit EXCEPT ![c].state = "trashed", ![c].funded = FALSE]
      /\ refund' = [f \in Refunds |-> IF f \in gone THEN [refund[f] EXCEPT !.state = "trashed"]
                                      ELSE refund[f]]
      /\ drawn' = [drawn EXCEPT ![c] = unpaid]
  BY DEF TrashCredit
<1>2. c \in Credits  BY <1>1, Asked DEF Ready, RequestOK
<1>3. credit \in [Credits -> CreditRows] /\ refund \in [Refunds -> RefundRows]
      /\ drawn \in [Credits -> [Invoices -> Draws]]
  BY DEF IInv, TablesOK
<1>4. \A f \in Refunds : f \in gone <=> refund[f].credit = c /\ refund[f].state = "live"
  BY DEF RefundsOf
<1>0. unpaid \in [Invoices -> Draws] /\ \A i \in Invoices : unpaid[i].amount = drawn[c][i].amount
  <2>1. \A i \in Invoices : /\ [drawn[c][i] EXCEPT !.paid = FALSE] \in Draws
                            /\ [drawn[c][i] EXCEPT !.paid = FALSE].amount = drawn[c][i].amount
    <3>1. \A i \in Invoices : drawn[c][i] \in Draws  BY <1>2, <1>3
    <3> HIDE DEF c
    <3> QED  BY <3>1 DEF Draws
  <2> QED  BY <2>1
<1> HIDE DEF c, gone, unpaid
<1>5. /\ credit' \in [Credits -> CreditRows]
      /\ credit'[c].state = "trashed" /\ \A d \in Credits \ {c} : credit'[d] = credit[d]
  BY ZenonT(60), <1>1, <1>2, <1>3 DEF CreditRows
<1>6. /\ refund' \in [Refunds -> RefundRows]
      /\ \A f \in Refunds :
           /\ refund'[f].credit = refund[f].credit /\ refund'[f].amount = refund[f].amount
           /\ refund'[f].state = IF f \in gone THEN "trashed" ELSE refund[f].state
  BY <1>1, <1>3 DEF RefundRows
<1>7. /\ drawn' \in [Credits -> [Invoices -> Draws]]
      /\ \A d \in Credits, i \in Invoices : drawn'[d][i].amount = drawn[d][i].amount
  BY <1>0, <1>1, <1>2, <1>3
<1>8. \A d \in Credits \ {c} : RefundsOf(d, {"live"})' = RefundsOf(d, {"live"})
  BY <1>4, <1>6 DEF RefundsOf
<1>9. \A f \in Refunds : refund[f].state = "none" => refund'[f].state = "none"
  BY <1>4, <1>6
<1>10. IInv'  BY <1>1, <1>5, <1>6, <1>7, <1>9, OneCredit
<1> QED  BY <1>1, <1>5, <1>6, <1>7, <1>8, <1>10

LEMMA RestoreKeeps ==
  ASSUME IInv, NEW s \in Sessions, RestoreCredit(s) PROVE IInv'
<1> DEFINE c == req[s].credit
           rows == RefundsOf(c, {"live", "trashed"})
           remaining == JoinedBalance(c, rows).remaining
           status == JoinedBalance(c, rows).status
           paid == [i \in Invoices |-> [drawn[c][i] EXCEPT !.paid = drawn[c][i].paid \/ i \in DrawnBy(c)]]
<1>1. /\ Ready(s, "restoreCredit") /\ UNCHANGED invoice
      /\ credit' = [credit EXCEPT ![c].state = "live", ![c].funded = TRUE,
                                  ![c].remaining = remaining, ![c].status = status]
      /\ refund' = [f \in Refunds |-> IF f \in rows THEN [refund[f] EXCEPT !.state = "live"]
                                      ELSE refund[f]]
      /\ drawn' = [drawn EXCEPT ![c] = paid]
  <2>1. Ready(s, "restoreCredit") /\ UNCHANGED invoice  BY DEF RestoreCredit
  <2>2. credit' = [credit EXCEPT ![c].state = "live", ![c].funded = TRUE,
                                 ![c].remaining = remaining, ![c].status = status]
    BY DEF RestoreCredit
  <2>3. refund' = [f \in Refunds |-> IF f \in rows THEN [refund[f] EXCEPT !.state = "live"]
                                     ELSE refund[f]]
    BY DEF RestoreCredit
  <2>4. drawn' = [drawn EXCEPT ![c] = paid]
    BY DEF RestoreCredit
  <2> QED  BY <2>1, <2>2, <2>3, <2>4
<1>2. c \in Credits  BY <1>1, Asked DEF Ready, RequestOK
<1>3. credit \in [Credits -> CreditRows] /\ refund \in [Refunds -> RefundRows]
      /\ drawn \in [Credits -> [Invoices -> Draws]]
  BY DEF IInv, TablesOK
<1>4. \A f \in Refunds : f \in rows => refund[f].state # "none"  BY DEF RefundsOf
<1>5. remaining \in Amounts /\ status \in CreditStatuses
  <2>1. rows \subseteq Refunds  BY DEF RefundsOf
  <2> HIDE DEF c, rows
  <2> QED  BY <1>2, <2>1, JoinedType DEF IInv
<1>6. /\ paid \in [Invoices -> Draws]
      /\ \A i \in Invoices : paid[i].amount = drawn[c][i].amount
  <2>1. ASSUME NEW i \in Invoices
        PROVE  /\ [drawn[c][i] EXCEPT !.paid = drawn[c][i].paid \/ i \in DrawnBy(c)] \in Draws
               /\ [drawn[c][i] EXCEPT !.paid = drawn[c][i].paid \/ i \in DrawnBy(c)].amount = drawn[c][i].amount
    <3>1. drawn[c][i] \in Draws  BY <1>2, <1>3
    <3> DEFINE back == drawn[c][i].paid \/ i \in DrawnBy(c)
    <3>2. back \in BOOLEAN  OBVIOUS
    <3> HIDE DEF back
    <3>3. /\ [drawn[c][i] EXCEPT !.paid = back] \in Draws
          /\ [drawn[c][i] EXCEPT !.paid = back].amount = drawn[c][i].amount
      BY <3>1, <3>2 DEF Draws
    <3> QED  BY <3>3 DEF back
  <2> QED  BY <2>1
<1> HIDE DEF c, rows, remaining, status, paid
<1>7. /\ credit'[c].state = "live" /\ credit'[c].funded = TRUE
      /\ credit'[c].remaining = remaining /\ credit'[c].status = status
      /\ credit'[c].amount = credit[c].amount /\ credit'[c].cash = credit[c].cash
      /\ credit'[c].syndic = credit[c].syndic
      /\ \A d \in Credits \ {c} : credit'[d] = credit[d]
      /\ DOMAIN credit' = Credits /\ credit' = [d \in Credits |-> credit'[d]]
      /\ credit'[c] = [f \in DOMAIN credit[c] |-> credit'[c][f]]
  BY ZenonT(60), <1>1, <1>2, <1>3 DEF CreditRows
<1>8. credit' \in [Credits -> CreditRows]
  <2>1. DOMAIN credit[c] = {"state", "amount", "remaining", "status", "funded", "cash", "syndic"}
    BY <1>2, <1>3 DEF CreditRows
  <2>2. credit'[c] = CreditRow("live", credit[c].amount, remaining, status, TRUE, credit[c].cash,
                               credit[c].syndic)
    BY <1>7, <2>1 DEF CreditRow
  <2> DEFINE am == credit[c].amount
             ca == credit[c].cash
             sy == credit[c].syndic
  <2>3. am \in Amounts /\ ca \in Int /\ sy \in Int  BY <1>2, <1>3, CreditFields
  <2> HIDE DEF am, ca, sy
  <2>4. CreditRow("live", am, remaining, status, TRUE, ca, sy) \in CreditRows
    BY <1>5, <2>3, CreditRowType
  <2>5. credit'[c] \in CreditRows  BY <2>2, <2>4 DEF am, ca, sy
  <2> QED  BY <1>3, <1>7, <2>5
<1>9. /\ refund' \in [Refunds -> RefundRows]
      /\ \A f \in Refunds : /\ refund'[f].credit = refund[f].credit
                            /\ refund[f].state = "none" => refund'[f].state = "none"
  BY <1>1, <1>3, <1>4 DEF RefundRows
<1>10. /\ drawn' \in [Credits -> [Invoices -> Draws]]
       /\ \A d \in Credits, i \in Invoices : drawn'[d][i].amount = drawn[d][i].amount
  BY <1>1, <1>2, <1>3, <1>6
<1>11. \A d \in Credits : credit[d].state # "none" => credit'[d].state # "none"  BY <1>7
<1> QED  BY <1>1, <1>8, <1>9, <1>10, <1>11, OneCredit

LEMMA FlipRefundKeeps ==
  ASSUME IInv, NEW s \in Sessions, TrashRefund(s) \/ RestoreRefund(s) PROVE IInv'
<1> DEFINE c == req[s].credit
           f == req[s].refund
           seen == req[s].seen
           label == req[s].label
<1>1. PICK op \in {"trashRefund", "restoreRefund"}, state \in {"trashed", "live"} :
        /\ Ready(s, op) /\ UNCHANGED <<drawn, invoice>>
        /\ refund' = [refund EXCEPT ![f].state = state]
        /\ credit' = [credit EXCEPT ![c].remaining = seen, ![c].status = label]
  BY DEF TrashRefund, RestoreRefund, FlipRefund
<1>2. req[s].op = op /\ Accepted(req[s])  BY <1>1 DEF Ready
<1>3. c \in Credits /\ f \in Refunds /\ seen \in Nat /\ label \in CreditStatuses
  BY <1>2, Asked, Fields DEF RequestOK
<1>4. refund[f].state # "none" /\ seen <= credit[c].amount
  BY <1>2 DEF Accepted
<1>5. credit \in [Credits -> CreditRows] /\ refund \in [Refunds -> RefundRows]
      /\ drawn \in [Credits -> [Invoices -> Draws]]
  BY DEF IInv, TablesOK
<1> HIDE DEF c, f, seen, label
<1>6. seen \in Amounts
  <2>1. credit[c].amount \in Amounts  BY <1>3, <1>5, CreditFields
  <2> QED  BY <1>3, <1>4, <2>1, AmountAssumption DEF Amounts
<1>7. /\ credit' \in [Credits -> CreditRows]
      /\ \A d \in Credits : credit'[d].state = credit[d].state
  BY ZenonT(60), <1>1, <1>3, <1>5, <1>6 DEF CreditRows
<1>8. /\ refund' \in [Refunds -> RefundRows]
      /\ \A g \in Refunds : /\ refund'[g].credit = refund[g].credit
                            /\ refund[g].state = "none" => refund'[g].state = "none"
  BY <1>1, <1>3, <1>4, <1>5 DEF RefundRows
<1> QED  BY <1>1, <1>5, <1>7, <1>8, OneCredit

LEMMA FlipSourceKeeps ==
  ASSUME IInv, NEW s \in Sessions, RemoveSource(s) \/ RestoreSource(s)
  PROVE  /\ IInv'
         /\ \A c \in Credits : /\ credit'[c].state = credit[c].state
                               /\ credit'[c].amount = credit[c].amount
                               /\ credit'[c].remaining = credit[c].remaining
         /\ UNCHANGED <<refund, drawn, invoice>>
<1> DEFINE c == req[s].credit
<1>1. PICK op \in {"removeSource", "restoreSource"}, funded \in BOOLEAN :
        /\ Ready(s, op) /\ UNCHANGED <<refund, drawn, invoice>>
        /\ credit' = [credit EXCEPT ![c].funded = funded]
  BY DEF RemoveSource, RestoreSource, FlipSource
<1>2. c \in Credits  BY <1>1, Asked DEF RequestOK, Ready
<1>3. credit \in [Credits -> CreditRows] /\ refund \in [Refunds -> RefundRows]
      /\ drawn \in [Credits -> [Invoices -> Draws]]
  BY DEF IInv, TablesOK
<1> HIDE DEF c
<1>4. /\ credit' \in [Credits -> CreditRows]
      /\ \A d \in Credits : /\ credit'[d].state = credit[d].state
                            /\ credit'[d].amount = credit[d].amount
                            /\ credit'[d].remaining = credit[d].remaining
  BY SMTT(30), <1>1, <1>2, <1>3 DEF CreditRows
<1>5. IInv'  BY <1>1, <1>3, <1>4, OneCredit
<1> QED  BY <1>1, <1>4, <1>5

LEMMA FlipDrawKeeps ==
  ASSUME IInv, NEW op, NEW c \in Credits, NEW i \in Invoices, NEW paid \in BOOLEAN,
         FlipDraw(op, c, i, paid)
  PROVE  /\ IInv'
         /\ UNCHANGED <<credit, refund>>
         /\ \A d \in Credits, j \in Invoices : drawn'[d][j].amount = drawn[d][j].amount
         /\ \A j \in Invoices : /\ invoice'[j].state = invoice[j].state
                                /\ invoice'[j].total = invoice[j].total
<1> DEFINE status == InvoiceStatus(invoice[i].total, PaidOn(i, [drawn EXCEPT ![c][i].paid = paid]))
<1>1. /\ UNCHANGED <<credit, refund, req>> /\ drawn' = [drawn EXCEPT ![c][i].paid = paid]
      /\ invoice' = [invoice EXCEPT ![i].status = status]
  BY DEF FlipDraw
<1>2. status \in InvoiceStatuses  BY DEF InvoiceStatus, InvoiceStatuses
<1>3. drawn \in [Credits -> [Invoices -> Draws]] /\ invoice \in [Invoices -> InvoiceRows]
  BY DEF IInv, TablesOK
<1> HIDE DEF status
<1>4. /\ drawn' \in [Credits -> [Invoices -> Draws]]
      /\ \A d \in Credits, j \in Invoices : drawn'[d][j].amount = drawn[d][j].amount
  BY <1>1, <1>3 DEF Draws
<1>5. /\ invoice' \in [Invoices -> InvoiceRows]
      /\ \A j \in Invoices : /\ invoice'[j].state = invoice[j].state
                             /\ invoice'[j].total = invoice[j].total
  BY <1>1, <1>2, <1>3 DEF InvoiceRows
<1>6. RowsOK'  BY <1>1, <1>4, <1>5 DEF IInv, TablesOK, RowsOK
<1>7. TablesOK'  BY <1>1, <1>4, <1>5, <1>6 DEF IInv, TablesOK
<1>8. RequestsOK'
  <2>1. \A t \in Sessions : req[t].invoice \subseteq Invoices  BY Asked, Fields
  <2>2. \A t \in Sessions : \A j \in req[t].invoice : invoice'[j].state = "absent"
    BY <1>5, <2>1 DEF IInv, RequestsOK
  <2> QED  BY <1>1, <2>2, OthersGoOn
<1> QED  BY <1>1, <1>4, <1>5, <1>7, <1>8 DEF IInv

-----------------------------------------------------------------------------
(* Every step.                                                              *)

LEMMA RequestKeeps ==
  ASSUME IInv, NEW s \in Sessions, Request(s) PROVE IInv'
<1>1. ASSUME NEW i \in Invoices, NEW b \in Bills, BeginInvoice(s, i, b) PROVE IInv'
  BY <1>1, BeginInvoiceKeeps
<1>2. ASSUME NEW c \in Credits,
             NEW op \in {"cancel", "trashCredit", "restoreCredit", "removeSource", "restoreSource"},
             BeginOnCredit(s, op, c)
      PROVE  IInv'
  <2>1. 0 \in Amounts  BY AmountAssumption DEF Amounts
  <2> QED  BY <1>2, <2>1, BeginOnCreditKeeps
<1>3. ASSUME NEW c \in Credits, NEW op \in {"refund", "update"}, NEW a \in 1..MaxAmount,
             BeginWithAmount(s, op, c, a)
      PROVE  IInv'
  <2>1. a \in Amounts  BY AmountAssumption DEF Amounts
  <2> QED  BY <1>3, <2>1, BeginOnCreditKeeps
<1>4. ASSUME NEW op \in {"trashRefund", "restoreRefund"}, NEW f \in Refunds, BeginOnRefund(s, op, f)
      PROVE  IInv'
  BY <1>4, BeginOnRefundKeeps
<1> QED  BY <1>1, <1>2, <1>3, <1>4 DEF Request

LEMMA StepKeeps ==
  ASSUME IInv, NEW s \in Sessions, Step(s) PROVE IInv'
<1>1. CASE Acquire(s)  BY <1>1, AcquireKeeps
<1>2. CASE Refuse(s)  BY <1>2, BackToIdle DEF Refuse
<1>3. CASE IssueInvoice(s)  BY <1>3, IssueKeeps
<1>4. CASE RefundCredit(s)  BY <1>4, RefundGives, GiveBackKeeps
<1>5. CASE CancelCredit(s)  BY <1>5, CancelGives, GiveBackKeeps
<1>6. CASE UpdateCredit(s)  BY <1>6, UpdateKeeps
<1>7. CASE TrashCredit(s)  BY <1>7, TrashKeeps
<1>8. CASE RestoreCredit(s)  BY <1>8, RestoreKeeps
<1>9. CASE TrashRefund(s) \/ RestoreRefund(s)  BY <1>9, FlipRefundKeeps
<1>10. CASE RemoveSource(s) \/ RestoreSource(s)  BY <1>10, FlipSourceKeeps
<1> QED
  BY <1>1, <1>2, <1>3, <1>4, <1>5, <1>6, <1>7, <1>8, <1>9, <1>10 DEF Step

LEMMA NextKeeps == IInv /\ [Next]_vars => IInv'
<1> SUFFICES ASSUME IInv, [Next]_vars PROVE IInv'
  OBVIOUS
<1>1. ASSUME NEW c \in Credits, NEW a \in 1..MaxAmount, CreateCredit(c, a) PROVE IInv'
  BY <1>1, CreateKeeps
<1>2. ASSUME NEW c \in Credits, NEW i \in Invoices,
             FlipDraw("removeDraw", c, i, FALSE) \/ FlipDraw("restoreDraw", c, i, TRUE)
      PROVE  IInv'
  BY <1>2, FlipDrawKeeps
<1>3. ASSUME NEW s \in Sessions, Request(s) PROVE IInv'  BY <1>3, RequestKeeps
<1>4. ASSUME NEW s \in Sessions, Step(s) PROVE IInv'  BY <1>4, StepKeeps
<1>5. ASSUME NEW s \in Sessions, Rollback(s) \/ DeadlockVictim(s) PROVE IInv'
  BY <1>5, BackToIdle DEF Rollback, DeadlockVictim
<1>6. CASE UNCHANGED vars
  BY <1>6 DEF vars, IInv, TablesOK, RowsOK, RequestsOK
<1> QED  BY <1>1, <1>2, <1>3, <1>4, <1>5, <1>6 DEF Next

(* Every row and every request of the tenant credits stays of its type: a   *)
(* balance between zero and the largest credit, whatever the requests of    *)
(* the cash book and of the invoices write over one another.                *)
THEOREM TypeCorrect == Spec => []TypeOK
<1>1. IInv => TypeOK  BY DEF IInv, TablesOK, RequestsOK, TypeOK
<1> QED  BY <1>1, InitHolds, NextKeeps, PTL DEF Spec

-----------------------------------------------------------------------------
(* No credit is used twice.                                                 *)

LEMMA AllocatedSame ==
  ASSUME TablesOK, NEW c \in Credits,
         \A i \in Invoices : drawn'[c][i].amount = drawn[c][i].amount
  PROVE  Allocated(c)' = Allocated(c)
<1> DEFINE f == [i \in Invoices |-> drawn[c][i].amount]
           h == [i \in Invoices |-> drawn'[c][i].amount]
<1>1. \A i \in Invoices : f[i] \in Int /\ h[i] = f[i]
  BY AmountAssumption DEF TablesOK, Draws, Amounts
<1>2. IsFiniteSet(Invoices)  BY FiniteAssumption
<1> HIDE DEF f, h
<1>3. SumFunctionOnSet(h, Invoices) = SumFunctionOnSet(f, Invoices)  BY <1>1, <1>2, SumEqual
<1> QED  BY <1>3 DEF f, h, Allocated

LEMMA RefundsSame ==
  ASSUME TablesOK, NEW c \in Credits, RefundsOf(c, {"live"})' = RefundsOf(c, {"live"}),
         \A f \in RefundsOf(c, {"live"}) : refund'[f].amount = refund[f].amount
  PROVE  Refunded(c)' = Refunded(c)
<1> DEFINE rs == RefundsOf(c, {"live"})
           f == [x \in Refunds |-> refund[x].amount]
           h == [x \in Refunds |-> refund'[x].amount]
<1>1. rs \subseteq Refunds /\ IsFiniteSet(rs)  BY SubsetsFinite DEF RefundsOf
<1>2. \A x \in rs : f[x] \in Int /\ h[x] = f[x]
  BY <1>1, AmountAssumption DEF TablesOK, RefundRows, Amounts
<1> HIDE DEF f, h
<1>3. SumFunctionOnSet(h, rs) = SumFunctionOnSet(f, rs)
  <2> HIDE DEF rs
  <2> QED  BY <1>1, <1>2, SumEqual
<1> QED  BY <1>3 DEF f, h, rs, Refunded, SumOf

(* The balance of a credit that a step leaves as it was.                    *)
LEMMA BalanceStays ==
  ASSUME TablesOK, RemainingIsUnused, NEW c \in Credits,
         credit'[c].state = "live" => credit[c].state = "live",
         credit'[c].amount = credit[c].amount, credit'[c].remaining = credit[c].remaining,
         \A i \in Invoices : drawn'[c][i].amount = drawn[c][i].amount,
         RefundsOf(c, {"live"})' = RefundsOf(c, {"live"}),
         \A f \in RefundsOf(c, {"live"}) : refund'[f].amount = refund[f].amount
  PROVE  credit'[c].state = "live" =>
           credit'[c].remaining = credit'[c].amount - Allocated(c)' - Refunded(c)'
<1>1. Allocated(c)' = Allocated(c)  BY AllocatedSame
<1>2. Refunded(c)' = Refunded(c)  BY RefundsSame
<1> QED  BY <1>1, <1>2 DEF RemainingIsUnused

(* The draws of an invoice that a step leaves as they were.                 *)
LEMMA DrawsStay ==
  ASSUME TablesOK, DrawnWithinTotal, NEW i \in Invoices,
         invoice'[i].state = invoice[i].state, invoice'[i].total = invoice[i].total,
         \A c \in Credits : drawn'[c][i].amount = drawn[c][i].amount
  PROVE  invoice'[i].state = "live" =>
           SumFunctionOnSet([c \in Credits |-> drawn'[c][i].amount], Credits) <= invoice'[i].total
<1> DEFINE f == [c \in Credits |-> drawn[c][i].amount]
           h == [c \in Credits |-> drawn'[c][i].amount]
<1>1. h = f  OBVIOUS
<1>2. invoice[i].state = "live" => SumFunctionOnSet(f, Credits) <= invoice[i].total
  BY DEF DrawnWithinTotal
<1> HIDE DEF f, h
<1> QED  BY <1>1, <1>2 DEF h

LEMMA IssueUsesOnce ==
  ASSUME IInv, CreditUsedOnce, NEW s \in Sessions, IssueInvoice(s)
  PROVE  CreditUsedOnce'
<1> DEFINE r == req[s]
<1>1. PICK i \in Invoices, b \in Bills : IssueEffect(r, i, b)  BY Issued
<1>2. \A c \in Credits : DrawFrom(r, c) \in Nat
  BY <1>1, DrawFits DEF IssueEffect, IInv
<1>3. SumFunctionOnSet([c \in Credits |-> DrawFrom(r, c)], Credits) <= b.total
  BY <1>1, DrawsWithinTotal DEF IssueEffect, IInv
<1>4. drawn \in [Credits -> [Invoices -> Draws]] /\ refund \in [Refunds -> RefundRows]
      /\ invoice \in [Invoices -> InvoiceRows]
  BY DEF IInv, TablesOK
<1>5. \A c \in Credits : drawn[c][i].amount = 0
  BY <1>1 DEF IssueEffect, IInv, TablesOK, RowsOK
<1>6. drawn' = [c \in Credits |->
        IF DrawFrom(r, c) > 0
        THEN [drawn[c] EXCEPT ![i] = [amount |-> DrawFrom(r, c), paid |-> TRUE]]
        ELSE drawn[c]]
  BY <1>1 DEF IssueEffect
<1>7. \A c \in Credits :
        /\ credit'[c].state = credit[c].state /\ credit'[c].amount = credit[c].amount
        /\ credit'[c].remaining = credit[c].remaining - DrawFrom(r, c)
  BY <1>1 DEF IssueEffect
<1>8. \A f \in Refunds : /\ refund'[f].state = refund[f].state
                         /\ refund'[f].credit = refund[f].credit
                         /\ refund'[f].amount = refund[f].amount
  BY <1>1, <1>4 DEF IssueEffect, RefundRows
<1>9. /\ invoice'[i].total = b.total
      /\ \A j \in Invoices \ {i} : invoice'[j] = invoice[j]
  BY <1>1, <1>4 DEF IssueEffect
<1> HIDE DEF r
<1>10. \A c \in Credits : /\ drawn'[c][i].amount = DrawFrom(r, c)
                          /\ \A j \in Invoices \ {i} : drawn'[c][j] = drawn[c][j]
  BY <1>2, <1>4, <1>5, <1>6
<1>11. ASSUME NEW c \in Credits PROVE Allocated(c)' = Allocated(c) + DrawFrom(r, c)
  <2> DEFINE f == [j \in Invoices |-> drawn[c][j].amount]
             h == [j \in Invoices |-> drawn'[c][j].amount]
  <2>1. \A j \in Invoices : f[j] \in Int
    BY <1>4, AmountAssumption DEF Draws, Amounts
  <2>2. f[i] = 0 /\ h[i] = DrawFrom(r, c) /\ \A j \in Invoices \ {i} : h[j] = f[j]
    BY <1>5, <1>10
  <2>3. \A j \in Invoices : h[j] \in Int
    <3> HIDE DEF f, h
    <3> QED  BY <1>2, <2>1, <2>2
  <2>4. IsFiniteSet(Invoices)  BY FiniteAssumption
  <2> HIDE DEF f, h
  <2>5. SumFunctionOnSet(h, Invoices) = SumFunctionOnSet(f, Invoices) + (h[i] - f[i])
    BY <2>1, <2>2, <2>3, <2>4, SumChangeOne
  <2>6. SumFunctionOnSet(h, Invoices) = SumFunctionOnSet(f, Invoices) + DrawFrom(r, c)
    BY <1>2, <2>2, <2>5
  <2> QED  BY <2>6 DEF f, h, Allocated
<1>12. RemainingIsUnused'
  <2> SUFFICES ASSUME NEW c \in Credits, credit'[c].state = "live"
               PROVE  credit'[c].remaining = credit'[c].amount - Allocated(c)' - Refunded(c)'
    BY DEF RemainingIsUnused
  <2>1. Refunded(c)' = Refunded(c)
    <3>1. RefundsOf(c, {"live"})' = RefundsOf(c, {"live"})  BY <1>8 DEF RefundsOf
    <3>2. \A f \in RefundsOf(c, {"live"}) : refund'[f].amount = refund[f].amount
      BY <1>8 DEF RefundsOf
    <3> QED  BY <3>1, <3>2, RefundsSame DEF IInv
  <2>2. credit[c].remaining = credit[c].amount - Allocated(c) - Refunded(c)
    BY <1>7 DEF CreditUsedOnce, RemainingIsUnused
  <2>3. /\ Allocated(c) \in Nat /\ Refunded(c) \in Nat
        /\ credit[c].amount \in Int /\ credit[c].remaining \in Int
    BY AllocatedType, RefundedType, CreditFields, AmountAssumption DEF IInv, TablesOK, Amounts
  <2> QED  BY <1>2, <1>7, <1>11, <2>1, <2>2, <2>3
<1>13. DrawnWithinTotal'
  <2> SUFFICES ASSUME NEW j \in Invoices
               PROVE  invoice'[j].state = "live" =>
                        SumFunctionOnSet([c \in Credits |-> drawn'[c][j].amount], Credits)
                          <= invoice'[j].total
    BY DEF DrawnWithinTotal
  <2>1. CASE j = i
    <3> DEFINE f == [c \in Credits |-> DrawFrom(r, c)]
               h == [c \in Credits |-> drawn'[c][i].amount]
    <3>1. h = f  BY <1>10
    <3>2. SumFunctionOnSet(f, Credits) <= b.total  BY <1>3 DEF r
    <3> HIDE DEF f, h
    <3>3. SumFunctionOnSet(h, Credits) <= invoice'[i].total  BY <1>9, <3>1, <3>2
    <3> QED  BY <2>1, <3>3 DEF h
  <2>2. CASE j # i
    <3>1. invoice'[j] = invoice[j] /\ \A c \in Credits : drawn'[c][j].amount = drawn[c][j].amount
      BY <1>9, <1>10, <2>2
    <3> QED  BY <3>1, DrawsStay DEF IInv, CreditUsedOnce
  <2> QED  BY <2>1, <2>2
<1> QED  BY <1>12, <1>13 DEF CreditUsedOnce

(* A step that leaves the invoices and their draws.                         *)
LEMMA InvoicesLeft ==
  ASSUME IInv, CreditUsedOnce,
         \A c \in Credits, i \in Invoices : drawn'[c][i].amount = drawn[c][i].amount,
         \A i \in Invoices : invoice'[i].state = invoice[i].state
                             /\ invoice'[i].total = invoice[i].total
  PROVE  DrawnWithinTotal'
<1> SUFFICES ASSUME NEW i \in Invoices
             PROVE  invoice'[i].state = "live" =>
                      SumFunctionOnSet([c \in Credits |-> drawn'[c][i].amount], Credits)
                        <= invoice'[i].total
  BY DEF DrawnWithinTotal
<1> QED  BY DrawsStay DEF IInv, CreditUsedOnce

LEMMA CreateUsesOnce ==
  ASSUME IInv, CreditUsedOnce, NEW c \in Credits, NEW a \in 1..MaxAmount, CreateCredit(c, a)
  PROVE  CreditUsedOnce'
<1>1. credit[c].state = "none" /\ UNCHANGED <<refund, drawn, invoice>>  BY DEF CreateCredit
<1>2. /\ credit'[c].remaining = a /\ credit'[c].amount = a
      /\ \A d \in Credits \ {c} : credit'[d] = credit[d]
  BY DEF CreateCredit, IInv, TablesOK
<1>3. Allocated(c) = 0
  <2> DEFINE f == [i \in Invoices |-> drawn[c][i].amount]
  <2>1. \A i \in Invoices : f[i] = 0  BY <1>1 DEF IInv, TablesOK, RowsOK
  <2> HIDE DEF f
  <2>2. SumFunctionOnSet(f, Invoices) = 0  BY <2>1, SumZero, FiniteAssumption
  <2> QED  BY <2>2 DEF f, Allocated
<1>4. Refunded(c) = 0
  <2>1. RefundsOf(c, {"live"}) = {}  BY <1>1 DEF RefundsOf, IInv, TablesOK, RowsOK
  <2> QED  BY <2>1, SumEmpty DEF Refunded, SumOf
<1>5. RemainingIsUnused'
  <2> SUFFICES ASSUME NEW d \in Credits
               PROVE  credit'[d].state = "live" =>
                        credit'[d].remaining = credit'[d].amount - Allocated(d)' - Refunded(d)'
    BY DEF RemainingIsUnused
  <2>1. Allocated(d)' = Allocated(d) /\ Refunded(d)' = Refunded(d)
    BY <1>1 DEF Allocated, Refunded, RefundsOf, SumOf
  <2>2. a \in Int  OBVIOUS
  <2>3. CASE d = c  BY <1>2, <1>3, <1>4, <2>1, <2>2, <2>3
  <2>4. CASE d # c  BY <1>2, <2>1, <2>4 DEF CreditUsedOnce, RemainingIsUnused
  <2> QED  BY <2>3, <2>4
<1>6. DrawnWithinTotal'  BY <1>1, InvoicesLeft
<1> QED  BY <1>5, <1>6 DEF CreditUsedOnce

LEMMA GiveBackUsesOnce ==
  ASSUME IInv, CreditUsedOnce, NEW s \in Sessions, NEW op, Ready(s, op), NEW c \in Credits,
         NEW amount \in Amounts, NEW final \in CreditStatuses, GiveBack(c, amount, final),
         MoreRefunds, amount <= credit[c].remaining, credit[c].state = "live",
         UNCHANGED <<drawn, invoice>>
  PROVE  CreditUsedOnce'
<1>1. PICK f \in Refunds :
        /\ refund[f].state = "none"
        /\ refund'[f].state = "live" /\ refund'[f].credit = c /\ refund'[f].amount = amount
        /\ \A g \in Refunds \ {f} : refund'[g] = refund[g]
  BY GiveBackKeeps
<1>2. /\ \A d \in Credits : /\ credit'[d].state = credit[d].state
                            /\ credit'[d].amount = credit[d].amount
      /\ \A d \in Credits \ {c} : credit'[d] = credit[d]
      /\ credit'[c].remaining = credit[c].remaining - amount
  BY GiveBackKeeps
<1> DEFINE rs == RefundsOf(c, {"live"})
<1>3. rs \subseteq Refunds /\ IsFiniteSet(rs) /\ f \notin rs
  BY <1>1, SubsetsFinite DEF RefundsOf
<1>4. RefundsOf(c, {"live"})' = rs \cup {f}  BY <1>1 DEF RefundsOf
<1>5. \A d \in Credits \ {c} : /\ RefundsOf(d, {"live"})' = RefundsOf(d, {"live"})
                               /\ f \notin RefundsOf(d, {"live"})
  BY <1>1 DEF RefundsOf
<1> HIDE DEF rs
<1>6. Refunded(c)' = Refunded(c) + amount
  <2> DEFINE g == [x \in Refunds |-> refund[x].amount]
             h == [x \in Refunds |-> refund'[x].amount]
  <2>1. \A x \in Refunds : refund[x].amount \in Int
    BY AmountAssumption DEF IInv, TablesOK, RefundRows, Amounts
  <2>2. \A x \in rs : g[x] \in Int /\ h[x] = g[x]  BY <1>1, <1>3, <2>1
  <2>3. h[f] = amount /\ amount \in Int  BY <1>1, AmountAssumption DEF Amounts
  <2> HIDE DEF g, h
  <2>4. \A x \in rs \cup {f} : h[x] \in Int  BY <2>2, <2>3
  <2>5. SumFunctionOnSet(h, rs \cup {f}) = h[f] + SumFunctionOnSet(h, rs)
    BY <1>3, <2>4, SumAddOne
  <2>6. SumFunctionOnSet(h, rs) = SumFunctionOnSet(g, rs)  BY <1>3, <2>2, SumEqual
  <2>7. SumFunctionOnSet(g, rs) = Refunded(c)  BY DEF g, rs, Refunded, SumOf
  <2>8. SumFunctionOnSet(h, rs \cup {f}) = Refunded(c)'
    BY <1>4 DEF h, Refunded, SumOf
  <2>9. Refunded(c) \in Int  BY RefundedType DEF IInv
  <2> QED  BY <2>3, <2>5, <2>6, <2>7, <2>8, <2>9
<1>7. RemainingIsUnused'
  <2> SUFFICES ASSUME NEW d \in Credits
               PROVE  credit'[d].state = "live" =>
                        credit'[d].remaining = credit'[d].amount - Allocated(d)' - Refunded(d)'
    BY DEF RemainingIsUnused
  <2>1. CASE d = c
    <3>1. Allocated(c)' = Allocated(c)  BY DEF Allocated
    <3>2. credit[c].remaining = credit[c].amount - Allocated(c) - Refunded(c)
      BY DEF CreditUsedOnce, RemainingIsUnused
    <3>3. /\ Allocated(c) \in Nat /\ Refunded(c) \in Nat /\ amount \in Int
          /\ credit[c].amount \in Int /\ credit[c].remaining \in Int
      BY AllocatedType, RefundedType, CreditFields, AmountAssumption DEF IInv, TablesOK, Amounts
    <3> QED  BY <1>2, <1>6, <2>1, <3>1, <3>2, <3>3
  <2>2. CASE d # c
    <3>1. credit'[d] = credit[d] /\ RefundsOf(d, {"live"})' = RefundsOf(d, {"live"})
      BY <1>2, <1>5, <2>2
    <3>2. \A g \in RefundsOf(d, {"live"}) : refund'[g].amount = refund[g].amount
      BY <1>1, <1>5, <2>2 DEF RefundsOf
    <3> QED  BY <3>1, <3>2, BalanceStays DEF IInv, CreditUsedOnce
  <2> QED  BY <2>1, <2>2
<1>8. DrawnWithinTotal'  BY InvoicesLeft
<1> QED  BY <1>7, <1>8 DEF CreditUsedOnce

(* A step after which a credit that is live was so before, with the same    *)
(* balance, draws and refunds, or was put right.                            *)
LEMMA BalancesStay ==
  ASSUME IInv, CreditUsedOnce,
         \A c \in Credits :
           \/ /\ credit'[c].state = credit[c].state /\ credit'[c].amount = credit[c].amount
              /\ credit'[c].remaining = credit[c].remaining
              /\ RefundsOf(c, {"live"})' = RefundsOf(c, {"live"})
           \/ credit'[c].state # "live",
         \A f \in Refunds : refund'[f].amount = refund[f].amount,
         \A c \in Credits, i \in Invoices : drawn'[c][i].amount = drawn[c][i].amount,
         \A i \in Invoices : invoice'[i].state = invoice[i].state
                             /\ invoice'[i].total = invoice[i].total
  PROVE  CreditUsedOnce'
<1>1. RemainingIsUnused'
  <2> SUFFICES ASSUME NEW d \in Credits, credit'[d].state = "live"
               PROVE  credit'[d].remaining = credit'[d].amount - Allocated(d)' - Refunded(d)'
    BY DEF RemainingIsUnused
  <2>1. \A g \in RefundsOf(d, {"live"}) : refund'[g].amount = refund[g].amount
    BY DEF RefundsOf
  <2> QED  BY <2>1, BalanceStays DEF IInv, CreditUsedOnce
<1>2. DrawnWithinTotal'  BY InvoicesLeft
<1> QED  BY <1>1, <1>2 DEF CreditUsedOnce

LEMMA UpdateUsesOnce ==
  ASSUME IInv, CreditUsedOnce, NEW s \in Sessions, UpdateCredit(s)
  PROVE  CreditUsedOnce'
<1>1. PICK c \in Credits :
      /\ \A d \in Credits \ {c} : credit'[d] = credit[d]
      /\ credit'[c].state = credit[c].state
      /\ credit'[c].remaining = credit'[c].amount - Allocated(c) - Refunded(c)
      /\ \A f \in Refunds : /\ refund'[f].state = refund[f].state
                            /\ refund'[f].credit = refund[f].credit
                            /\ refund'[f].amount = refund[f].amount
      /\ UNCHANGED <<drawn, invoice>>
  BY UpdateKeeps
<1>2. \A d \in Credits : /\ RefundsOf(d, {"live"})' = RefundsOf(d, {"live"})
                         /\ \A f \in RefundsOf(d, {"live"}) : refund'[f].amount = refund[f].amount
  BY <1>1 DEF RefundsOf
<1>3. RemainingIsUnused'
  <2> SUFFICES ASSUME NEW d \in Credits
               PROVE  credit'[d].state = "live" =>
                        credit'[d].remaining = credit'[d].amount - Allocated(d)' - Refunded(d)'
    BY DEF RemainingIsUnused
  <2>1. CASE d = c
    <3>1. Allocated(c)' = Allocated(c)  BY <1>1 DEF Allocated
    <3>2. Refunded(c)' = Refunded(c)  BY <1>1, <1>2, RefundsSame DEF IInv
    <3> QED  BY <1>1, <2>1, <3>1, <3>2
  <2>2. CASE d # c  BY <1>1, <1>2, <2>2, BalanceStays DEF IInv, CreditUsedOnce
  <2> QED  BY <2>1, <2>2
<1>4. DrawnWithinTotal'  BY <1>1, InvoicesLeft
<1> QED  BY <1>3, <1>4 DEF CreditUsedOnce

LEMMA TrashUsesOnce ==
  ASSUME IInv, CreditUsedOnce, NEW s \in Sessions, TrashCredit(s)
  PROVE  CreditUsedOnce'
<1>1. /\ \A c \in Credits :
           \/ credit'[c] = credit[c] /\ RefundsOf(c, {"live"})' = RefundsOf(c, {"live"})
           \/ credit'[c].state = "trashed"
      /\ \A f \in Refunds : refund'[f].amount = refund[f].amount
      /\ \A c \in Credits, i \in Invoices : drawn'[c][i].amount = drawn[c][i].amount
      /\ UNCHANGED invoice
  BY TrashKeeps
<1>2. \A c \in Credits :
        \/ /\ credit'[c].state = credit[c].state /\ credit'[c].amount = credit[c].amount
           /\ credit'[c].remaining = credit[c].remaining
           /\ RefundsOf(c, {"live"})' = RefundsOf(c, {"live"})
        \/ credit'[c].state # "live"
  BY <1>1
<1> QED  BY <1>1, <1>2, BalancesStay

LEMMA RowsLeftUseOnce ==
  ASSUME IInv, CreditUsedOnce, UNCHANGED <<credit, refund, drawn, invoice>>
  PROVE  CreditUsedOnce'
BY DEF CreditUsedOnce, RemainingIsUnused, DrawnWithinTotal, Allocated, Refunded, RefundsOf, SumOf

LEMMA StepUsesOnce ==
  ASSUME IInv, CreditUsedOnce, NEW s \in Sessions, Step(s),
         Endpoints \cap {"restoreCredit", "trashRefund", "restoreRefund"} = {}
  PROVE  CreditUsedOnce'
<1>1. CASE Acquire(s) \/ Refuse(s)  BY <1>1, RowsLeftUseOnce DEF Acquire, Refuse
<1>2. CASE IssueInvoice(s)  BY <1>2, IssueUsesOnce
<1>3. CASE RefundCredit(s)  BY <1>3, RefundGives, GiveBackUsesOnce
<1>4. CASE CancelCredit(s)  BY <1>4, CancelGives, GiveBackUsesOnce
<1>5. CASE UpdateCredit(s)  BY <1>5, UpdateUsesOnce
<1>6. CASE TrashCredit(s)  BY <1>6, TrashUsesOnce
<1>7. CASE RestoreCredit(s) \/ TrashRefund(s) \/ RestoreRefund(s)
  <2>1. req[s].op \in {"restoreCredit", "trashRefund", "restoreRefund"}
    BY <1>7 DEF RestoreCredit, TrashRefund, RestoreRefund, FlipRefund, Ready
  <2>2. req[s].op \in Endpoints  BY <2>1, Asked DEF RequestOK
  <2> QED  BY <2>1, <2>2
<1>8. CASE RemoveSource(s) \/ RestoreSource(s)
  <2>1. /\ \A c \in Credits : /\ credit'[c].state = credit[c].state
                              /\ credit'[c].amount = credit[c].amount
                              /\ credit'[c].remaining = credit[c].remaining
        /\ UNCHANGED <<refund, drawn, invoice>>
    BY <1>8, FlipSourceKeeps
  <2>2. \A c \in Credits : RefundsOf(c, {"live"})' = RefundsOf(c, {"live"})
    BY <2>1 DEF RefundsOf
  <2> QED  BY <2>1, <2>2, BalancesStay
<1> QED  BY <1>1, <1>2, <1>3, <1>4, <1>5, <1>6, <1>7, <1>8 DEF Step

LEMMA NextUsesOnce ==
  ASSUME IInv, CreditUsedOnce, [Next]_vars,
         Endpoints \cap {"restoreCredit", "trashRefund", "restoreRefund"} = {}
  PROVE  CreditUsedOnce'
<1>1. ASSUME NEW c \in Credits, NEW a \in 1..MaxAmount, CreateCredit(c, a) PROVE CreditUsedOnce'
  BY <1>1, CreateUsesOnce
<1>2. ASSUME NEW c \in Credits, NEW i \in Invoices,
             FlipDraw("removeDraw", c, i, FALSE) \/ FlipDraw("restoreDraw", c, i, TRUE)
      PROVE  CreditUsedOnce'
  <2>1. /\ UNCHANGED <<credit, refund>>
        /\ \A d \in Credits, j \in Invoices : drawn'[d][j].amount = drawn[d][j].amount
        /\ \A j \in Invoices : invoice'[j].state = invoice[j].state
                               /\ invoice'[j].total = invoice[j].total
    BY <1>2, FlipDrawKeeps
  <2>2. \A d \in Credits : RefundsOf(d, {"live"})' = RefundsOf(d, {"live"})
    BY <2>1 DEF RefundsOf
  <2> QED  BY <2>1, <2>2, BalancesStay
<1>3. ASSUME NEW s \in Sessions, Step(s) PROVE CreditUsedOnce'  BY <1>3, StepUsesOnce
<1>4. ASSUME NEW s \in Sessions, Request(s) \/ Rollback(s) \/ DeadlockVictim(s)
      PROVE  CreditUsedOnce'
  <2>1. UNCHANGED <<credit, refund, drawn, invoice>>
    BY <1>4 DEF Request, BeginInvoice, BeginOnCredit, BeginWithAmount, BeginOnRefund, Begin,
                Rollback, DeadlockVictim
  <2> QED  BY <2>1, RowsLeftUseOnce
<1>5. CASE UNCHANGED vars  BY <1>5, RowsLeftUseOnce DEF vars
<1> QED  BY <1>1, <1>2, <1>3, <1>4, <1>5 DEF Next

LEMMA NothingUsedYet == Init => CreditUsedOnce
<1> SUFFICES ASSUME Init PROVE CreditUsedOnce
  OBVIOUS
<1>1. RemainingIsUnused  BY DEF Init, RemainingIsUnused
<1>2. DrawnWithinTotal  BY DEF Init, DrawnWithinTotal
<1> QED  BY <1>1, <1>2 DEF CreditUsedOnce

(* No credit is used twice: as long as neither a refund is moved to or from *)
(* the trash nor a credit taken out of it (which write a balance of their   *)
(* own), the balance of a live credit is what its draws and refunds leave,  *)
(* and the credits never pay more of an invoice than its total, however     *)
(* invoices, refunds, corrections and cancellations interleave.             *)
THEOREM NoCreditTwice ==
  ASSUME Endpoints \cap {"restoreCredit", "trashRefund", "restoreRefund"} = {}
  PROVE  Spec => []CreditUsedOnce
<1>1. IInv /\ CreditUsedOnce /\ [Next]_vars => (IInv /\ CreditUsedOnce)'
  BY NextKeeps, NextUsesOnce
<1> QED  BY <1>1, InitHolds, NothingUsedYet, PTL DEF Spec

-----------------------------------------------------------------------------
(* The cash books and the invoices follow the credits.                      *)

(* Only a credit that has nothing left was refunded: it was cancelled.      *)
RefundedIsSpent ==
  \A f \in Refunds : refund[f].state = "live" => credit[refund[f].credit].remaining = 0

LEMMA NothingDrawn ==
  ASSUME NEW r, NEW b \in Bills, r.bill = {b}, NEW c, DrawFrom(r, c) = 0
  PROVE  SyndicPart(r, c) = 0
<1> DEFINE t == b.total
           e == b.syndic
<1>1. t \in Nat \ {0} /\ e \in Int  BY BillsAssumption
<1>2. SyndicPart(r, c) = IF c \in Banked \/ ~credit[c].funded THEN 0
                         ELSE (2 * 0 * e + t) \div (2 * t)
  BY BillOf DEF SyndicPart
<1> HIDE DEF t, e
<1>3. 2 * 0 * e + t = t  BY <1>1
<1>4. t \div (2 * t) = 0
  <2> DEFINE y == 2 * t
  <2>1. y \in Nat \ {0} /\ 0 <= t /\ t < y  BY <1>1
  <2> HIDE DEF y
  <2>2. t \div y = 0  BY <1>1, <2>1
  <2> QED  BY <2>2 DEF y
<1> QED  BY <1>2, <1>3, <1>4

(* What the ventilation takes from the receipt of a credit is its own       *)
(* syndic part, and it takes nothing from a refund.                         *)
LEMMA MovementsOfADraw ==
  ASSUME IInv, RefundedIsSpent, NEW r, NEW b \in Bills, r.bill = {b}, r.candidates \subseteq Credits
  PROVE  /\ \A c \in Credits :
              /\ Moved(r, <<"source", c>>) = SyndicPart(r, c)
              /\ (IF LinkedMovement(c) = {} THEN 0 ELSE SyndicPart(r, c)) = SyndicPart(r, c)
         /\ \A f \in Refunds : Moved(r, <<"refund", f>>) = 0
<1> DEFINE part == [c \in Credits |-> SyndicPart(r, c)]
           Of(m) == {c \in Credits : m \in LinkedMovement(c)}
           out(c) == RefundsOf(c, {"live"})
<1>1. \A m : Of(m) \subseteq Credits /\ IsFiniteSet(Of(m))  BY SubsetsFinite
<1>2. \A m : Moved(r, m) = SumFunctionOnSet(part, Of(m))  BY DEF Moved
<1>3. \A c \in Credits : out(c) # {} => SyndicPart(r, c) = 0
  <2> SUFFICES ASSUME NEW c \in Credits, out(c) # {} PROVE SyndicPart(r, c) = 0
    OBVIOUS
  <2>1. credit[c].remaining = 0  BY DEF RefundsOf, RefundedIsSpent
  <2>2. DrawFrom(r, c) = 0  BY <2>1, DrawFits DEF IInv
  <2> QED  BY <2>2, NothingDrawn
<1>4. \A c \in Credits : part[c] = SyndicPart(r, c) /\ part[c] \in Int
  BY SyndicType DEF IInv
<1>5. \A c \in Credits :
        LinkedMovement(c) = IF out(c) # {} THEN {<<"refund", Max(out(c))>>}
                            ELSE IF credit[c].funded /\ c \notin Banked THEN {<<"source", c>>} ELSE {}
  BY DEF LinkedMovement
<1>6. ASSUME NEW f \in Refunds PROVE Moved(r, <<"refund", f>>) = 0
  <2> DEFINE S == Of(<<"refund", f>>)
  <2>1. \A c \in S : out(c) # {}  BY <1>5
  <2>2. \A c \in S : part[c] = 0  BY <1>1, <1>3, <1>4, <2>1
  <2> HIDE DEF part
  <2>3. SumFunctionOnSet(part, S) = 0
    <3>1. IsFiniteSet(S)  BY <1>1
    <3> HIDE DEF S
    <3> QED  BY <2>2, <3>1, SumZero
  <2> QED  BY <1>2, <2>3
<1>7. ASSUME NEW c \in Credits
      PROVE  /\ Moved(r, <<"source", c>>) = SyndicPart(r, c)
             /\ (IF LinkedMovement(c) = {} THEN 0 ELSE SyndicPart(r, c)) = SyndicPart(r, c)
  <2> DEFINE S == Of(<<"source", c>>)
  <2>1. S = IF out(c) = {} /\ credit[c].funded /\ c \notin Banked THEN {c} ELSE {}
    BY <1>5
  <2>2. ~(out(c) = {} /\ credit[c].funded /\ c \notin Banked) => SyndicPart(r, c) = 0
    BY <1>3 DEF SyndicPart
  <2>3. SumFunctionOnSet(part, S) = SyndicPart(r, c)
    <3> HIDE DEF part, out
    <3>1. SumFunctionOnSet(part, {}) = 0  BY SumEmpty
    <3>2. SumFunctionOnSet(part, {c}) = SyndicPart(r, c)
      <4>1. {} \cup {c} = {c} /\ c \notin {} /\ IsFiniteSet({})  BY FS_EmptySet
      <4>2. \A x \in {} \cup {c} : part[x] \in Int  BY <1>4
      <4>3. SumFunctionOnSet(part, {} \cup {c}) = part[c] + SumFunctionOnSet(part, {})
        BY <4>1, <4>2, SumAddOne
      <4> QED  BY <1>4, <3>1, <4>1, <4>3
    <3> HIDE DEF S
    <3> QED  BY <2>1, <2>2, <3>1, <3>2
  <2>4. LinkedMovement(c) = {} => SyndicPart(r, c) = 0  BY <1>5, <2>2
  <2> QED  BY <1>2, <2>3, <2>4
<1> QED  BY <1>6, <1>7

LEMMA PaidSame ==
  ASSUME NEW i \in Invoices, \A c \in Credits : drawn'[c][i] = drawn[c][i]
  PROVE  PaidOn(i, drawn') = PaidOn(i, drawn)
<1>1. [c \in Credits |-> drawn'[c][i].amount] = [c \in Credits |-> drawn[c][i].amount]
  OBVIOUS
<1>2. {c \in Credits : drawn'[c][i].paid} = {c \in Credits : drawn[c][i].paid}  OBVIOUS
<1> QED  BY <1>1, <1>2 DEF PaidOn

BooksInv == RefundedIsSpent /\ CashFollowsCredit /\ InvoiceFollowsDraws

LEMMA IssueBooks ==
  ASSUME IInv, BooksInv, NEW s \in Sessions, IssueInvoice(s)
  PROVE  BooksInv'
<1> DEFINE r == req[s]
<1>1. PICK i \in Invoices, b \in Bills : IssueEffect(r, i, b)  BY Issued
<1>2. /\ \A c \in Credits :
           /\ Moved(r, <<"source", c>>) = SyndicPart(r, c)
           /\ (IF LinkedMovement(c) = {} THEN 0 ELSE SyndicPart(r, c)) = SyndicPart(r, c)
      /\ \A f \in Refunds : Moved(r, <<"refund", f>>) = 0
  BY <1>1, MovementsOfADraw DEF IssueEffect, BooksInv
<1>3. \A c \in Credits : DrawFrom(r, c) \in Nat /\ DrawFrom(r, c) <= credit[c].remaining
                         /\ SyndicPart(r, c) \in Int
  BY <1>1, DrawFits, SyndicType DEF IssueEffect, IInv
<1>4. credit \in [Credits -> CreditRows] /\ refund \in [Refunds -> RefundRows]
      /\ drawn \in [Credits -> [Invoices -> Draws]] /\ invoice \in [Invoices -> InvoiceRows]
  BY DEF IInv, TablesOK
<1>5. \A c \in Credits :
        /\ credit'[c].state = credit[c].state /\ credit'[c].amount = credit[c].amount
        /\ credit'[c].remaining = credit[c].remaining - DrawFrom(r, c)
        /\ credit'[c].cash = credit[c].cash - SyndicPart(r, c)
        /\ credit'[c].syndic = credit[c].syndic + SyndicPart(r, c)
  BY <1>1, <1>2 DEF IssueEffect
<1>6. \A f \in Refunds : /\ refund'[f].state = refund[f].state
                         /\ refund'[f].credit = refund[f].credit
                         /\ refund'[f].amount = refund[f].amount
                         /\ refund'[f].cash = refund[f].cash
  <2>1. \A f \in Refunds : refund'[f] = [refund[f] EXCEPT !.cash = refund[f].cash - 0]
    BY <1>1, <1>2 DEF IssueEffect
  <2>2. \A f \in Refunds : refund[f].cash \in Int  BY <1>4 DEF RefundRows
  <2> QED  BY <1>4, <2>1, <2>2 DEF RefundRows
<1>7. RefundedIsSpent'
  <2> SUFFICES ASSUME NEW f \in Refunds, refund'[f].state = "live"
               PROVE  credit'[refund'[f].credit].remaining = 0
    BY DEF RefundedIsSpent
  <2>1. refund[f].credit \in Credits /\ credit[refund[f].credit].remaining = 0
    BY <1>6 DEF BooksInv, RefundedIsSpent, IInv, TablesOK, RowsOK
  <2> QED  BY <1>3, <1>5, <1>6, <2>1
<1>8. CashFollowsCredit'
  <2>1. ASSUME NEW c \in Credits \ Banked, credit'[c].state = "live"
        PROVE  credit'[c].cash + credit'[c].syndic = credit'[c].amount
    <3>1. credit[c].cash + credit[c].syndic = credit[c].amount
      BY <1>5, <2>1 DEF BooksInv, CashFollowsCredit
    <3>2. credit[c].cash \in Int /\ credit[c].syndic \in Int  BY <1>4, CreditFields
    <3> QED  BY <1>3, <1>5, <3>1, <3>2
  <2>2. \A f \in Refunds : refund'[f].state = "live" => refund'[f].cash = refund'[f].amount
    BY <1>6 DEF BooksInv, CashFollowsCredit
  <2> QED  BY <2>1, <2>2 DEF CashFollowsCredit
<1>9. InvoiceFollowsDraws'
  <2> SUFFICES ASSUME NEW j \in Invoices, invoice'[j].state = "live"
               PROVE  invoice'[j].status = InvoiceStatus(invoice'[j].total, PaidOn(j, drawn'))
    BY DEF InvoiceFollowsDraws
  <2>1. CASE j = i  BY <1>1, <1>4, <2>1 DEF IssueEffect
  <2>2. CASE j # i
    <3>1. invoice'[j] = invoice[j]  BY <1>1, <1>4, <2>2 DEF IssueEffect
    <3>2. \A c \in Credits : drawn'[c][j] = drawn[c][j]  BY <1>1, <1>4, <2>2 DEF IssueEffect
    <3>3. PaidOn(j, drawn') = PaidOn(j, drawn)  BY <3>2, PaidSame
    <3> QED  BY <3>1, <3>3 DEF BooksInv, InvoiceFollowsDraws
  <2> QED  BY <2>1, <2>2
<1> QED  BY <1>7, <1>8, <1>9 DEF BooksInv

LEMMA CreateBooks ==
  ASSUME IInv, BooksInv, NEW c \in Credits, NEW a \in 1..MaxAmount, CreateCredit(c, a)
  PROVE  BooksInv'
<1>1. credit[c].state = "none" /\ UNCHANGED <<refund, drawn, invoice>>  BY DEF CreateCredit
<1>2. /\ credit'[c].cash = IF c \in Banked THEN 0 ELSE a
      /\ credit'[c].syndic = 0 /\ credit'[c].amount = a
      /\ \A d \in Credits \ {c} : credit'[d] = credit[d]
  BY DEF CreateCredit, IInv, TablesOK
<1>3. RefundedIsSpent'
  <2>1. \A f \in Refunds : refund[f].state = "live" => refund[f].credit \in Credits \ {c}
    BY <1>1 DEF IInv, TablesOK, RowsOK
  <2> QED  BY <1>1, <1>2, <2>1 DEF BooksInv, RefundedIsSpent
<1>4. CashFollowsCredit'
  BY <1>1, <1>2 DEF BooksInv, CashFollowsCredit
<1>5. InvoiceFollowsDraws'  BY <1>1 DEF BooksInv, InvoiceFollowsDraws
<1> QED  BY <1>3, <1>4, <1>5 DEF BooksInv

LEMMA CancelBooks ==
  ASSUME IInv, BooksInv, NEW s \in Sessions, CancelCredit(s)
  PROVE  BooksInv'
<1>1. PICK c \in Credits, amount \in Amounts, final \in CreditStatuses :
        /\ Ready(s, "cancel") /\ GiveBack(c, amount, final) /\ MoreRefunds
        /\ amount = credit[c].remaining /\ UNCHANGED <<drawn, invoice>>
  BY CancelGives
<1> DEFINE f == NextRefund
<1>2. f \in Refunds  BY <1>1, FreeRefund
<1>3. credit \in [Credits -> CreditRows] /\ refund \in [Refunds -> RefundRows]
  BY DEF IInv, TablesOK
<1>4. amount \in Int  BY AmountAssumption DEF Amounts
<1>5. /\ credit'[c].remaining = credit[c].remaining - amount
      /\ \A d \in Credits :
           /\ credit'[d].state = credit[d].state /\ credit'[d].amount = credit[d].amount
           /\ credit'[d].cash = credit[d].cash /\ credit'[d].syndic = credit[d].syndic
      /\ \A d \in Credits \ {c} : credit'[d].remaining = credit[d].remaining
  <2>1. credit' = [credit EXCEPT ![c].remaining = @ - amount, ![c].status = final]
    BY <1>1 DEF GiveBack
  <2> QED  BY <1>3, <2>1 DEF CreditRows
<1>6. credit'[c].remaining = 0  BY <1>1, <1>4, <1>5
<1>7. refund' = [refund EXCEPT ![f] = [state |-> "live", credit |-> c,
                                       amount |-> amount, cash |-> amount]]
  BY <1>1 DEF GiveBack
<1> HIDE DEF f
<1>8. /\ refund'[f].credit = c /\ refund'[f].cash = refund'[f].amount
      /\ \A g \in Refunds \ {f} : refund'[g] = refund[g]
  BY <1>2, <1>3, <1>7
<1>9. RefundedIsSpent'
  <2>1. ASSUME NEW g \in Refunds, refund'[g].state = "live"
        PROVE  credit'[refund'[g].credit].remaining = 0
    <3>1. CASE g # f
      <4>1. refund[g].credit \in Credits /\ credit[refund[g].credit].remaining = 0
            /\ refund'[g] = refund[g]
        BY <1>8, <2>1, <3>1 DEF BooksInv, RefundedIsSpent, IInv, TablesOK, RowsOK
      <4> QED  BY <1>5, <1>6, <4>1
    <3>2. CASE g = f  BY <1>6, <1>8, <3>2
    <3> QED  BY <3>1, <3>2
  <2> QED  BY <2>1 DEF RefundedIsSpent
<1>10. CashFollowsCredit'  BY <1>5, <1>8 DEF BooksInv, CashFollowsCredit
<1>11. InvoiceFollowsDraws'  BY <1>1 DEF BooksInv, InvoiceFollowsDraws
<1> QED  BY <1>9, <1>10, <1>11 DEF BooksInv

LEMMA FlipSourceBooks ==
  ASSUME IInv, BooksInv, NEW s \in Sessions, RemoveSource(s) \/ RestoreSource(s)
  PROVE  BooksInv'
<1> DEFINE c == req[s].credit
<1>1. PICK op \in {"removeSource", "restoreSource"}, funded \in BOOLEAN :
        /\ Ready(s, op) /\ UNCHANGED <<refund, drawn, invoice>>
        /\ credit' = [credit EXCEPT ![c].funded = funded]
  BY DEF RemoveSource, RestoreSource, FlipSource
<1>2. credit \in [Credits -> CreditRows]  BY DEF IInv, TablesOK
<1> HIDE DEF c
<1>3. \A d \in Credits :
        /\ credit'[d].state = credit[d].state /\ credit'[d].amount = credit[d].amount
        /\ credit'[d].remaining = credit[d].remaining
        /\ credit'[d].cash = credit[d].cash /\ credit'[d].syndic = credit[d].syndic
  BY <1>1, <1>2 DEF CreditRows
<1>4. RefundedIsSpent'
  BY <1>1, <1>3 DEF BooksInv, RefundedIsSpent, IInv, TablesOK, RowsOK
<1>5. CashFollowsCredit'  BY <1>1, <1>3 DEF BooksInv, CashFollowsCredit
<1>6. InvoiceFollowsDraws'  BY <1>1 DEF BooksInv, InvoiceFollowsDraws
<1> QED  BY <1>4, <1>5, <1>6 DEF BooksInv

LEMMA FlipDrawBooks ==
  ASSUME IInv, BooksInv, NEW op, NEW c \in Credits, NEW i \in Invoices, NEW paid \in BOOLEAN,
         FlipDraw(op, c, i, paid)
  PROVE  BooksInv'
<1>1. /\ UNCHANGED <<credit, refund>> /\ drawn' = [drawn EXCEPT ![c][i].paid = paid]
      /\ invoice' = [invoice EXCEPT ![i].status = InvoiceStatus(invoice[i].total, PaidOn(i, drawn'))]
  BY DEF FlipDraw
<1>2. drawn \in [Credits -> [Invoices -> Draws]] /\ invoice \in [Invoices -> InvoiceRows]
  BY DEF IInv, TablesOK
<1>3. RefundedIsSpent' /\ CashFollowsCredit'
  BY <1>1 DEF BooksInv, RefundedIsSpent, CashFollowsCredit
<1>4. InvoiceFollowsDraws'
  <2> SUFFICES ASSUME NEW j \in Invoices, invoice'[j].state = "live"
               PROVE  invoice'[j].status = InvoiceStatus(invoice'[j].total, PaidOn(j, drawn'))
    BY DEF InvoiceFollowsDraws
  <2>1. CASE j = i
    <3> DEFINE status == InvoiceStatus(invoice[i].total, PaidOn(i, drawn'))
    <3>1. invoice' = [invoice EXCEPT ![i].status = status]  BY <1>1
    <3> HIDE DEF status
    <3>2. invoice'[i].status = status /\ invoice'[i].total = invoice[i].total
      BY <1>2, <3>1 DEF InvoiceRows
    <3> QED  BY <2>1, <3>2 DEF status
  <2>2. CASE j # i
    <3>1. invoice'[j] = invoice[j]  BY <1>1, <1>2, <2>2
    <3>2. \A d \in Credits : drawn'[d][j] = drawn[d][j]  BY <1>1, <1>2, <2>2
    <3>3. PaidOn(j, drawn') = PaidOn(j, drawn)  BY <3>2, PaidSame
    <3> QED  BY <3>1, <3>3 DEF BooksInv, InvoiceFollowsDraws
  <2> QED  BY <2>1, <2>2
<1> QED  BY <1>3, <1>4 DEF BooksInv

LEMMA RowsLeftBooks ==
  ASSUME BooksInv, UNCHANGED <<credit, refund, drawn, invoice>> PROVE BooksInv'
BY DEF BooksInv, RefundedIsSpent, CashFollowsCredit, InvoiceFollowsDraws

BookEndpoints == {"create", "issue", "cancel", "removeSource", "restoreSource",
                  "removeDraw", "restoreDraw"}

LEMMA NextBooks ==
  ASSUME IInv, BooksInv, [Next]_vars, Endpoints \subseteq BookEndpoints
  PROVE  BooksInv'
<1>1. ASSUME NEW c \in Credits, NEW a \in 1..MaxAmount, CreateCredit(c, a) PROVE BooksInv'
  BY <1>1, CreateBooks
<1>2. ASSUME NEW c \in Credits, NEW i \in Invoices,
             FlipDraw("removeDraw", c, i, FALSE) \/ FlipDraw("restoreDraw", c, i, TRUE)
      PROVE  BooksInv'
  BY <1>2, FlipDrawBooks
<1>3. ASSUME NEW s \in Sessions, Step(s) PROVE BooksInv'
  <2>1. CASE Acquire(s) \/ Refuse(s)  BY <2>1, RowsLeftBooks DEF Acquire, Refuse
  <2>2. CASE IssueInvoice(s)  BY <2>2, IssueBooks
  <2>3. CASE CancelCredit(s)  BY <2>3, CancelBooks
  <2>4. CASE RemoveSource(s) \/ RestoreSource(s)  BY <2>4, FlipSourceBooks
  <2>5. CASE RefundCredit(s) \/ UpdateCredit(s) \/ TrashCredit(s) \/ RestoreCredit(s)
             \/ TrashRefund(s) \/ RestoreRefund(s)
    <3>1. req[s].op \in {"refund", "update", "trashCredit", "restoreCredit", "trashRefund",
                         "restoreRefund"}
      BY <2>5 DEF RefundCredit, UpdateCredit, TrashCredit, RestoreCredit, TrashRefund,
                  RestoreRefund, FlipRefund, Ready
    <3>2. req[s].op \in Endpoints  BY <3>1, Asked DEF RequestOK
    <3> QED  BY <3>1, <3>2 DEF BookEndpoints
  <2> QED  BY <1>3, <2>1, <2>2, <2>3, <2>4, <2>5 DEF Step
<1>4. ASSUME NEW s \in Sessions, Request(s) \/ Rollback(s) \/ DeadlockVictim(s)
      PROVE  BooksInv'
  <2>1. UNCHANGED <<credit, refund, drawn, invoice>>
    BY <1>4 DEF Request, BeginInvoice, BeginOnCredit, BeginWithAmount, BeginOnRefund, Begin,
                Rollback, DeadlockVictim
  <2> QED  BY <2>1, RowsLeftBooks
<1>5. CASE UNCHANGED vars  BY <1>5, RowsLeftBooks DEF vars
<1> QED  BY <1>1, <1>2, <1>3, <1>4, <1>5 DEF Next

(* The ventilation loses nothing and the invoices follow their draws: where *)
(* a credit is given back by its cancellation only, the receipt of a live   *)
(* credit is split whole between main and syndic cash, a refund is paid out *)
(* as written, and the status of an invoice is that of the draws that still *)
(* stand, through any removals and returns of sources and draws.            *)
THEOREM BooksFollowCredits ==
  ASSUME Endpoints \subseteq BookEndpoints
  PROVE  Spec => [](CashFollowsCredit /\ InvoiceFollowsDraws)
<1>1. Init => BooksInv
  BY DEF Init, BooksInv, RefundedIsSpent, CashFollowsCredit, InvoiceFollowsDraws
<1>2. IInv /\ BooksInv /\ [Next]_vars => (IInv /\ BooksInv)'  BY NextKeeps, NextBooks
<1>3. BooksInv => CashFollowsCredit /\ InvoiceFollowsDraws  BY DEF BooksInv
<1> QED  BY <1>1, <1>2, <1>3, InitHolds, PTL DEF Spec

-----------------------------------------------------------------------------
(* The oldest credit first.                                                 *)

(* Where an invoice comes to a credit, the older ones that it could draw    *)
(* have given all they had: what is left to pay after them is positive, and *)
(* each gave the least of what it had and of what was left to pay.          *)
LEMMA OlderAreSpent ==
  ASSUME TablesOK, NEW r, NEW b \in Bills, r.bill = {b}, r.candidates \subseteq Credits,
         NEW c \in Credits, DrawFrom(r, c) > 0,
         NEW d \in r.candidates, d < c, Eligible(d)
  PROVE  DrawFrom(r, d) = credit[d].remaining
<1> DEFINE older == {e \in r.candidates : Eligible(e) /\ e < d}
           before == {e \in r.candidates : Eligible(e) /\ e < c}
           left == [e \in Credits |-> credit[e].remaining]
<1>1. older \subseteq Credits /\ before \subseteq Credits /\ IsFiniteSet(before)
      /\ IsFiniteSet(older) /\ d \in Credits
  BY SubsetsFinite
<1>2. \A e \in Credits : left[e] \in Nat /\ left[e] = credit[e].remaining
  BY CreditFields, AmountAssumption DEF TablesOK, Amounts
<1>3. /\ d \notin older /\ older \cup {d} \subseteq before
      /\ IsFiniteSet(older \cup {d})
  <2>1. \A e \in older : e \in Nat /\ e < d  BY <1>1, OrderAssumption
  <2>2. d \in Nat /\ c \in Nat  BY <1>1, OrderAssumption
  <2>3. d \notin older /\ \A e \in older : e < c  BY <2>1, <2>2
  <2>4. older \cup {d} \subseteq before  BY <2>3
  <2> HIDE DEF older, before
  <2> QED  BY <1>1, <2>3, <2>4, FS_Subset
<1>4. /\ BalancesOf(before) = SumFunctionOnSet(left, before)
      /\ BalancesOf(older) = SumFunctionOnSet(left, older)
  BY DEF BalancesOf
<1>5. /\ DrawFrom(r, c) = IF c \in r.candidates /\ Eligible(c)
                          THEN AtMost(credit[c].remaining, AtLeast0(b.total - BalancesOf(before)))
                          ELSE 0
      /\ DrawFrom(r, d) = AtMost(credit[d].remaining, AtLeast0(b.total - BalancesOf(older)))
  BY BillOf DEF DrawFrom
<1>6. b.total \in Nat /\ credit[c].remaining \in Nat  BY <1>2, BillsAssumption
<1> HIDE DEF older, before, left
<1>7. SumFunctionOnSet(left, older \cup {d}) = left[d] + SumFunctionOnSet(left, older)
  <2>1. \A e \in older \cup {d} : left[e] \in Int  BY <1>1, <1>2
  <2> QED  BY <1>1, <1>3, <2>1, SumAddOne
<1>8. SumFunctionOnSet(left, older \cup {d}) <= SumFunctionOnSet(left, before)
  <2>1. \A e \in before : left[e] \in Nat  BY <1>1, <1>2
  <2> QED  BY <1>1, <1>3, <2>1, SumGrows
<1>9. SumFunctionOnSet(left, older) \in Nat /\ SumFunctionOnSet(left, before) \in Nat
  <2>1. (\A e \in before : left[e] \in Nat) /\ \A e \in older : left[e] \in Nat  BY <1>1, <1>2
  <2> QED  BY <1>1, <2>1, SumNat
<1>10. b.total - BalancesOf(before) > 0
  BY <1>4, <1>5, <1>6, <1>9 DEF AtMost, AtLeast0
<1>11. left[d] \in Nat /\ left[d] = credit[d].remaining  BY <1>1, <1>2
<1>12. b.total - BalancesOf(older) >= credit[d].remaining
  BY <1>4, <1>6, <1>7, <1>8, <1>9, <1>10, <1>11
<1> QED  BY <1>4, <1>5, <1>6, <1>9, <1>11, <1>12 DEF AtMost, AtLeast0

(* An invoice leaves nothing on the credits that are older than one it      *)
(* draws: those it could draw are spent, and the others are as before.      *)
LEMMA IssueLeavesNoOlder ==
  ASSUME IInv, NEW s \in Sessions, IssueInvoice(s), NEW c \in Credits, NEW d \in Credits,
         NEW i \in Invoices, d < c, drawn[c][i].amount = 0, drawn'[c][i].amount > 0,
         d \in req[s].candidates
  PROVE  ~(Eligible(d))'
<1> DEFINE r == req[s]
<1>1. PICK j \in Invoices, b \in Bills : IssueEffect(r, j, b)  BY Issued
<1>2. DrawFrom(r, c) \in Nat /\ DrawFrom(r, d) \in Nat /\ DrawFrom(r, d) <= credit[d].remaining
  BY <1>1, DrawFits DEF IssueEffect, IInv
<1>3. DrawFrom(r, c) > 0
  <2>1. drawn' = [e \in Credits |->
          IF DrawFrom(r, e) > 0
          THEN [drawn[e] EXCEPT ![j] = [amount |-> DrawFrom(r, e), paid |-> TRUE]]
          ELSE drawn[e]]
    BY <1>1 DEF IssueEffect
  <2>2. drawn'[c] # drawn[c]  OBVIOUS
  <2> QED  BY <2>1, <2>2
<1>4. /\ credit'[d].state = credit[d].state
      /\ credit'[d].remaining = credit[d].remaining - DrawFrom(r, d)
      /\ DrawFrom(r, d) = 0 => credit'[d].status = credit[d].status
  BY <1>1 DEF IssueEffect
<1>5. credit[d].remaining \in Nat  BY CreditFields, AmountAssumption DEF IInv, TablesOK, Amounts
<1>6. CASE Eligible(d)
  <2>1. DrawFrom(r, d) = credit[d].remaining
    BY <1>1, <1>3, <1>6, OlderAreSpent DEF IssueEffect, IInv
  <2>2. credit'[d].remaining = 0  BY <1>4, <1>5, <2>1
  <2> QED  BY <2>2 DEF Eligible
<1>7. CASE ~Eligible(d)
  <2>1. DrawFrom(r, d) = 0  BY <1>1, <1>7, DrawFits DEF IssueEffect, IInv
  <2>2. credit'[d].remaining = credit[d].remaining  BY <1>4, <1>5, <2>1
  <2> QED  BY <1>4, <1>7, <2>1, <2>2 DEF Eligible
<1> QED  BY <1>6, <1>7

(* Only the invoices draw: every other step leaves the amounts drawn.       *)
LEMMA OthersDrawNothing ==
  ASSUME IInv, [Next]_vars, NEW c \in Credits, NEW i \in Invoices,
         drawn'[c][i].amount # drawn[c][i].amount
  PROVE  \E s \in Sessions : IssueInvoice(s)
<1>1. ASSUME NEW d \in Credits, NEW a \in 1..MaxAmount, CreateCredit(d, a) PROVE FALSE
  BY <1>1 DEF CreateCredit
<1>2. ASSUME NEW d \in Credits, NEW j \in Invoices,
             FlipDraw("removeDraw", d, j, FALSE) \/ FlipDraw("restoreDraw", d, j, TRUE)
      PROVE  FALSE
  BY <1>2, FlipDrawKeeps
<1>3. ASSUME NEW s \in Sessions, Request(s) \/ Rollback(s) \/ DeadlockVictim(s)
      PROVE  FALSE
  BY <1>3 DEF Request, BeginInvoice, BeginOnCredit, BeginWithAmount, BeginOnRefund, Begin,
              Rollback, DeadlockVictim
<1>4. ASSUME NEW s \in Sessions, Step(s), ~IssueInvoice(s) PROVE FALSE
  <2>1. CASE UNCHANGED drawn  BY <2>1
  <2>2. CASE TrashCredit(s)  BY <2>2, TrashKeeps
  <2>3. CASE RestoreCredit(s)
    <3>1. drawn' = [drawn EXCEPT ![req[s].credit] =
            [j \in Invoices |-> [@[j] EXCEPT !.paid = drawn[req[s].credit][j].paid
                                                        \/ j \in DrawnBy(req[s].credit)]]]
      BY <2>3 DEF RestoreCredit
    <3>2. drawn \in [Credits -> [Invoices -> Draws]]  BY DEF IInv, TablesOK
    <3> QED  BY <3>1, <3>2 DEF Draws
  <2> QED
    BY <1>4, <2>1, <2>2, <2>3
    DEF Step, Acquire, Refuse, RefundCredit, CancelCredit, UpdateCredit, TrashRefund,
        RestoreRefund, FlipRefund, RemoveSource, RestoreSource, FlipSource
<1>5. CASE UNCHANGED vars  BY <1>5 DEF vars
<1> QED  BY <1>1, <1>2, <1>3, <1>4, <1>5 DEF Next

(* Oldest credit first: when an invoice draws a credit, no older one that   *)
(* its request found is left with a balance it could have drawn, whatever   *)
(* refunds, corrections and removals run beside it and whatever changed     *)
(* while it waited for the locks.                                           *)
THEOREM OldestDrawnFirst == Spec => OldestFirst
<1> DEFINE A == \A c, d \in Credits, i \in Invoices :
                  (d < c /\ drawn[c][i].amount = 0 /\ drawn'[c][i].amount > 0
                     /\ \E s \in Sessions : req[s] # req'[s] /\ d \in req[s].candidates)
                    => ~(Eligible(d))' \/ d \in InCdf
<1>1. ASSUME IInv, [Next]_vars PROVE A
  <2> SUFFICES ASSUME NEW c \in Credits, NEW d \in Credits, NEW i \in Invoices, d < c,
                      drawn[c][i].amount = 0, drawn'[c][i].amount > 0,
                      NEW t \in Sessions, req[t] # req'[t], d \in req[t].candidates
               PROVE  ~(Eligible(d))'
    OBVIOUS
  <2>1. PICK s \in Sessions : IssueInvoice(s)  BY <1>1, OthersDrawNothing
  <2>2. t = s
    <3>1. req' = [req EXCEPT ![s] = Idle]  BY <2>1 DEF IssueInvoice, Ready
    <3>2. req \in [Sessions -> Requests]  BY <1>1 DEF IInv, RequestsOK
    <3> QED  BY <3>1, <3>2
  <2> QED  BY <1>1, <2>1, <2>2, IssueLeavesNoOlder
<1>2. IInv /\ [Next]_vars => [A]_vars  BY <1>1
<1> QED  BY <1>2, InitHolds, NextKeeps, PTL DEF Spec, OldestFirst

===============================================================================

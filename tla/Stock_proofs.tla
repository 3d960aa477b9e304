------------------------------ MODULE Stock_proofs ------------------------------
(***************************************************************************)
(* Proofs about the stock, for any number of articles, purchases,           *)
(* inventories, payments and concurrent requests.                           *)
(***************************************************************************)
EXTENDS Stock, Sums

(* Articles are numbers; the bounds of lines and of the stock are numbers.  *)
StockNumbers ==
  /\ Items \subseteq Int /\ IsFiniteSet(Items) /\ IsFiniteSet(SupplierPayments)
  /\ MaxQuantity \in Nat /\ MaxLine \in 0..MaxQuantity

-----------------------------------------------------------------------------
(* The rows of a request exist from its beginning on.                       *)
RequestNames(r) ==
  /\ r.op \in {"purchase", "receive", "pay"} => r.id \in Purchases
  /\ r.op \in {"receive", "pay"} => purchase[r.id].state # "none"
  /\ r.op = "validate" => r.id \in Inventories
  /\ r.op \in {"purchase", "pay", "trash"} => r.by \in SupplierPayments
  /\ r.op = "trash" => payment[r.by].state # "none"
  /\ r.op = "purchase" => r.row \in PurchaseRows
  /\ r.op \in {"trash", "pay"} => r.todo = Nothing

PaymentsNamed ==
  \A m \in SupplierPayments :
    payment[m].state # "none" =>
      /\ payment[m].of \in Purchases
      /\ purchase[payment[m].of].state # "none"

(* What one transaction has locked no other has.                            *)
Exclusion == \A s, t \in Sessions : s # t => req[s].held \cap req[t].held = {}

(* What a request has moved and not committed is of articles it has locked. *)
Carries(r) ==
  \A i \in Items :
    IF r.after[i] = Uncounted THEN r.change[i] = 0
    ELSE /\ <<"item", i>> \in r.held /\ item[i].state # "none"
         /\ r.after[i] = item[i].quantity + r.change[i]

(* An article without a history has not moved.                              *)
HistoryShown == \A i \in Items : ~item[i].history => moved[i] = 0

(* Each article is named by one line, and has not moved before.             *)
EachOnce(r) ==
  /\ \A m, n \in DOMAIN r.todo : r.todo[m].item = r.todo[n].item => m = n
  /\ \A n \in DOMAIN r.todo : r.change[r.todo[n].item] = 0

(* A payment or a receipt has locked its purchase; what was read of it is   *)
(* still so, and what is received and still to be received fits in it.      *)
Fits(row, i, quantity) == quantity >= 0 /\ quantity <= row.ordered[i] - row.received[i]
PurchaseHeld(r) ==
  r.op \in {"pay", "receive"} /\ r.stage # 0 => <<"purchase", r.id>> \in r.held
ReceiptFits(r) ==
  r.op = "receive" =>
    /\ EachOnce(r)
    /\ \A n \in DOMAIN r.todo : r.todo[n].change >= 0
    /\ r.stage # 1 => r.change = NoChange
    /\ r.stage # 0 => r.row = purchase[r.id]
    /\ r.stage = 1 =>
         /\ \A n \in DOMAIN r.todo : Fits(purchase[r.id], r.todo[n].item, r.todo[n].change)
         /\ \A i \in Items : Fits(purchase[r.id], i, r.change[i])

RequestOK(r) == RequestNames(r) /\ Carries(r) /\ PurchaseHeld(r) /\ ReceiptFits(r)

StockInv ==
  /\ TypeOK /\ PaymentsNamed /\ Exclusion
  /\ \A r \in {req[s] : s \in Sessions} : RequestOK(r)
  /\ QuantityIsHistory /\ AlertFollowsStock /\ HistoryShown /\ DeletedIsUnused
  /\ ReceivedWithinOrdered /\ StatusFollowsPurchase

-----------------------------------------------------------------------------
(* Payments of a purchase are trashed one at a time, and not while another  *)
(* payment of it is recorded.                                               *)
PurchaseOf(r) == IF r.op = "trash" THEN payment[r.by].of ELSE r.id
PaymentsApart ==
  \A s, t \in Sessions :
    s # t /\ req[s].op = "trash" /\ req[t].op \in {"pay", "trash"} =>
      PurchaseOf(req[s]) # PurchaseOf(req[t])

(* Then the sum of the other payments is still their sum.                   *)
Trashed(m) == [payment EXCEPT ![m].state = "trashed"]
OthersSummed ==
  \A r \in {req[s] : s \in Sessions} :
    r.op = "trash" /\ r.stage = 1 =>
      /\ payment[r.by].state = "live"
      /\ r.sum = LivePaid(payment[r.by].of, Trashed(r.by))

(* One request at a time validates an inventory, and its lines are not      *)
(* counted meanwhile.                                                       *)
ValidatedAlone ==
  \A s, t \in Sessions :
    s # t /\ req[s].op = "validate" /\ req[t].op = "validate" => req[s].id # req[t].id
NotRecounted ==
  \A s \in Sessions :
    req[s].op = "validate" /\ req' = req => inventory'[req[s].id] = inventory[req[s].id]

(* Then a validation applies the differences it has read, once.             *)
Applies(r) ==
  r.op = "validate" =>
    /\ EachOnce(r)
    /\ r.stage = 0 => r.todo = Nothing /\ r.change = NoChange
    /\ r.stage # 0 =>
         /\ inventory[r.id].state # "VALIDATED"
         /\ \A n \in DOMAIN r.todo : r.todo[n].change = Difference(r.id)[r.todo[n].item]
         /\ \A i \in Items :
              r.change[i] = Difference(r.id)[i] \/ \E n \in DOMAIN r.todo : r.todo[n].item = i
AppliesDifference == \A r \in {req[s] : s \in Sessions} : Applies(r)

-----------------------------------------------------------------------------
(* The n-th number of a finite set: each number of the set is the n-th for  *)
(* exactly one n.                                                           *)
LEMMA NthOnce ==
  ASSUME NEW S, S \subseteq Int, IsFiniteSet(S)
  PROVE  /\ \A n \in 1..Cardinality(S) : Nth(S, n) \in S
         /\ \A m, n \in 1..Cardinality(S) : Nth(S, m) = Nth(S, n) => m = n
         /\ \A i \in S : \E n \in 1..Cardinality(S) : Nth(S, n) = i
<1> DEFINE N == Cardinality(S)
           Below(i) == {j \in S : j <= i}
           rank == [i \in S |-> Cardinality(Below(i))]
<1>1. N \in Nat  BY FS_CardinalityType
<1>2. \A i \in S : IsFiniteSet(Below(i)) /\ rank[i] \in 1..N
  <2> TAKE i \in S
  <2>1. Below(i) \in SUBSET S /\ i \in Below(i)  OBVIOUS
  <2>2. IsFiniteSet(Below(i)) /\ Cardinality(Below(i)) <= N  BY <2>1, FS_Subset
  <2>3. Cardinality(Below(i)) \in Nat  BY <2>2, FS_CardinalityType
  <2>4. Cardinality(Below(i)) # 0  BY <2>1, <2>2, FS_EmptySet
  <2> QED  BY <1>1, <2>2, <2>3, <2>4
<1>3. \A i, k \in S : i < k => rank[i] < rank[k]
  <2> SUFFICES ASSUME NEW i \in S, NEW k \in S, i < k PROVE rank[i] < rank[k]  OBVIOUS
  <2>0. i \in Int /\ k \in Int /\ \A j \in S : j \in Int  OBVIOUS
  <2>1. Below(i) \in SUBSET Below(k) /\ k \in Below(k) /\ k \notin Below(i)
    <3>1. \A j \in S : j <= i => j <= k  BY <2>0
    <3>2. k <= k /\ ~(k <= i)  BY <2>0
    <3> QED  BY <3>1, <3>2
  <2>2. Below(i) # Below(k)  BY <2>1
  <2>3. Cardinality(Below(i)) <= Cardinality(Below(k)) /\ Cardinality(Below(i)) # Cardinality(Below(k))
    BY <1>2, <2>1, <2>2, FS_Subset
  <2>4. Cardinality(Below(i)) \in Nat /\ Cardinality(Below(k)) \in Nat  BY <1>2
  <2> QED  BY <2>3, <2>4
<1>4. \A i, k \in S : rank[i] = rank[k] => i = k
  <2> SUFFICES ASSUME NEW i \in S, NEW k \in S, rank[i] = rank[k], i # k PROVE FALSE  OBVIOUS
  <2>1. i < k \/ k < i  OBVIOUS
  <2>2. rank[i] \in Int /\ rank[k] \in Int  BY <1>2
  <2> HIDE DEF rank
  <2> QED  BY <1>3, <2>1, <2>2
<1>5. rank \in Injection(S, 1..N)
  <2>1. rank \in [S -> 1..N]  BY <1>2
  <2> HIDE DEF rank
  <2> QED  BY <1>4, <2>1 DEF Injection, IsInjective
<1>6. IsFiniteSet(1..N) /\ Cardinality(1..N) = N  BY <1>1, FS_Interval
<1>7. rank \in Surjection(S, 1..N)  BY <1>5, <1>6, FS_Injection
<1>8. \A n \in 1..N : \E i \in S : rank[i] = n  BY <1>7 DEF Surjection
<1>9. \A n \in 1..N : Nth(S, n) \in S /\ rank[Nth(S, n)] = n
  <2> TAKE n \in 1..N
  <2>1. \E i \in S : Cardinality(Below(i)) = n  BY <1>8
  <2>2. Nth(S, n) \in S /\ Cardinality(Below(Nth(S, n))) = n  BY <2>1 DEF Nth
  <2> QED  BY <2>2
<1> HIDE DEF rank, N
<1>10. \A i \in S : Nth(S, rank[i]) = i  BY <1>2, <1>4, <1>9
<1> QED  BY <1>2, <1>9, <1>10 DEF N


(* One line for each article with a quantity.                               *)
LEMMA LinesOnce ==
  ASSUME StockNumbers, NEW q \in [Items -> Int]
  PROVE  LET lines == LinesOf(q)
         IN /\ lines \in Seq(Line)
            /\ \A n \in DOMAIN lines : lines[n].item \in Items /\ lines[n].change = q[lines[n].item]
                                       /\ q[lines[n].item] # 0
            /\ \A m, n \in DOMAIN lines : lines[m].item = lines[n].item => m = n
            /\ \A i \in Items : q[i] # 0 => \E n \in DOMAIN lines : lines[n].item = i
<1> DEFINE named == {i \in Items : q[i] # 0}
           N == Cardinality(named)
           lines == LinesOf(q)
<1>1. named \subseteq Items /\ named \subseteq Int /\ IsFiniteSet(named)
  BY FS_Subset DEF StockNumbers
<1>2. N \in Nat  BY <1>1, FS_CardinalityType
<1>3. /\ \A n \in 1..N : Nth(named, n) \in named
      /\ \A m, n \in 1..N : Nth(named, m) = Nth(named, n) => m = n
      /\ \A i \in named : \E n \in 1..N : Nth(named, n) = i
  <2> HIDE DEF named
  <2> QED  BY <1>1, NthOnce
<1>4. lines = [n \in 1..N |-> [item |-> Nth(named, n), change |-> q[Nth(named, n)]]]  BY DEF LinesOf
<1>5. \A i \in named : i \in Items /\ q[i] # 0 /\ q[i] \in Int  OBVIOUS
<1>6. \A i \in Items : q[i] # 0 => i \in named  OBVIOUS
<1> HIDE DEF named, N, lines
<1>7. DOMAIN lines = 1..N
      /\ \A n \in 1..N : lines[n].item = Nth(named, n) /\ lines[n].change = q[Nth(named, n)] /\ lines[n] \in Line
  BY <1>3, <1>4, <1>5 DEF Line
<1>8. lines \in Seq(Line)  BY <1>2, <1>4, <1>7
<1>9. /\ \A n \in DOMAIN lines : lines[n].item \in Items /\ lines[n].change = q[lines[n].item]
                                       /\ q[lines[n].item] # 0
      /\ \A m, n \in DOMAIN lines : lines[m].item = lines[n].item => m = n
      /\ \A i \in Items : q[i] # 0 => \E n \in DOMAIN lines : lines[n].item = i
  BY <1>3, <1>5, <1>6, <1>7
<1> QED  BY <1>8, <1>9 DEF lines

(* The first line and the others.                                           *)
LEMMA HeadAndTail ==
  ASSUME NEW lines \in Seq(Line), lines # Nothing
  PROVE  /\ Head(lines) \in Line /\ Head(lines) = lines[1] /\ 1 \in DOMAIN lines
         /\ Tail(lines) \in Seq(Line)
         /\ \A n \in DOMAIN Tail(lines) : n + 1 \in DOMAIN lines /\ n + 1 # 1 /\ n \in Int
                                           /\ Tail(lines)[n] = lines[n + 1]
         /\ \A n \in DOMAIN lines \ {1} : n - 1 \in DOMAIN Tail(lines)
                                           /\ Tail(lines)[n - 1] = lines[n]
BY DEF Nothing

LEMMA NothingIsNone == Nothing \in Seq(Line) /\ DOMAIN Nothing = {}
BY DEF Nothing

-----------------------------------------------------------------------------
(* Types of what requests compute.                                          *)
LEMMA BoundsTyped ==
  ASSUME StockNumbers
  PROVE  /\ NoChange \in [Items -> Int] /\ NoChange \in [Items -> Nat]
         /\ NotCounted \in Counts /\ Uncounted \in Nat /\ Uncounted \notin 0..MaxQuantity
         /\ \A n \in 0..Uncounted : n # Uncounted => n \in 0..MaxQuantity
BY DEF StockNumbers, NoChange, NotCounted, Counts, Uncounted

LEMMA NoItemTyped == ASSUME StockNumbers PROVE NoItem \in ItemRows
BY DEF NoItem, ItemRows, StockNumbers

LEMMA NoPurchaseTyped == ASSUME StockNumbers PROVE NoPurchase \in PurchaseRows
BY BoundsTyped DEF NoPurchase, PurchaseRows

LEMMA IdleTyped == ASSUME StockNumbers PROVE Idle \in Requests
BY BoundsTyped, NothingIsNone DEF Idle, Requests, NotCounted, Ids

LEMMA TotalTyped ==
  ASSUME StockNumbers, NEW q \in [Items -> Nat]
  PROVE  Total(q) \in Nat
BY SumNat DEF Total, StockNumbers

LEMMA LivePaidTyped ==
  ASSUME StockNumbers, NEW records \in [SupplierPayments -> PaymentRows], NEW p
  PROVE  LivePaid(p, records) \in Nat
<1> DEFINE S == {m \in SupplierPayments : records[m].of = p /\ records[m].state = "live"}
           f == [m \in SupplierPayments |-> records[m].amount]
<1>1. IsFiniteSet(S)  BY FS_Subset DEF StockNumbers
<1>2. \A m \in S : f[m] \in Nat  BY DEF PaymentRows
<1> HIDE DEF S, f
<1>3. SumFunctionOnSet(f, S) \in Nat  BY <1>1, <1>2, SumNat
<1> QED  BY <1>3 DEF LivePaid, S, f

LEMMA AtLeast0Typed == ASSUME NEW n \in Int PROVE AtLeast0(n) \in Nat
BY DEF AtLeast0

(* A refreshed row keeps its lines and its payments, and is refreshed.      *)
LEMMA RefreshedRow ==
  ASSUME StockNumbers, NEW row \in PurchaseRows
  PROVE  /\ RefreshedStatus(row) \in PurchaseRows
         /\ RefreshedStatus(row).ordered = row.ordered /\ RefreshedStatus(row).received = row.received
         /\ RefreshedStatus(row).paid = row.paid /\ RefreshedStatus(row).state # "none"
         /\ RefreshedStatus(RefreshedStatus(row)) = RefreshedStatus(row)
<1> DEFINE owed == AtLeast0(Total(row.ordered) - row.paid)
           reception == IF Total(row.received) <= 0 THEN "PENDING"
                        ELSE IF Total(row.received) >= Total(row.ordered) THEN "RECEIVED" ELSE "PARTIAL"
           settled == IF owed <= 0 /\ Total(row.ordered) > 0 THEN "PAID"
                      ELSE IF row.paid > 0 THEN "PARTIAL" ELSE "UNPAID"
           state == IF reception = "RECEIVED" /\ settled = "PAID" THEN "CLOSED" ELSE "OPEN"
<1>2. row.ordered \in [Items -> Nat] /\ row.received \in [Items -> Nat] /\ row.paid \in Nat
  BY DEF PurchaseRows
<1>3. Total(row.ordered) \in Nat /\ Total(row.received) \in Nat  BY <1>2, TotalTyped
<1>4. owed \in Nat  BY <1>2, <1>3, AtLeast0Typed
<1>5. reception \in {"PENDING", "PARTIAL", "RECEIVED"} /\ settled \in {"UNPAID", "PARTIAL", "PAID"}
      /\ state \in {"OPEN", "CLOSED"}
  OBVIOUS
<1>6. \A x \in PurchaseRows :
        x.ordered = row.ordered /\ x.received = row.received /\ x.paid = row.paid =>
          RefreshedStatus(x) = [x EXCEPT !.outstanding = owed, !.reception = reception, !.settled = settled,
                                   !.state = state]
  BY DEF RefreshedStatus
<1>7. \A x \in PurchaseRows :
        x = [state |-> x.state, ordered |-> x.ordered, received |-> x.received, paid |-> x.paid,
             outstanding |-> x.outstanding, reception |-> x.reception, settled |-> x.settled]
  BY DEF PurchaseRows
<1> HIDE DEF owed, reception, settled, state
<1>8. \A x \in PurchaseRows :
        x.ordered = row.ordered /\ x.received = row.received /\ x.paid = row.paid =>
          RefreshedStatus(x) = [state |-> state, ordered |-> row.ordered, received |-> row.received,
             paid |-> row.paid, outstanding |-> owed, reception |-> reception, settled |-> settled]
  BY <1>6, <1>7, ZenonT(60)
<1>9. RefreshedStatus(row) \in PurchaseRows  BY <1>2, <1>4, <1>5, <1>8 DEF PurchaseRows
<1>10. /\ RefreshedStatus(row).ordered = row.ordered /\ RefreshedStatus(row).received = row.received
       /\ RefreshedStatus(row).paid = row.paid /\ RefreshedStatus(row).state # "none"
  BY <1>5, <1>8
<1>12. RefreshedStatus(RefreshedStatus(row)) = RefreshedStatus(row)  BY <1>8, <1>9, <1>10
<1> QED  BY <1>9, <1>10, <1>12


-----------------------------------------------------------------------------
(* The shapes of a step.  One request goes on, and no row changes.          *)
LEMMA RequestStays ==
  ASSUME NEW r, RequestOK(r), UNCHANGED rows
  PROVE  RequestOK(r)'
<1>1. UNCHANGED <<item, moved, purchase, payment, inventory, adjusted>>  BY DEF rows
<1>2. RequestNames(r)'  BY <1>1 DEF RequestOK, RequestNames
<1>3. Carries(r)'  BY <1>1 DEF RequestOK, Carries
<1>4. PurchaseHeld(r)'  BY <1>1 DEF RequestOK, PurchaseHeld
<1>5. ReceiptFits(r)'  BY <1>1 DEF RequestOK, ReceiptFits, EachOnce, Fits
<1> QED  BY <1>2, <1>3, <1>4, <1>5 DEF RequestOK

LEMMA StepsOn ==
  ASSUME StockInv, NEW s \in Sessions, NEW n \in Requests, req' = [req EXCEPT ![s] = n], UNCHANGED rows,
         \A t \in Sessions \ {s} : n.held \cap req[t].held = {}, RequestOK(n)
  PROVE  StockInv'
<1>1. UNCHANGED <<item, moved, purchase, payment, inventory, adjusted>>  BY DEF rows
<1>2. req'[s] = n /\ \A t \in Sessions \ {s} : req'[t] = req[t]  BY DEF StockInv, TypeOK
<1>3. TypeOK'  BY <1>1 DEF StockInv, TypeOK
<1>4. Exclusion'
  <2> SUFFICES ASSUME NEW t \in Sessions, NEW u \in Sessions, t # u
               PROVE  req'[t].held \cap req'[u].held = {}
    BY DEF Exclusion
  <2>1. CASE t # s /\ u # s  BY <1>2, <2>1 DEF StockInv, Exclusion
  <2>2. CASE t = s  BY <1>2, <2>2
  <2>3. CASE u = s  BY <1>2, <2>3
  <2> QED  BY <2>1, <2>2, <2>3
<1>5. ASSUME NEW t \in Sessions PROVE RequestOK(req[t])'
  <2>1. PICK r : r = req'[t]  OBVIOUS
  <2>2. RequestOK(r)  BY <1>2, <2>1 DEF StockInv
  <2>3. RequestOK(r)'  BY <2>2, RequestStays
  <2> QED  BY <2>1, <2>3
<1>6. PaymentsNamed'  BY <1>1 DEF StockInv, PaymentsNamed
<1>7. QuantityIsHistory' /\ AlertFollowsStock' /\ HistoryShown'
  BY <1>1 DEF StockInv, QuantityIsHistory, AlertFollowsStock, HistoryShown
<1>8. DeletedIsUnused' /\ ReceivedWithinOrdered'
  BY <1>1 DEF StockInv, DeletedIsUnused, ReceivedWithinOrdered
<1>9. StatusFollowsPurchase'  BY <1>1 DEF StockInv, StatusFollowsPurchase
<1> QED  BY <1>3, <1>4, <1>5, <1>6, <1>7, <1>8, <1>9 DEF StockInv

(* It has then locked what it waited for.                                   *)
LEMMA WantedFree ==
  ASSUME StockInv, NEW s \in Sessions, ~Waits(s), NEW t \in Sessions \ {s}
  PROVE  (req[s].held \cup Wanted(req[s])) \cap req[t].held = {}
BY DEF StockInv, Exclusion, Waits, Free

LEMMA WantedTyped ==
  ASSUME StockInv, NEW s \in Sessions
  PROVE  Wanted(req[s]) \subseteq Locks
<1> DEFINE r == req[s]
<1>1. r \in Requests /\ RequestNames(r)  BY DEF StockInv, TypeOK, RequestOK
<1>2. r.todo \in Seq(Line)  BY <1>1 DEF Requests
<1>3. r.todo # Nothing => NextItem(r) \subseteq Locks
  <2> SUFFICES ASSUME r.todo # Nothing PROVE NextItem(r) \subseteq Locks  OBVIOUS
  <2>1. Head(r.todo).item \in Items  BY <1>2, HeadAndTail DEF Line
  <2> QED  BY <2>1 DEF NextItem, Locks
<1>4. r.op \in {"entry", "exit"} => {<<"document", r.op>>} \subseteq Locks  BY DEF Locks
<1>5. {<<"number", "purchase">>} \subseteq Locks /\ {<<"number", "receipt">>} \subseteq Locks  BY DEF Locks
<1>6. r.op \in {"receive", "pay"} => {<<"purchase", r.id>>} \subseteq Locks
  BY <1>1 DEF Locks, RequestNames
<1>7. {<<"item", i>> : i \in {j \in Items : r.row.ordered[j] > 0}} \subseteq Locks  BY DEF Locks
<1>8. r.op = "trash" => {<<"payment", r.by>>} \subseteq Locks /\ {<<"purchase", payment[r.by].of>>} \subseteq Locks
  BY <1>1 DEF Locks, RequestNames, StockInv, PaymentsNamed
<1> HIDE DEF r
<1> QED  BY <1>3, <1>4, <1>5, <1>6, <1>7, <1>8 DEF Wanted, r

(* A statement of a request that locks what it waits for.                   *)
LEMMA GoesOn ==
  ASSUME StockInv, NEW s \in Sessions, ~Waits(s), UNCHANGED rows,
         NEW n \in Requests, req' = [req EXCEPT ![s] = n],
         n.held = req[s].held \cup Wanted(req[s]), RequestOK(n)
  PROVE  StockInv'
<1>1. \A t \in Sessions \ {s} : n.held \cap req[t].held = {}  BY WantedFree
<1> QED  BY <1>1, StepsOn

(* A request that ends has moved nothing.                                   *)
LEMMA IdleOK == ASSUME StockNumbers PROVE RequestOK(Idle) /\ RequestOK(Idle)'
<1>1. /\ Idle.op = "none" /\ Idle.after = [i \in Items |-> Uncounted] /\ Idle.change = NoChange
  BY DEF Idle
<1>2. RequestNames(Idle) /\ PurchaseHeld(Idle) /\ ReceiptFits(Idle)
  BY <1>1 DEF RequestNames, PurchaseHeld, ReceiptFits
<1>3. RequestNames(Idle)' /\ PurchaseHeld(Idle)' /\ ReceiptFits(Idle)'
  BY <1>1 DEF RequestNames, PurchaseHeld, ReceiptFits
<1>4. Carries(Idle) /\ Carries(Idle)'  BY <1>1 DEF Carries, NoChange
<1> QED  BY <1>2, <1>3, <1>4 DEF RequestOK

LEMMA RollsBack ==
  ASSUME StockNumbers, StockInv, NEW s \in Sessions, Rollback(s)
  PROVE  StockInv'
<1>1. Idle.held = {}  BY DEF Idle
<1>2. \A t \in Sessions \ {s} : Idle.held \cap req[t].held = {}  BY <1>1
<1> QED  BY <1>2, IdleOK, IdleTyped, StepsOn DEF Rollback, Ends


-----------------------------------------------------------------------------
(* Each statement that goes on.                                             *)
LEMMA WithLocks ==
  ASSUME NEW n \in Requests, NEW H \in SUBSET Locks
  PROVE  \E m \in Requests :
           /\ m = [n EXCEPT !.held = H] /\ m.held = H
           /\ m.op = n.op /\ m.stage = n.stage /\ m.id = n.id /\ m.amount = n.amount /\ m.by = n.by
           /\ m.todo = n.todo /\ m.after = n.after /\ m.change = n.change /\ m.row = n.row /\ m.sum = n.sum
<1> DEFINE m == [n EXCEPT !.held = H]
<1>1. m \in Requests  BY DEF Requests
<1>2. /\ m.held = H /\ m.op = n.op /\ m.stage = n.stage /\ m.id = n.id /\ m.amount = n.amount /\ m.by = n.by
      /\ m.todo = n.todo /\ m.after = n.after /\ m.change = n.change /\ m.row = n.row /\ m.sum = n.sum
  BY DEF Requests
<1> QED  BY <1>1, <1>2

(* What it goes on with keeps what it carries, or the next line of it.      *)
LEMMA Continues ==
  ASSUME StockInv, NEW s \in Sessions, ~Waits(s), NEW n \in Requests, Continue(s, n),
         RequestNames(n), ReceiptFits(n),
         \A i \in Items :
           IF n.after[i] = Uncounted THEN n.change[i] = 0
           ELSE /\ <<"item", i>> \in req[s].held \cup Wanted(req[s]) /\ item[i].state # "none"
                /\ n.after[i] = item[i].quantity + n.change[i],
         n.op \in {"pay", "receive"} /\ n.stage # 0 =>
           <<"purchase", n.id>> \in req[s].held \cup Wanted(req[s])
  PROVE  StockInv'
<1> DEFINE H == req[s].held \cup Wanted(req[s])
<1>1. H \in SUBSET Locks  BY WantedTyped DEF StockInv, TypeOK, Requests
<1>2. PICK m \in Requests :
           /\ m = [n EXCEPT !.held = H] /\ m.held = H
           /\ m.op = n.op /\ m.stage = n.stage /\ m.id = n.id /\ m.amount = n.amount /\ m.by = n.by
           /\ m.todo = n.todo /\ m.after = n.after /\ m.change = n.change /\ m.row = n.row /\ m.sum = n.sum
  BY <1>1, WithLocks
<1>3. RequestNames(m)  BY <1>2 DEF RequestNames
<1>4. ReceiptFits(m)  BY <1>2 DEF ReceiptFits, EachOnce
<1>5. Carries(m)  BY <1>2 DEF Carries
<1>6. PurchaseHeld(m)  BY <1>2 DEF PurchaseHeld
<1>7. req' = [req EXCEPT ![s] = m] /\ UNCHANGED rows  BY <1>2 DEF Continue
<1> QED  BY <1>2, <1>3, <1>4, <1>5, <1>6, <1>7, GoesOn DEF RequestOK

(* What a request is known to be.                                           *)
LEMMA RequestIs ==
  ASSUME StockInv, NEW s \in Sessions
  PROVE  /\ req[s] \in Requests /\ req[s].todo \in Seq(Line) /\ req[s].after \in Counts
         /\ req[s].change \in [Items -> Int] /\ req[s].held \subseteq Locks
         /\ RequestNames(req[s]) /\ Carries(req[s]) /\ PurchaseHeld(req[s]) /\ ReceiptFits(req[s])
BY DEF StockInv, TypeOK, Requests, RequestOK

(* The next stage of a request.                                             *)
LEMMA Staged ==
  ASSUME NEW r \in Requests, NEW stage \in 0..2
  PROVE  \E n \in Requests :
           /\ n = [r EXCEPT !.stage = stage]
           /\ n.stage = stage /\ n.op = r.op /\ n.id = r.id /\ n.amount = r.amount /\ n.by = r.by
           /\ n.todo = r.todo /\ n.after = r.after /\ n.change = r.change /\ n.row = r.row
           /\ n.sum = r.sum /\ n.held = r.held
<1> DEFINE n == [r EXCEPT !.stage = stage]
<1>1. n \in Requests  BY DEF Requests
<1>2. /\ n.stage = stage /\ n.op = r.op /\ n.id = r.id /\ n.amount = r.amount /\ n.by = r.by
      /\ n.todo = r.todo /\ n.after = r.after /\ n.change = r.change /\ n.row = r.row
      /\ n.sum = r.sum /\ n.held = r.held
  BY DEF Requests
<1> QED  BY <1>1, <1>2

LEMMA OpensDocument ==
  ASSUME StockInv, NEW s \in Sessions, OpenDocument(s)
  PROVE  StockInv'
<1> DEFINE r == req[s]
<1>1. r \in Requests /\ RequestNames(r) /\ Carries(r) /\ r.op \in {"entry", "exit"} /\ ~Waits(s)
  BY RequestIs DEF OpenDocument, Opening
<1> HIDE DEF r
<1>2. 1 \in 0..2  OBVIOUS
<1>3. PICK n \in Requests :
        /\ n = [r EXCEPT !.stage = 1]
        /\ n.stage = 1 /\ n.op = r.op /\ n.id = r.id /\ n.amount = r.amount /\ n.by = r.by
        /\ n.todo = r.todo /\ n.after = r.after /\ n.change = r.change /\ n.row = r.row
        /\ n.sum = r.sum /\ n.held = r.held
  BY <1>1, <1>2, Staged
<1>4. Continue(s, n)  BY <1>3 DEF OpenDocument, r
<1>5. RequestNames(n) /\ ReceiptFits(n)  BY <1>1, <1>3 DEF RequestNames, ReceiptFits
<1>6. \A i \in Items :
           IF n.after[i] = Uncounted THEN n.change[i] = 0
           ELSE /\ <<"item", i>> \in req[s].held \cup Wanted(req[s]) /\ item[i].state # "none"
                /\ n.after[i] = item[i].quantity + n.change[i]
  BY <1>1, <1>3 DEF Carries, r
<1> QED  BY <1>1, <1>3, <1>4, <1>5, <1>6, Continues

(* The quantity that a movement finds is that of the article with what the  *)
(* request has moved of it.                                                 *)
LEMMA Moves ==
  ASSUME StockNumbers, StockInv, NEW s \in Sessions, Move(s)
  PROVE  StockInv'
<1> DEFINE r == req[s]
           i == Head(r.todo).item
           c == Head(r.todo).change
           after == QuantityOf(r, i) + c
<1>1. /\ r \in Requests /\ r.todo \in Seq(Line) /\ r.after \in Counts /\ r.change \in [Items -> Int]
      /\ r.held \subseteq Locks
      /\ RequestNames(r) /\ Carries(r) /\ PurchaseHeld(r) /\ ReceiptFits(r)
  BY RequestIs
<1>2. /\ r.stage = 1 /\ r.todo # Nothing /\ ~Waits(s) /\ item[i].state = "ACTIVE" /\ Sufficient(after)
      /\ Continue(s, [r EXCEPT !.todo = Tail(@), !.after[i] = after, !.change[i] = r.change[i] + c])
  BY DEF Move
<1>3. /\ Head(r.todo) \in Line /\ Head(r.todo) = r.todo[1] /\ 1 \in DOMAIN r.todo
      /\ Tail(r.todo) \in Seq(Line)
      /\ \A n \in DOMAIN Tail(r.todo) : n + 1 \in DOMAIN r.todo /\ n + 1 # 1 /\ n \in Int
                                           /\ Tail(r.todo)[n] = r.todo[n + 1]
  BY <1>1, <1>2, HeadAndTail
<1>4. i \in Items /\ c \in Int /\ i = r.todo[1].item /\ c = r.todo[1].change  BY <1>3 DEF Line
<1>5. after \in 0..MaxQuantity /\ after # Uncounted /\ after \in 0..Uncounted
  BY <1>2 DEF Sufficient, Uncounted, StockNumbers
<1>6. after = item[i].quantity + (r.change[i] + c) /\ r.change[i] + c \in Int
  <2>1. item[i].quantity \in Int  BY <1>4 DEF StockInv, TypeOK, ItemRows
  <2>2. r.change[i] \in Int  BY <1>1, <1>4
  <2> HIDE DEF r, i, c
  <2>3. QuantityOf(r, i) = item[i].quantity + r.change[i]
    <3>1. IF r.after[i] = Uncounted THEN r.change[i] = 0 ELSE r.after[i] = item[i].quantity + r.change[i]
      BY <1>1, <1>4 DEF Carries
    <3> QED  BY <2>1, <2>2, <3>1 DEF QuantityOf
  <2> QED  BY <1>4, <2>1, <2>2, <2>3
<1>7. <<"item", i>> \in Wanted(r)
  <2>1. r.op # "trash"  BY <1>1, <1>2 DEF RequestNames
  <2>2. Wanted(r) = NextItem(r)  BY <1>2, <2>1 DEF Wanted
  <2> QED  BY <2>2 DEF NextItem
<1> DEFINE todo == Tail(r.todo)
           counts == [r.after EXCEPT ![i] = after]
           change == [r.change EXCEPT ![i] = r.change[i] + c]
<1>8. [r EXCEPT !.todo = Tail(@), !.after[i] = after, !.change[i] = r.change[i] + c]
        = [r EXCEPT !.todo = todo, !.after = counts, !.change = change]
  OBVIOUS
<1>9. /\ counts \in Counts /\ change \in [Items -> Int]
      /\ counts[i] = after /\ \A j \in Items \ {i} : counts[j] = r.after[j]
      /\ change[i] = r.change[i] + c /\ \A j \in Items \ {i} : change[j] = r.change[j]
  <2> HIDE DEF r, i, c, after
  <2> QED  BY <1>1, <1>4, <1>5, <1>6 DEF Counts
<1>10. PICK n : n = [r EXCEPT !.todo = todo, !.after = counts, !.change = change]  OBVIOUS
<1>11. Continue(s, n)  BY <1>2, <1>8, <1>10
<1> HIDE DEF r, i, c, after, todo, counts, change
<1>12. n \in Requests /\ n.op = r.op /\ n.by = r.by /\ n.id = r.id /\ n.row = r.row /\ n.stage = r.stage
       /\ n.todo = todo /\ n.after = counts /\ n.change = change /\ n.held = r.held
  BY <1>1, <1>3, <1>9, <1>10 DEF Requests, todo
<1>13. RequestNames(n)  BY <1>1, <1>2, <1>12 DEF RequestNames
<1>14. \A j \in Items :
           IF n.after[j] = Uncounted THEN n.change[j] = 0
           ELSE /\ <<"item", j>> \in req[s].held \cup Wanted(req[s]) /\ item[j].state # "none"
                /\ n.after[j] = item[j].quantity + n.change[j]
  <2> TAKE j \in Items
  <2>1. CASE j = i
    <3>1. <<"item", j>> \in Wanted(req[s]) /\ item[j].state # "none"  BY <1>2, <1>7, <2>1 DEF r
    <3>2. n.after[j] = after /\ n.change[j] = r.change[i] + c  BY <1>9, <1>12, <2>1
    <3> QED  BY <1>5, <1>6, <2>1, <3>1, <3>2
  <2>2. CASE j # i  BY <1>1, <1>9, <1>12, <2>2 DEF Carries, r
  <2> QED  BY <2>1, <2>2
<1>15. ReceiptFits(n)
  <2> SUFFICES ASSUME n.op = "receive" PROVE ReceiptFits(n)  BY DEF ReceiptFits
  <2>1. /\ EachOnce(r)
        /\ \A k \in DOMAIN r.todo : r.todo[k].change >= 0
        /\ r.row = purchase[r.id]
        /\ \A k \in DOMAIN r.todo : Fits(purchase[r.id], r.todo[k].item, r.todo[k].change)
        /\ \A j \in Items : Fits(purchase[r.id], j, r.change[j])
    BY <1>1, <1>2, <1>12 DEF ReceiptFits
  <2>2. \A k \in DOMAIN todo : k + 1 \in DOMAIN r.todo /\ k + 1 # 1 /\ todo[k] = r.todo[k + 1] /\ k \in Int
    BY <1>3 DEF todo
  <2>3. r.change[i] = 0 /\ Fits(purchase[r.id], i, c)  BY <1>3, <1>4, <2>1 DEF EachOnce
  <2>4. change[i] = c
    <3>1. change[i] = 0 + c  BY <1>9, <2>3
    <3> QED  BY <1>4, <3>1
  <2>5. \A j \in Items : Fits(purchase[r.id], j, change[j])  BY <1>9, <2>1, <2>3, <2>4
  <2>6. \A k \in DOMAIN todo : todo[k].item # i /\ r.change[todo[k].item] = 0
    BY <1>3, <1>4, <2>1, <2>2 DEF EachOnce
  <2>7. \A k \in DOMAIN todo : todo[k].item \in Items
    <3>1. \A k \in DOMAIN r.todo : r.todo[k] \in Line  BY <1>1
    <3> QED  BY <2>2, <3>1 DEF Line
  <2>8. EachOnce(n)
    <3>1. \A k, l \in DOMAIN todo : todo[k].item = todo[l].item => k = l
      <4> SUFFICES ASSUME NEW k \in DOMAIN todo, NEW l \in DOMAIN todo, todo[k].item = todo[l].item PROVE k = l
        OBVIOUS
      <4>1. k + 1 = l + 1  BY <2>1, <2>2 DEF EachOnce
      <4> QED  BY <2>2, <4>1
    <3>2. \A k \in DOMAIN todo : change[todo[k].item] = 0  BY <1>9, <2>6, <2>7
    <3> QED  BY <1>12, <3>1, <3>2 DEF EachOnce
  <2>9. \A k \in DOMAIN todo : todo[k].change >= 0 /\ Fits(purchase[r.id], todo[k].item, todo[k].change)
    BY <2>1, <2>2
  <2> QED  BY <1>2, <1>12, <2>1, <2>5, <2>8, <2>9 DEF ReceiptFits
<1>16. n.op \in {"pay", "receive"} /\ n.stage # 0 =>
           <<"purchase", n.id>> \in req[s].held \cup Wanted(req[s])
  BY <1>1, <1>12 DEF PurchaseHeld, r
<1> QED  BY <1>2, <1>11, <1>12, <1>13, <1>14, <1>15, <1>16, Continues


LEMMA StagesAre == 0 \in 0..2 /\ 1 \in 0..2 /\ 2 \in 0..2  OBVIOUS

(* A statement that moves nothing.                                          *)
LEMMA ContinuesUnmoved ==
  ASSUME StockInv, NEW s \in Sessions, ~Waits(s), NEW n \in Requests, Continue(s, n),
         n.op = req[s].op, n.id = req[s].id, n.by = req[s].by, n.after = req[s].after,
         n.change = req[s].change,
         n.op = "purchase" => n.row = req[s].row,
         n.op \in {"trash", "pay"} => n.todo = req[s].todo,
         ReceiptFits(n),
         n.op \in {"pay", "receive"} => req[s].stage # 0 \/ Wanted(req[s]) = {<<"purchase", n.id>>}
  PROVE  StockInv'
<1> DEFINE r == req[s]
<1>1. RequestNames(r) /\ Carries(r) /\ PurchaseHeld(r)  BY RequestIs
<1> HIDE DEF r
<1>2. RequestNames(n)  BY <1>1 DEF RequestNames, r
<1>3. \A i \in Items :
           IF n.after[i] = Uncounted THEN n.change[i] = 0
           ELSE /\ <<"item", i>> \in req[s].held \cup Wanted(req[s]) /\ item[i].state # "none"
                /\ n.after[i] = item[i].quantity + n.change[i]
  BY <1>1 DEF Carries, r
<1>4. n.op \in {"pay", "receive"} /\ n.stage # 0 =>
           <<"purchase", n.id>> \in req[s].held \cup Wanted(req[s])
  BY <1>1 DEF PurchaseHeld, r
<1> QED  BY <1>2, <1>3, <1>4, Continues

LEMMA OpensPurchase ==
  ASSUME StockNumbers, StockInv, NEW s \in Sessions, OpenPurchase(s)
  PROVE  StockInv'
<1> DEFINE r == req[s]
<1>1. r \in Requests /\ RequestNames(r) /\ r.op = "purchase" /\ ~Waits(s)
  BY RequestIs DEF OpenPurchase, Opening
<1>2. r.row.ordered \in [Items -> Nat]  BY <1>1 DEF RequestNames, PurchaseRows
<1>3. r.row.ordered \in [Items -> Int]  BY <1>2
<1>4. LinesOf(r.row.ordered) \in Seq(Line)  BY <1>3, LinesOnce
<1>5. CASE r.row.reception = "RECEIVED"
  <2> DEFINE lines == LinesOf(r.row.ordered)
  <2>1. Continue(s, [r EXCEPT !.stage = 2, !.todo = lines])  BY <1>5 DEF OpenPurchase
  <2> HIDE DEF r, lines
  <2>2. PICK n : n = [r EXCEPT !.stage = 2, !.todo = lines]  OBVIOUS
  <2>3. n \in Requests  BY StagesAre, <1>1, <1>4, <2>2 DEF Requests, lines
  <2>4. n.op = r.op /\ n.id = r.id /\ n.by = r.by /\ n.after = r.after /\ n.change = r.change /\ n.row = r.row
    BY <1>1, <2>2 DEF Requests
  <2>5. Continue(s, n) /\ ReceiptFits(n)  BY <1>1, <2>1, <2>2, <2>4 DEF ReceiptFits
  <2> QED  BY <1>1, <2>3, <2>4, <2>5, ContinuesUnmoved DEF r
<1>6. CASE r.row.reception # "RECEIVED"
  <2>1. Continue(s, [r EXCEPT !.stage = 1])  BY <1>6 DEF OpenPurchase
  <2> HIDE DEF r
  <2>2. PICK n : n = [r EXCEPT !.stage = 1]  OBVIOUS
  <2>3. n \in Requests  BY <1>1, <2>2 DEF Requests
  <2>4. n.op = r.op /\ n.id = r.id /\ n.by = r.by /\ n.after = r.after /\ n.change = r.change /\ n.row = r.row
    BY <1>1, <2>2 DEF Requests
  <2>5. Continue(s, n) /\ ReceiptFits(n)  BY <1>1, <2>1, <2>2, <2>4 DEF ReceiptFits
  <2> QED  BY <1>1, <2>3, <2>4, <2>5, ContinuesUnmoved DEF r
<1> QED  BY <1>5, <1>6

LEMMA OpensReceipt ==
  ASSUME StockInv, NEW s \in Sessions, OpenReceipt(s)
  PROVE  StockInv'
<1> DEFINE r == req[s]
           row == purchase[r.id]
<1>1. r \in Requests /\ RequestNames(r) /\ r.op = "receive" /\ r.stage = 0 /\ ~Waits(s) /\ ReceiptFits(r)
  BY RequestIs DEF OpenReceipt, Opening
<1>2. row \in PurchaseRows  BY <1>1 DEF RequestNames, StockInv, TypeOK
<1>3. Continue(s, [r EXCEPT !.stage = 2, !.row = row])  BY DEF OpenReceipt
<1>4. Wanted(r) = {<<"purchase", r.id>>}  BY <1>1 DEF Wanted
<1> HIDE DEF r, row
<1>5. PICK n : n = [r EXCEPT !.stage = 2, !.row = row]  OBVIOUS
<1>6. n \in Requests  BY StagesAre, <1>1, <1>2, <1>5 DEF Requests
<1>7. n.op = r.op /\ n.id = r.id /\ n.by = r.by /\ n.after = r.after /\ n.change = r.change /\ n.row = row
      /\ n.stage = 2 /\ n.todo = r.todo
  BY <1>1, <1>5 DEF Requests
<1>8. ReceiptFits(n)  BY <1>1, <1>7 DEF ReceiptFits, EachOnce, row
<1>9. Continue(s, n)  BY <1>3, <1>5
<1> QED  BY <1>1, <1>4, <1>6, <1>7, <1>8, <1>9, ContinuesUnmoved DEF r

(* What a numbered receipt will move fits in what is still to come.         *)
LEMMA NumbersReceipt ==
  ASSUME StockInv, NEW s \in Sessions, NumberReceipt(s)
  PROVE  StockInv'
<1> DEFINE r == req[s]
<1>1. r \in Requests /\ RequestNames(r) /\ r.stage = 2 /\ ~Waits(s) /\ ReceiptFits(r)
  BY RequestIs DEF NumberReceipt
<1>2. r.todo \in Seq(Line)  BY <1>1 DEF Requests
<1>3. Continue(s, [r EXCEPT !.stage = 1])  BY DEF NumberReceipt
<1>4. r.op = "receive" =>
        \A n \in DOMAIN r.todo :
            r.todo[n].change <= r.row.ordered[r.todo[n].item] - r.row.received[r.todo[n].item]
  BY DEF NumberReceipt
<1> HIDE DEF r
<1>5. PICK n : n = [r EXCEPT !.stage = 1]  OBVIOUS
<1>6. n \in Requests  BY <1>1, <1>5 DEF Requests
<1>7. n.op = r.op /\ n.id = r.id /\ n.by = r.by /\ n.after = r.after /\ n.change = r.change /\ n.row = r.row
      /\ n.stage = 1 /\ n.todo = r.todo
  BY <1>1, <1>5 DEF Requests
<1>8. ReceiptFits(n)
  <2> SUFFICES ASSUME n.op = "receive" PROVE ReceiptFits(n)  BY DEF ReceiptFits
  <2>1. /\ EachOnce(r) /\ \A k \in DOMAIN r.todo : r.todo[k].change >= 0
        /\ r.change = NoChange /\ r.row = purchase[r.id]
    BY <1>1, <1>7 DEF ReceiptFits
  <2>2. \A k \in DOMAIN r.todo : Fits(purchase[r.id], r.todo[k].item, r.todo[k].change)
    BY <1>4, <1>7, <2>1 DEF Fits
  <2>3. \A i \in Items : Fits(purchase[r.id], i, r.change[i])
    <3> SUFFICES ASSUME NEW i \in Items PROVE Fits(purchase[r.id], i, r.change[i])  OBVIOUS
    <3>1. r.id \in Purchases  BY <1>1, <1>7 DEF RequestNames
    <3>2. purchase[r.id].received[i] <= purchase[r.id].ordered[i]
      BY <3>1 DEF StockInv, ReceivedWithinOrdered
    <3>3. purchase[r.id].received[i] \in Int /\ purchase[r.id].ordered[i] \in Int
      BY <3>1 DEF StockInv, TypeOK, PurchaseRows
    <3>4. r.change[i] = 0  BY <2>1 DEF NoChange
    <3> QED  BY <3>2, <3>3, <3>4 DEF Fits
  <2>4. EachOnce(n)  BY <1>7, <2>1 DEF EachOnce
  <2> QED  BY <1>7, <2>1, <2>2, <2>3, <2>4 DEF ReceiptFits
<1>9. Continue(s, n)  BY <1>3, <1>5
<1> QED  BY <1>1, <1>6, <1>7, <1>8, <1>9, ContinuesUnmoved DEF r

LEMMA LocksPurchase ==
  ASSUME StockInv, NEW s \in Sessions, LockPurchase(s)
  PROVE  StockInv'
<1> DEFINE r == req[s]
<1>1. r \in Requests /\ r.op = "pay" /\ r.stage = 0 /\ ~Waits(s)
  BY RequestIs DEF LockPurchase, Opening
<1>2. Continue(s, [r EXCEPT !.stage = 1])  BY DEF LockPurchase
<1>3. Wanted(r) = {<<"purchase", r.id>>}  BY <1>1 DEF Wanted
<1> HIDE DEF r
<1>4. PICK n : n = [r EXCEPT !.stage = 1]  OBVIOUS
<1>5. n \in Requests  BY StagesAre, <1>1, <1>4 DEF Requests
<1>6. n.op = r.op /\ n.id = r.id /\ n.by = r.by /\ n.after = r.after /\ n.change = r.change /\ n.row = r.row
      /\ n.todo = r.todo
  BY <1>1, <1>4 DEF Requests
<1>7. Continue(s, n) /\ ReceiptFits(n)  BY <1>1, <1>2, <1>4, <1>6 DEF ReceiptFits
<1> QED  BY <1>1, <1>3, <1>5, <1>6, <1>7, ContinuesUnmoved DEF r

LEMMA SumsOthers ==
  ASSUME StockNumbers, StockInv, NEW s \in Sessions, SumOthers(s)
  PROVE  StockInv'
<1> DEFINE r == req[s]
           sum == LivePaid(payment[r.by].of, [payment EXCEPT ![r.by].state = "trashed"])
<1>1. r \in Requests /\ RequestNames(r) /\ r.op = "trash" /\ ~Waits(s)
  BY RequestIs DEF SumOthers, Opening
<1>2. Continue(s, [r EXCEPT !.stage = 1, !.sum = sum])  BY DEF SumOthers
<1>3. sum \in Nat
  <2>1. r.by \in SupplierPayments  BY <1>1 DEF RequestNames
  <2>2. payment \in [SupplierPayments -> PaymentRows]  BY DEF StockInv, TypeOK
  <2>3. [payment[r.by] EXCEPT !.state = "trashed"] \in PaymentRows  BY <2>1, <2>2 DEF PaymentRows
  <2>4. [payment EXCEPT ![r.by].state = "trashed"] \in [SupplierPayments -> PaymentRows]
    BY <2>1, <2>2, <2>3
  <2> QED  BY <2>4, LivePaidTyped
<1> HIDE DEF r, sum
<1>4. PICK n : n = [r EXCEPT !.stage = 1, !.sum = sum]  OBVIOUS
<1>5. n \in Requests  BY StagesAre, <1>1, <1>3, <1>4 DEF Requests
<1>6. n.op = r.op /\ n.id = r.id /\ n.by = r.by /\ n.after = r.after /\ n.change = r.change /\ n.row = r.row
      /\ n.todo = r.todo
  BY <1>1, <1>4 DEF Requests
<1>7. Continue(s, n) /\ ReceiptFits(n)  BY <1>1, <1>2, <1>4, <1>6 DEF ReceiptFits
<1> QED  BY <1>1, <1>5, <1>6, <1>7, ContinuesUnmoved DEF r

LEMMA DifferenceTyped ==
  ASSUME StockNumbers, TypeOK, NEW v \in Inventories
  PROVE  Difference(v) \in [Items -> Int]
<1>1. inventory[v].physical \in Counts /\ inventory[v].theoretical \in Counts  BY DEF TypeOK, InventoryRows
<1>2. \A i \in Items : inventory[v].physical[i] \in Int /\ inventory[v].theoretical[i] \in Int
  BY <1>1, BoundsTyped DEF Counts
<1> QED  BY <1>2 DEF Difference

LEMMA ReadsInventory ==
  ASSUME StockNumbers, StockInv, NEW s \in Sessions, ReadInventory(s)
  PROVE  StockInv'
<1> DEFINE r == req[s]
           lines == LinesOf(Difference(r.id))
<1>1. r \in Requests /\ RequestNames(r) /\ r.op = "validate" /\ ~Waits(s)
  BY RequestIs DEF ReadInventory, Opening
<1>2. Continue(s, [r EXCEPT !.stage = 1, !.todo = lines])  BY DEF ReadInventory
<1>3. lines \in Seq(Line)  BY <1>1, DifferenceTyped, LinesOnce DEF RequestNames, StockInv
<1> HIDE DEF r, lines
<1>4. PICK n : n = [r EXCEPT !.stage = 1, !.todo = lines]  OBVIOUS
<1>5. n \in Requests  BY StagesAre, <1>1, <1>3, <1>4 DEF Requests
<1>6. n.op = r.op /\ n.id = r.id /\ n.by = r.by /\ n.after = r.after /\ n.change = r.change /\ n.row = r.row
  BY <1>1, <1>4 DEF Requests
<1>7. Continue(s, n) /\ ReceiptFits(n)  BY <1>1, <1>2, <1>4, <1>6 DEF ReceiptFits
<1> QED  BY <1>1, <1>5, <1>6, <1>7, ContinuesUnmoved DEF r


-----------------------------------------------------------------------------
(* The movements of a request change the articles it has locked, each by    *)
(* what is added to its history.                                            *)
LEMMA Stores ==
  ASSUME StockNumbers, StockInv, NEW s \in Sessions, StoreMovements(s)
  PROVE  /\ item' \in [Items -> ItemRows] /\ moved' \in [Items -> Int]
         /\ \A i \in Items : item'[i].state = item[i].state
         /\ \A i \in Items : <<"item", i>> \notin req[s].held => item'[i] = item[i]
         /\ \A i \in Items : item[i].state = "none" => moved'[i] = moved[i]
         /\ QuantityIsHistory' /\ AlertFollowsStock' /\ HistoryShown'
<1> DEFINE r == req[s]
<1>1. r.after \in Counts /\ r.change \in [Items -> Int] /\ Carries(r)  BY RequestIs
<1>2. item \in [Items -> ItemRows] /\ moved \in [Items -> Int]  BY DEF StockInv, TypeOK
<1>3. item' = Moved(r) /\ moved' = [i \in Items |-> moved[i] + r.change[i]]  BY DEF StoreMovements
<1> HIDE DEF r
<1>4. \A i \in Items : moved'[i] = moved[i] + r.change[i] /\ moved'[i] \in Int  BY <1>1, <1>2, <1>3
<1>5. ASSUME NEW i \in Items, r.after[i] = Uncounted
      PROVE  item'[i] = item[i] /\ moved'[i] = moved[i]
  <2>1. item'[i] = item[i]  BY <1>3, <1>5 DEF Moved
  <2>2. r.change[i] = 0 /\ moved[i] \in Int  BY <1>1, <1>2, <1>5 DEF Carries
  <2> QED  BY <1>4, <2>1, <2>2
<1>6. ASSUME NEW i \in Items, r.after[i] # Uncounted
      PROVE  /\ item'[i] \in ItemRows /\ item'[i].state = item[i].state
             /\ <<"item", i>> \in r.held /\ item[i].state # "none"
             /\ item'[i].quantity = item[i].quantity + r.change[i]
             /\ item'[i].history = TRUE
             /\ item'[i].alert = "OUT_OF_STOCK" <=> item'[i].quantity = 0
  <2> DEFINE level == AlertLevel(r.after[i], item[i].minimum)
  <2>1. item'[i] = [item[i] EXCEPT !.quantity = r.after[i], !.history = TRUE, !.alert = level]
    BY <1>3, <1>6 DEF Moved
  <2>2. r.after[i] \in 0..MaxQuantity  BY <1>1, <1>6, BoundsTyped DEF Counts
  <2>3. level \in {"none", "LOW_STOCK", "OUT_OF_STOCK"}  BY DEF AlertLevel
  <2>4. level = "OUT_OF_STOCK" <=> r.after[i] = 0  BY <2>2, BoundsTyped DEF AlertLevel, StockNumbers
  <2>5. item[i] \in ItemRows  BY <1>2
  <2> HIDE DEF level
  <2>6. item'[i] \in ItemRows  BY <2>1, <2>2, <2>3, <2>5 DEF ItemRows
  <2>7. item'[i].quantity = r.after[i] /\ item'[i].history = TRUE /\ item'[i].alert = level
        /\ item'[i].state = item[i].state
    BY <2>1, <2>5 DEF ItemRows
  <2>8. /\ <<"item", i>> \in r.held /\ item[i].state # "none"
        /\ r.after[i] = item[i].quantity + r.change[i]
    BY <1>1, <1>6 DEF Carries
  <2> QED  BY <2>4, <2>6, <2>7, <2>8
<1>7. item' \in [Items -> ItemRows]
  <2>1. DOMAIN item' = Items /\ item' = [i \in Items |-> item'[i]]  BY <1>3 DEF Moved
  <2>2. \A i \in Items : item'[i] \in ItemRows  BY <1>2, <1>5, <1>6
  <2> QED  BY <2>1, <2>2
<1>8. moved' \in [Items -> Int]  BY <1>3, <1>4
<1>9. QuantityIsHistory'
  <2> SUFFICES ASSUME NEW i \in Items PROVE item'[i].quantity = moved'[i]  BY DEF QuantityIsHistory
  <2>1. item[i].quantity = moved[i]  BY DEF StockInv, QuantityIsHistory
  <2>2. CASE r.after[i] = Uncounted  BY <1>5, <2>1, <2>2
  <2>3. CASE r.after[i] # Uncounted  BY <1>4, <1>6, <2>1, <2>3
  <2> QED  BY <2>2, <2>3
<1>10. AlertFollowsStock'
  <2> SUFFICES ASSUME NEW i \in Items, item'[i].history
               PROVE  item'[i].alert = "OUT_OF_STOCK" <=> item'[i].quantity = 0
    BY DEF AlertFollowsStock
  <2>1. CASE r.after[i] = Uncounted  BY <1>5, <2>1 DEF StockInv, AlertFollowsStock
  <2>2. CASE r.after[i] # Uncounted  BY <1>6, <2>2
  <2> QED  BY <2>1, <2>2
<1>11. HistoryShown'
  <2> SUFFICES ASSUME NEW i \in Items, ~item'[i].history PROVE moved'[i] = 0  BY DEF HistoryShown
  <2>1. r.after[i] = Uncounted  BY <1>6
  <2> QED  BY <1>5, <2>1 DEF StockInv, HistoryShown
<1>12. \A i \in Items : item'[i].state = item[i].state  BY <1>5, <1>6
<1>13. \A i \in Items : <<"item", i>> \notin r.held => item'[i] = item[i]  BY <1>5, <1>6
<1>14. \A i \in Items : item[i].state = "none" => moved'[i] = moved[i]  BY <1>5, <1>6
<1> QED  BY <1>7, <1>8, <1>9, <1>10, <1>11, <1>12, <1>13, <1>14 DEF r

(* What the other requests rely on stays.                                   *)
LEMMA OthersStay ==
  ASSUME StockInv, NEW r, RequestOK(r), r.op \in AllEndpoints \cup {"none"},
         \A i \in Items : <<"item", i>> \in r.held /\ item[i].state # "none" =>
           item'[i].state # "none" /\ item'[i].quantity = item[i].quantity,
         \A p \in Purchases : purchase[p].state # "none" => purchase'[p].state # "none",
         \A p \in Purchases : purchase[p].state # "none" /\ <<"purchase", p>> \in r.held =>
           purchase'[p] = purchase[p],
         \A m \in SupplierPayments : payment[m].state # "none" => payment'[m].state # "none"
  PROVE  RequestOK(r)'
<1>1. RequestNames(r)'  BY DEF RequestOK, RequestNames
<1>2. Carries(r)'  BY DEF RequestOK, Carries
<1>3. PurchaseHeld(r)'  BY DEF RequestOK, PurchaseHeld
<1>4. ReceiptFits(r)'
  <2>1. ReceiptFits(r) /\ RequestNames(r) /\ PurchaseHeld(r)  BY DEF RequestOK
  <2>2. r.op = "receive" /\ r.stage # 0 => purchase'[r.id] = purchase[r.id]
    BY <2>1 DEF RequestNames, PurchaseHeld
  <2>3. ASSUME NEW i, NEW q, r.op = "receive", r.stage # 0
        PROVE  Fits(purchase[r.id], i, q)' <=> Fits(purchase[r.id], i, q)
    BY <2>2, <2>3 DEF Fits
  <2> QED  BY <2>1, <2>2, <2>3 DEF ReceiptFits, EachOnce
<1> QED  BY <1>1, <1>2, <1>3, <1>4 DEF RequestOK

(* The commit of a request.                                                 *)
LEMMA Commits ==
  ASSUME StockNumbers, StockInv, NEW s \in Sessions, ~Waits(s), Ends(s),
         item' \in [Items -> ItemRows], moved' \in [Items -> Int],
         purchase' \in [Purchases -> PurchaseRows], payment' \in [SupplierPayments -> PaymentRows],
         inventory' \in [Inventories -> InventoryRows], adjusted' \in [Inventories -> [Items -> Int]],
         \A i \in Items : <<"item", i>> \notin req[s].held => item'[i] = item[i],
         \A p \in Purchases : purchase[p].state # "none" => purchase'[p].state # "none",
         \A p \in Purchases :
           purchase[p].state # "none" /\ <<"purchase", p>> \notin req[s].held \cup Wanted(req[s]) =>
             purchase'[p] = purchase[p],
         \A m \in SupplierPayments : payment[m].state # "none" => payment'[m].state # "none",
         PaymentsNamed', QuantityIsHistory', AlertFollowsStock', HistoryShown', DeletedIsUnused',
         ReceivedWithinOrdered', StatusFollowsPurchase'
  PROVE  StockInv'
<1>1. req' = [req EXCEPT ![s] = Idle]  BY DEF Ends
<1>2. req'[s] = Idle /\ \A t \in Sessions \ {s} : req'[t] = req[t]  BY <1>1 DEF StockInv, TypeOK
<1>3. TypeOK'  BY <1>1, IdleTyped DEF StockInv, TypeOK
<1>4. Exclusion'
  <2>1. Idle.held = {}  BY DEF Idle
  <2> SUFFICES ASSUME NEW t \in Sessions, NEW u \in Sessions, t # u
               PROVE  req'[t].held \cap req'[u].held = {}
    BY DEF Exclusion
  <2>2. CASE t # s /\ u # s  BY <1>2, <2>2 DEF StockInv, Exclusion
  <2>3. CASE t = s  BY <1>2, <2>1, <2>3
  <2>4. CASE u = s  BY <1>2, <2>1, <2>4
  <2> QED  BY <2>2, <2>3, <2>4
<1>5. ASSUME NEW t \in Sessions PROVE RequestOK(req[t])'
  <2>1. CASE t = s  BY <1>2, <2>1, IdleOK
  <2>2. CASE t # s
    <3>1. PICK r : r = req[t]  OBVIOUS
    <3>2. RequestOK(r) /\ r.op \in AllEndpoints \cup {"none"}
      <4>1. r \in Requests  BY <3>1 DEF StockInv, TypeOK
      <4> QED  BY <3>1, <4>1 DEF StockInv, Requests
    <3>3. (req[s].held \cup Wanted(req[s])) \cap r.held = {}  BY <2>2, <3>1, WantedFree
    <3>4. RequestOK(r)'  BY <3>2, <3>3, OthersStay
    <3> QED  BY <1>2, <2>2, <3>1, <3>4
  <2> QED  BY <2>1, <2>2
<1> QED  BY <1>3, <1>4, <1>5 DEF StockInv


(* What a commit that writes no purchase, payment or article keeps.         *)
LEMMA TablesAre ==
  ASSUME StockInv
  PROVE  /\ item \in [Items -> ItemRows] /\ moved \in [Items -> Int]
         /\ purchase \in [Purchases -> PurchaseRows] /\ payment \in [SupplierPayments -> PaymentRows]
         /\ inventory \in [Inventories -> InventoryRows] /\ adjusted \in [Inventories -> [Items -> Int]]
         /\ PaymentsNamed /\ DeletedIsUnused /\ ReceivedWithinOrdered /\ StatusFollowsPurchase
BY DEF StockInv, TypeOK

LEMMA PurchasesKept ==
  ASSUME StockInv, UNCHANGED <<purchase, payment>>
  PROVE  /\ purchase' \in [Purchases -> PurchaseRows] /\ payment' \in [SupplierPayments -> PaymentRows]
         /\ PaymentsNamed' /\ ReceivedWithinOrdered' /\ StatusFollowsPurchase'
         /\ \A p \in Purchases : purchase[p].state # "none" => purchase'[p].state # "none"
         /\ \A p \in Purchases : purchase'[p] = purchase[p]
         /\ \A m \in SupplierPayments : payment[m].state # "none" => payment'[m].state # "none"
BY DEF StockInv, TypeOK, PaymentsNamed, ReceivedWithinOrdered, StatusFollowsPurchase

LEMMA ArticlesKept ==
  ASSUME StockInv, UNCHANGED <<item, moved>>
  PROVE  /\ item' \in [Items -> ItemRows] /\ moved' \in [Items -> Int]
         /\ QuantityIsHistory' /\ AlertFollowsStock' /\ HistoryShown'
         /\ \A i \in Items : item'[i] = item[i]
BY DEF StockInv, TypeOK, QuantityIsHistory, AlertFollowsStock, HistoryShown

LEMMA InventoriesKept ==
  ASSUME StockInv, UNCHANGED <<inventory, adjusted>>
  PROVE  inventory' \in [Inventories -> InventoryRows] /\ adjusted' \in [Inventories -> [Items -> Int]]
BY DEF StockInv, TypeOK

LEMMA CommitsDocument ==
  ASSUME StockNumbers, StockInv, NEW s \in Sessions, CommitDocument(s)
  PROVE  StockInv'
<1>1. ~Waits(s) /\ StoreMovements(s) /\ Ends(s) /\ UNCHANGED <<purchase, payment, inventory, adjusted>>
  BY DEF CommitDocument, Ready
<1>2. DeletedIsUnused'
  <2> SUFFICES ASSUME NEW i \in Items, item'[i].state = "none"
               PROVE  /\ moved'[i] = 0
                      /\ \A p \in Purchases : purchase'[p].ordered[i] = 0
                      /\ \A v \in Inventories : inventory'[v].theoretical[i] = Uncounted
    BY DEF DeletedIsUnused
  <2>1. item[i].state = "none"  BY <1>1, Stores
  <2>2. moved'[i] = moved[i]  BY <1>1, <2>1, Stores
  <2> QED  BY <1>1, <2>1, <2>2 DEF StockInv, DeletedIsUnused
<1> QED  BY <1>1, <1>2, Stores, PurchasesKept, InventoriesKept, Commits

(* Its lines are of articles that exist, and what it receives is what it    *)
(* orders.                                                                  *)
LEMMA CommitsPurchase ==
  ASSUME StockNumbers, StockInv, NEW s \in Sessions, CommitPurchase(s)
  PROVE  StockInv'
<1> DEFINE r == req[s]
           received == IF r.row.reception = "RECEIVED" THEN r.row.ordered ELSE NoChange
           opened == [NoPurchase EXCEPT !.ordered = r.row.ordered, !.received = received, !.paid = r.amount]
           row == RefreshedStatus(opened)
           paid == [state |-> "live", of |-> r.id, amount |-> r.amount]
<1>1. r \in Requests /\ RequestNames(r)  BY RequestIs
<1>2. /\ r.op = "purchase" /\ ~Waits(s) /\ StoreMovements(s) /\ Ends(s) /\ UNCHANGED <<inventory, adjusted>>
      /\ \A i \in Items : r.row.ordered[i] > 0 => item[i].state # "none"
      /\ purchase[r.id].state = "none"
      /\ r.amount > 0 => payment[r.by].state = "none"
      /\ purchase' = [purchase EXCEPT ![r.id] = row]
      /\ payment' = IF r.amount = 0 THEN payment ELSE [payment EXCEPT ![r.by] = paid]
  BY DEF CommitPurchase, Ready
<1>3. r.id \in Purchases /\ r.by \in SupplierPayments /\ r.amount \in Nat
      /\ r.row.ordered \in [Items -> Nat] /\ received \in [Items -> Nat]
  BY <1>1, <1>2, BoundsTyped DEF RequestNames, PurchaseRows, Requests
<1>4. \A i \in Items : received[i] <= r.row.ordered[i]
  <2> TAKE i \in Items
  <2>1. r.row.ordered[i] \in Nat /\ NoChange[i] = 0  BY <1>3 DEF NoChange
  <2> QED  BY <2>1
<1>5. paid \in PaymentRows  BY <1>3 DEF PaymentRows
<1> HIDE DEF r, received
<1>6. opened \in PurchaseRows /\ opened.ordered = r.row.ordered /\ opened.received = received
      /\ opened.paid = r.amount
  BY <1>3, NoPurchaseTyped DEF PurchaseRows
<1> HIDE DEF opened
<1>7. /\ row \in PurchaseRows /\ row.ordered = r.row.ordered /\ row.received = received
      /\ row.state # "none" /\ row = RefreshedStatus(row)
  BY <1>6, RefreshedRow
<1> HIDE DEF row, paid
<1>8. purchase'[r.id] = row /\ \A p \in Purchases \ {r.id} : purchase'[p] = purchase[p]
  BY <1>2, <1>3 DEF StockInv, TypeOK
<1>9. purchase' \in [Purchases -> PurchaseRows]  BY <1>2, <1>3, <1>7 DEF StockInv, TypeOK
<1>10. payment' \in [SupplierPayments -> PaymentRows]  BY <1>2, <1>3, <1>5 DEF StockInv, TypeOK
<1>11. \A p \in Purchases : purchase[p].state # "none" => purchase'[p] = purchase[p]  BY <1>2, <1>8
<1>12. \A m \in SupplierPayments :
         \/ payment'[m] = payment[m]
         \/ payment'[m].of = r.id /\ payment'[m].state = "live" /\ payment[m].state = "none"
  <2> TAKE m \in SupplierPayments
  <2>1. CASE r.amount = 0  BY <1>2, <2>1
  <2>2. CASE r.amount # 0 /\ m = r.by
    <3>1. payment'[m] = paid /\ payment[m].state = "none"  BY <1>2, <1>3, <2>2 DEF StockInv, TypeOK
    <3> QED  BY <3>1 DEF paid
  <2>3. CASE r.amount # 0 /\ m # r.by  BY <1>2, <1>3, <2>3 DEF StockInv, TypeOK
  <2> QED  BY <2>1, <2>2, <2>3
<1>13. PaymentsNamed'  BY <1>3, <1>7, <1>8, <1>11, <1>12 DEF StockInv, PaymentsNamed
<1>14. ReceivedWithinOrdered'
  BY <1>4, <1>7, <1>8 DEF StockInv, ReceivedWithinOrdered
<1>15. StatusFollowsPurchase'  BY <1>7, <1>8 DEF StockInv, StatusFollowsPurchase
<1>16. DeletedIsUnused'
  <2> SUFFICES ASSUME NEW i \in Items, item'[i].state = "none"
               PROVE  /\ moved'[i] = 0
                      /\ \A p \in Purchases : purchase'[p].ordered[i] = 0
                      /\ \A v \in Inventories : inventory'[v].theoretical[i] = Uncounted
    BY DEF DeletedIsUnused
  <2>1. item[i].state = "none" /\ moved'[i] = moved[i]  BY <1>2, Stores
  <2>2. /\ moved[i] = 0
        /\ \A p \in Purchases : purchase[p].ordered[i] = 0
        /\ \A v \in Inventories : inventory[v].theoretical[i] = Uncounted
    BY <2>1 DEF StockInv, DeletedIsUnused
  <2>3. r.row.ordered[i] = 0
    <3>1. r.row.ordered[i] \in Nat /\ ~(r.row.ordered[i] > 0)  BY <1>2, <1>3, <2>1
    <3> QED  BY <3>1
  <2> QED  BY <1>2, <1>7, <1>8, <2>1, <2>2, <2>3
<1>17. \A m \in SupplierPayments : payment[m].state # "none" => payment'[m].state # "none"  BY <1>12
<1>18. \A p \in Purchases : purchase[p].state # "none" => purchase'[p].state # "none"  BY <1>11
<1> QED  BY <1>2, <1>9, <1>10, <1>11, <1>13, <1>14, <1>15, <1>16, <1>17, <1>18, Stores, InventoriesKept, Commits

(* One purchase is written anew, and refreshed; its lines stay.             *)
LEMMA PurchaseWritten ==
  ASSUME StockNumbers, StockInv, NEW p \in Purchases, NEW x \in PurchaseRows,
         purchase' = [purchase EXCEPT ![p] = RefreshedStatus(x)],
         x.ordered = purchase[p].ordered, \A i \in Items : x.received[i] <= x.ordered[i]
  PROVE  /\ purchase' \in [Purchases -> PurchaseRows] /\ ReceivedWithinOrdered' /\ StatusFollowsPurchase'
         /\ \A q \in Purchases : purchase[q].state # "none" => purchase'[q].state # "none"
         /\ \A q \in Purchases \ {p} : purchase'[q] = purchase[q]
         /\ \A q \in Purchases : purchase'[q].ordered = purchase[q].ordered
         /\ purchase'[p].state # "none"
<1> DEFINE row == RefreshedStatus(x)
<1>1. row \in PurchaseRows /\ row.ordered = x.ordered /\ row.received = x.received
      /\ row.state # "none" /\ row = RefreshedStatus(row)
  BY RefreshedRow
<1> HIDE DEF row
<1>2. purchase' = [purchase EXCEPT ![p] = row]  BY DEF row
<1>3. purchase'[p] = row /\ \A q \in Purchases \ {p} : purchase'[q] = purchase[q]
  BY <1>2 DEF StockInv, TypeOK
<1>4. purchase' \in [Purchases -> PurchaseRows]  BY <1>1, <1>2 DEF StockInv, TypeOK
<1>5. ReceivedWithinOrdered'  BY <1>1, <1>3 DEF StockInv, ReceivedWithinOrdered
<1>6. StatusFollowsPurchase'  BY <1>1, <1>3 DEF StockInv, StatusFollowsPurchase
<1> QED  BY <1>1, <1>3, <1>4, <1>5, <1>6

LEMMA DeletedStays ==
  ASSUME StockInv, \A i \in Items : item'[i].state = "none" => item[i].state = "none" /\ moved'[i] = moved[i],
         \A p \in Purchases : purchase'[p].ordered = purchase[p].ordered,
         \A v \in Inventories : inventory'[v].theoretical = inventory[v].theoretical
  PROVE  DeletedIsUnused'
BY DEF StockInv, DeletedIsUnused

(* What was numbered still fits, since the purchase is locked.              *)
LEMMA CommitsReceipt ==
  ASSUME StockNumbers, StockInv, NEW s \in Sessions, CommitReceipt(s)
  PROVE  StockInv'
<1> DEFINE r == req[s]
           row == purchase[r.id]
           received == [i \in Items |-> row.received[i] + r.change[i]]
           x == [row EXCEPT !.received = received]
<1>1. r \in Requests /\ r.change \in [Items -> Int] /\ RequestNames(r) /\ PurchaseHeld(r) /\ ReceiptFits(r)
  BY RequestIs
<1>2. /\ r.op = "receive" /\ r.stage = 1 /\ ~Waits(s) /\ StoreMovements(s) /\ Ends(s)
      /\ UNCHANGED <<payment, inventory, adjusted>>
      /\ purchase' = [purchase EXCEPT ![r.id] = RefreshedStatus(x)]
  BY DEF CommitReceipt, Ready
<1>3. r.id \in Purchases /\ <<"purchase", r.id>> \in r.held /\ row \in PurchaseRows
  BY <1>1, <1>2 DEF RequestNames, PurchaseHeld, StockInv, TypeOK
<1>4. \A i \in Items : Fits(row, i, r.change[i])  BY <1>1, <1>2 DEF ReceiptFits
<1>5. row.ordered \in [Items -> Nat] /\ row.received \in [Items -> Nat]  BY <1>3 DEF PurchaseRows
<1> HIDE DEF r, row
<1>6. \A i \in Items : received[i] \in Nat /\ received[i] <= row.ordered[i]
  <2> TAKE i \in Items
  <2>1. row.ordered[i] \in Nat /\ row.received[i] \in Nat /\ r.change[i] \in Int  BY <1>1, <1>5
  <2>2. r.change[i] >= 0 /\ r.change[i] <= row.ordered[i] - row.received[i]  BY <1>4 DEF Fits
  <2> QED  BY <2>1, <2>2
<1>7. received \in [Items -> Nat]  BY <1>6
<1> HIDE DEF received
<1>8. x \in PurchaseRows /\ x.ordered = row.ordered /\ x.received = received
  BY <1>3, <1>7 DEF PurchaseRows
<1> HIDE DEF x
<1>9. /\ purchase' \in [Purchases -> PurchaseRows] /\ ReceivedWithinOrdered' /\ StatusFollowsPurchase'
      /\ \A q \in Purchases : purchase[q].state # "none" => purchase'[q].state # "none"
      /\ \A q \in Purchases \ {r.id} : purchase'[q] = purchase[q]
      /\ \A q \in Purchases : purchase'[q].ordered = purchase[q].ordered
      /\ purchase'[r.id].state # "none"
  BY <1>2, <1>3, <1>6, <1>8, PurchaseWritten DEF row
<1>10. PaymentsNamed'  BY <1>2, <1>9 DEF StockInv, PaymentsNamed
<1>11. payment' \in [SupplierPayments -> PaymentRows]
       /\ \A m \in SupplierPayments : payment[m].state # "none" => payment'[m].state # "none"
  BY <1>2, TablesAre
<1>12. DeletedIsUnused'  BY <1>2, <1>9, Stores, DeletedStays
<1>13. \A q \in Purchases :
           purchase[q].state # "none" /\ <<"purchase", q>> \notin r.held \cup Wanted(r) => purchase'[q] = purchase[q]
  BY <1>3, <1>9
<1> QED  BY <1>2, <1>9, <1>10, <1>11, <1>12, <1>13, Stores, InventoriesKept, Commits DEF r

(* The payments of suppliers.                                               *)
LEMMA CommitsPayment ==
  ASSUME StockNumbers, StockInv, NEW s \in Sessions, CommitPayment(s)
  PROVE  StockInv'
<1> DEFINE r == req[s]
           row == purchase[r.id]
           x == [row EXCEPT !.paid = row.paid + r.amount]
           paid == [state |-> "live", of |-> r.id, amount |-> r.amount]
<1>1. r \in Requests /\ RequestNames(r) /\ PurchaseHeld(r)  BY RequestIs
<1>2. /\ r.op = "pay" /\ r.stage = 1 /\ ~Waits(s) /\ Ends(s) /\ UNCHANGED <<item, moved, inventory, adjusted>>
      /\ payment[r.by].state = "none"
      /\ payment' = [payment EXCEPT ![r.by] = paid]
      /\ purchase' = [purchase EXCEPT ![r.id] = RefreshedStatus(x)]
  BY DEF CommitPayment, Ready
<1>3. /\ r.id \in Purchases /\ <<"purchase", r.id>> \in r.held /\ row \in PurchaseRows
      /\ r.by \in SupplierPayments /\ r.amount \in Nat
  BY <1>1, <1>2 DEF RequestNames, PurchaseHeld, StockInv, TypeOK, Requests
<1>4. \A i \in Items : row.received[i] <= row.ordered[i]
  BY <1>3 DEF StockInv, ReceivedWithinOrdered
<1>5. paid \in PaymentRows /\ paid.of = r.id /\ paid.state = "live"  BY <1>3 DEF PaymentRows
<1> HIDE DEF r, row, paid
<1>6. row.paid + r.amount \in Nat  BY <1>3 DEF PurchaseRows
<1>7. x \in PurchaseRows /\ x.ordered = row.ordered /\ x.received = row.received
  BY <1>3, <1>6 DEF PurchaseRows
<1> HIDE DEF x
<1>9. /\ purchase' \in [Purchases -> PurchaseRows] /\ ReceivedWithinOrdered' /\ StatusFollowsPurchase'
      /\ \A q \in Purchases : purchase[q].state # "none" => purchase'[q].state # "none"
      /\ \A q \in Purchases \ {r.id} : purchase'[q] = purchase[q]
      /\ \A q \in Purchases : purchase'[q].ordered = purchase[q].ordered
      /\ purchase'[r.id].state # "none"
  BY <1>2, <1>3, <1>4, <1>7, PurchaseWritten DEF row
<1>10. payment'[r.by] = paid /\ \A m \in SupplierPayments \ {r.by} : payment'[m] = payment[m]
  BY <1>2, <1>3 DEF StockInv, TypeOK
<1>11. PaymentsNamed'  BY <1>3, <1>5, <1>9, <1>10 DEF StockInv, PaymentsNamed
<1>12. payment' \in [SupplierPayments -> PaymentRows]
       /\ \A m \in SupplierPayments : payment[m].state # "none" => payment'[m].state # "none"
  BY <1>2, <1>3, <1>5, <1>10, TablesAre
<1>13. DeletedIsUnused'  BY <1>2, <1>9, DeletedStays
<1>14. \A q \in Purchases :
           purchase[q].state # "none" /\ <<"purchase", q>> \notin r.held \cup Wanted(r) => purchase'[q] = purchase[q]
  BY <1>3, <1>9
<1> QED  BY <1>2, <1>9, <1>11, <1>12, <1>13, <1>14, ArticlesKept, InventoriesKept, Commits DEF r

LEMMA CommitsTrash ==
  ASSUME StockNumbers, StockInv, NEW s \in Sessions, CommitTrash(s)
  PROVE  StockInv'
<1> DEFINE r == req[s]
           p == payment[r.by].of
           row == purchase[p]
           x == [row EXCEPT !.paid = r.sum]
           trashed == [payment[r.by] EXCEPT !.state = "trashed"]
<1>1. r \in Requests /\ RequestNames(r)  BY RequestIs
<1>2. /\ r.op = "trash" /\ r.stage = 1 /\ r.todo = Nothing /\ ~Waits(s) /\ Ends(s)
      /\ UNCHANGED <<item, moved, inventory, adjusted>>
      /\ payment' = [payment EXCEPT ![r.by] = trashed]
      /\ purchase' = [purchase EXCEPT ![p] = RefreshedStatus(x)]
  BY DEF CommitTrash, Ready, TrashedRow
<1>3. r.by \in SupplierPayments /\ payment[r.by].state # "none"  BY <1>1, <1>2 DEF RequestNames
<1>4. p \in Purchases /\ r.sum \in Nat /\ row \in PurchaseRows
  BY <1>1, <1>3 DEF StockInv, TypeOK, PaymentsNamed, Requests
<1>5. trashed \in PaymentRows /\ trashed.of = p /\ trashed.state = "trashed"
  BY <1>3 DEF StockInv, TypeOK, PaymentRows
<1>6. \A i \in Items : row.received[i] <= row.ordered[i]
  BY <1>4 DEF StockInv, ReceivedWithinOrdered
<1>7. Wanted(r) = {<<"purchase", p>>}  BY <1>2 DEF Wanted
<1> HIDE DEF r, p, row, trashed
<1>8. x \in PurchaseRows /\ x.ordered = row.ordered /\ x.received = row.received
  BY <1>4 DEF PurchaseRows
<1> HIDE DEF x
<1>9. /\ purchase' \in [Purchases -> PurchaseRows] /\ ReceivedWithinOrdered' /\ StatusFollowsPurchase'
      /\ \A q \in Purchases : purchase[q].state # "none" => purchase'[q].state # "none"
      /\ \A q \in Purchases \ {p} : purchase'[q] = purchase[q]
      /\ \A q \in Purchases : purchase'[q].ordered = purchase[q].ordered
      /\ purchase'[p].state # "none"
  BY <1>2, <1>4, <1>6, <1>8, PurchaseWritten DEF row
<1>10. payment'[r.by] = trashed /\ \A m \in SupplierPayments \ {r.by} : payment'[m] = payment[m]
  BY <1>2, <1>3 DEF StockInv, TypeOK
<1>11. PaymentsNamed'  BY <1>4, <1>5, <1>9, <1>10 DEF StockInv, PaymentsNamed
<1>12. payment' \in [SupplierPayments -> PaymentRows]
       /\ \A m \in SupplierPayments : payment[m].state # "none" => payment'[m].state # "none"
  BY <1>2, <1>3, <1>5, <1>10, TablesAre
<1>13. DeletedIsUnused'  BY <1>2, <1>9, DeletedStays
<1>14. \A q \in Purchases :
           purchase[q].state # "none" /\ <<"purchase", q>> \notin r.held \cup Wanted(r) => purchase'[q] = purchase[q]
  BY <1>7, <1>9
<1> QED  BY <1>2, <1>9, <1>11, <1>12, <1>13, <1>14, ArticlesKept, InventoriesKept, Commits DEF r

LEMMA CommitsValidation ==
  ASSUME StockNumbers, StockInv, NEW s \in Sessions, CommitValidation(s)
  PROVE  StockInv'
<1> DEFINE r == req[s]
           row == [inventory[r.id] EXCEPT !.state = "VALIDATED"]
           sums == [i \in Items |-> adjusted[r.id][i] + r.change[i]]
<1>1. r.change \in [Items -> Int] /\ RequestNames(r)  BY RequestIs
<1>2. /\ r.op = "validate" /\ ~Waits(s) /\ StoreMovements(s) /\ Ends(s)
      /\ UNCHANGED <<purchase, payment>>
      /\ inventory' = [inventory EXCEPT ![r.id] = row]
      /\ adjusted' = [adjusted EXCEPT ![r.id] = sums]
  BY DEF CommitValidation, Ready
<1>3. r.id \in Inventories  BY <1>1, <1>2 DEF RequestNames
<1>4. row \in InventoryRows /\ row.theoretical = inventory[r.id].theoretical
  BY <1>3 DEF StockInv, TypeOK, InventoryRows
<1>5. sums \in [Items -> Int]  BY <1>1, <1>3 DEF StockInv, TypeOK
<1> HIDE DEF r, row, sums
<1>6. inventory' \in [Inventories -> InventoryRows] /\ adjusted' \in [Inventories -> [Items -> Int]]
      /\ \A v \in Inventories : inventory'[v].theoretical = inventory[v].theoretical
  BY <1>2, <1>3, <1>4, <1>5 DEF StockInv, TypeOK
<1>7. DeletedIsUnused'  BY <1>2, <1>6, Stores, DeletedStays
<1> QED  BY <1>2, <1>6, <1>7, Stores, PurchasesKept, Commits DEF r


-----------------------------------------------------------------------------
(* Requests begin with nothing locked and nothing moved.                    *)
LEMMA Begins ==
  ASSUME StockNumbers, StockInv, NEW s \in Sessions, NEW n \in Requests, Begin(s, n),
         n.held = {}, n.after = NotCounted, n.change = NoChange, RequestNames(n), ReceiptFits(n),
         n.op \in {"pay", "receive"} => n.stage = 0
  PROVE  StockInv'
<1>1. Carries(n) /\ PurchaseHeld(n)  BY DEF Carries, PurchaseHeld, NotCounted, NoChange
<1>2. \A t \in Sessions \ {s} : n.held \cap req[t].held = {}  OBVIOUS
<1>3. req' = [req EXCEPT ![s] = n] /\ UNCHANGED rows  BY DEF Begin
<1> QED  BY <1>1, <1>2, <1>3, StepsOn DEF RequestOK

LEMMA IdleFields ==
  /\ Idle.op = "none" /\ Idle.stage = 0 /\ Idle.id = 0 /\ Idle.amount = 0 /\ Idle.by = 0
  /\ Idle.todo = Nothing /\ Idle.after = NotCounted /\ Idle.change = NoChange /\ Idle.row = Nothing
  /\ Idle.held = {}
BY DEF Idle, NotCounted

LEMMA SignedLines ==
  ASSUME StockNumbers, NEW lines \in Documents, NEW sign \in {1, -1}
  PROVE  lines \in Seq(Line) /\ Signed(lines, sign) \in Seq(Line)
<1>1. PICK k \in 1..MaxLines : lines \in [1..k -> Lines]  BY DEF Documents
<1>2. k \in Nat  BY <1>1
<1>3. ASSUME NEW n \in 1..k
      PROVE  lines[n] \in Line /\ [lines[n] EXCEPT !.change = sign * @] \in Line
  <2>1. lines[n] \in Lines  BY <1>1
  <2>2. MaxLine \in Int  BY DEF StockNumbers
  <2>3. lines[n] \in Line /\ lines[n].change \in Int  BY <2>1, <2>2 DEF Lines, Line
  <2>4. sign * lines[n].change \in Int  BY <2>3
  <2>5. [lines[n] EXCEPT !.change = sign * @] = [lines[n] EXCEPT !.change = sign * lines[n].change]  OBVIOUS
  <2>6. \A c \in Int : [lines[n] EXCEPT !.change = c] \in Line  BY <2>3 DEF Line
  <2> QED  BY <2>3, <2>4, <2>5, <2>6
<1>4. lines \in [1..k -> Line]  BY <1>1, <1>3
<1>5. Signed(lines, sign) \in [1..k -> Line]  BY <1>1, <1>3 DEF Signed
<1> QED  BY <1>2, <1>4, <1>5

LEMMA StockRequests ==
  ASSUME StockNumbers, StockInv, NEW s \in Sessions, StockRequest(s)
  PROVE  StockInv'
<1>1. ASSUME NEW op \in {"entry", "exit", "movement"}, NEW lines \in Seq(Line), NEW n \in Requests,
             n.op = op, n.held = Idle.held, n.after = Idle.after, n.change = Idle.change, Begin(s, n)
      PROVE  StockInv'
  <2>1. RequestNames(n) /\ ReceiptFits(n)  BY <1>1 DEF RequestNames, ReceiptFits
  <2> QED  BY <1>1, <2>1, Begins, IdleFields
<1>2. ASSUME NEW op \in {"entry", "exit", "movement"}, NEW lines \in Seq(Line),
             NEW n, n = [Idle EXCEPT !.op = op, !.todo = lines]
      PROVE  n \in Requests /\ n.op = op /\ n.held = Idle.held /\ n.after = Idle.after /\ n.change = Idle.change
  BY <1>2, IdleTyped DEF Requests, AllEndpoints
<1>3. ASSUME NEW op \in {"entry", "exit", "movement"}, NEW lines \in Seq(Line),
             NEW n, n = [Idle EXCEPT !.op = op, !.stage = 1, !.todo = lines]
      PROVE  n \in Requests /\ n.op = op /\ n.held = Idle.held /\ n.after = Idle.after /\ n.change = Idle.change
  BY <1>3, IdleTyped, StagesAre DEF Requests, AllEndpoints
<1>4. CASE \E lines \in Documents : Begin(s, [Idle EXCEPT !.op = "entry", !.todo = lines])
  <2>1. PICK lines \in Documents : Begin(s, [Idle EXCEPT !.op = "entry", !.todo = lines])  BY <1>4
  <2>2. lines \in Seq(Line)  BY SignedLines
  <2>3. PICK n : n = [Idle EXCEPT !.op = "entry", !.todo = lines]  OBVIOUS
  <2>4. n \in Requests /\ n.op = "entry" /\ n.held = Idle.held /\ n.after = Idle.after /\ n.change = Idle.change
    BY <1>2, <2>2, <2>3
  <2> QED  BY <1>1, <2>1, <2>2, <2>3, <2>4
<1>5. CASE \E lines \in Documents : Begin(s, [Idle EXCEPT !.op = "exit", !.todo = Signed(lines, -1)])
  <2>1. PICK lines \in Documents : Begin(s, [Idle EXCEPT !.op = "exit", !.todo = Signed(lines, -1)])  BY <1>5
  <2>2. PICK todo : todo = Signed(lines, -1)  OBVIOUS
  <2>3. todo \in Seq(Line)  BY <2>2, SignedLines
  <2>4. PICK n : n = [Idle EXCEPT !.op = "exit", !.todo = todo]  OBVIOUS
  <2>5. n \in Requests /\ n.op = "exit" /\ n.held = Idle.held /\ n.after = Idle.after /\ n.change = Idle.change
    BY <1>2, <2>3, <2>4
  <2> QED  BY <1>1, <2>1, <2>2, <2>3, <2>4, <2>5
<1>6. CASE \E lines \in Documents, sign \in {1, -1} :
             Begin(s, [Idle EXCEPT !.op = "movement", !.stage = 1, !.todo = Signed(lines, sign)])
  <2>1. PICK lines \in Documents, sign \in {1, -1} :
             Begin(s, [Idle EXCEPT !.op = "movement", !.stage = 1, !.todo = Signed(lines, sign)])  BY <1>6
  <2>2. PICK todo : todo = Signed(lines, sign)  OBVIOUS
  <2>3. todo \in Seq(Line)  BY <2>2, SignedLines
  <2>4. PICK n : n = [Idle EXCEPT !.op = "movement", !.stage = 1, !.todo = todo]  OBVIOUS
  <2>5. n \in Requests /\ n.op = "movement" /\ n.held = Idle.held /\ n.after = Idle.after /\ n.change = Idle.change
    BY <1>3, <2>3, <2>4
  <2> QED  BY <1>1, <2>1, <2>2, <2>3, <2>4, <2>5
<1> QED  BY <1>4, <1>5, <1>6 DEF StockRequest

LEMMA PurchaseRequests ==
  ASSUME StockNumbers, StockInv, NEW s \in Sessions, PurchaseRequest(s)
  PROVE  StockInv'
<1>0. ASSUME NEW q \in SomeQuantities PROVE q \in [Items -> Nat] /\ q \in [Items -> Int]
  BY DEF SomeQuantities, Quantities, StockNumbers
<1>1. ASSUME NEW p \in Purchases, NEW q \in SomeQuantities, NEW reception \in {"PENDING", "RECEIVED"},
             NEW m \in SupplierPayments, NEW a \in 0..MaxLine * Cardinality(Items),
             Begin(s, [Idle EXCEPT !.op = "purchase", !.id = p, !.amount = a, !.by = m,
                                !.row = [NoPurchase EXCEPT !.ordered = q, !.reception = reception]])
      PROVE  StockInv'
  <2> DEFINE row == [NoPurchase EXCEPT !.ordered = q, !.reception = reception]
  <2>1. row \in PurchaseRows  BY <1>0, NoPurchaseTyped DEF PurchaseRows
  <2>2. a \in Nat /\ p \in Ids  BY DEF Ids
  <2> HIDE DEF row
  <2>3. PICK n : n = [Idle EXCEPT !.op = "purchase", !.id = p, !.amount = a, !.by = m, !.row = row]  OBVIOUS
  <2>4. n \in Requests  BY <2>1, <2>2, <2>3, IdleTyped DEF Requests, AllEndpoints
  <2>5. n.op = "purchase" /\ n.id = p /\ n.by = m /\ n.row = row /\ n.held = Idle.held /\ n.after = Idle.after
        /\ n.change = Idle.change
    BY <2>3, IdleTyped DEF Requests
  <2>6. RequestNames(n) /\ ReceiptFits(n)  BY <2>1, <2>5 DEF RequestNames, ReceiptFits
  <2>7. Begin(s, n)  BY <1>1, <2>3 DEF row
  <2> QED  BY <2>4, <2>5, <2>6, <2>7, Begins, IdleFields
<1>2. ASSUME NEW p \in Purchases, NEW q \in SomeQuantities, purchase[p].state # "none",
             Begin(s, [Idle EXCEPT !.op = "receive", !.id = p, !.todo = LinesOf(q)])
      PROVE  StockInv'
  <2> DEFINE lines == LinesOf(q)
  <2>1. /\ lines \in Seq(Line)
        /\ \A n \in DOMAIN lines : lines[n].item \in Items /\ lines[n].change = q[lines[n].item]
        /\ \A k, n \in DOMAIN lines : lines[k].item = lines[n].item => k = n
    BY <1>0, LinesOnce
  <2>2. \A n \in DOMAIN lines : lines[n].change >= 0 /\ NoChange[lines[n].item] = 0
    BY <1>0, <2>1 DEF NoChange
  <2>3. p \in Ids  BY DEF Ids
  <2> HIDE DEF lines
  <2>4. PICK n : n = [Idle EXCEPT !.op = "receive", !.id = p, !.todo = lines]  OBVIOUS
  <2>5. n \in Requests  BY <2>1, <2>3, <2>4, IdleTyped DEF Requests, AllEndpoints
  <2>6. n.op = "receive" /\ n.id = p /\ n.todo = lines /\ n.held = Idle.held /\ n.after = Idle.after
        /\ n.change = Idle.change /\ n.stage = Idle.stage
    BY <2>4, IdleTyped DEF Requests
  <2>7. RequestNames(n)  BY <1>2, <2>6 DEF RequestNames
  <2>8. ReceiptFits(n)  BY <2>1, <2>2, <2>6, IdleFields DEF ReceiptFits, EachOnce
  <2>9. Begin(s, n)  BY <1>2, <2>4 DEF lines
  <2> QED  BY <2>5, <2>6, <2>7, <2>8, <2>9, Begins, IdleFields
<1>3. ASSUME NEW p \in Purchases, NEW m \in SupplierPayments, NEW a \in 1..MaxLine, purchase[p].state # "none",
             Begin(s, [Idle EXCEPT !.op = "pay", !.id = p, !.by = m, !.amount = a])
      PROVE  StockInv'
  <2>1. a \in Nat /\ p \in Ids  BY DEF Ids
  <2>2. PICK n : n = [Idle EXCEPT !.op = "pay", !.id = p, !.by = m, !.amount = a]  OBVIOUS
  <2>3. n \in Requests  BY <2>1, <2>2, IdleTyped DEF Requests, AllEndpoints
  <2>4. n.op = "pay" /\ n.id = p /\ n.by = m /\ n.todo = Idle.todo /\ n.held = Idle.held /\ n.after = Idle.after
        /\ n.change = Idle.change /\ n.stage = Idle.stage
    BY <2>2, IdleTyped DEF Requests
  <2>5. RequestNames(n) /\ ReceiptFits(n)  BY <1>3, <2>4, IdleFields DEF RequestNames, ReceiptFits
  <2>6. Begin(s, n)  BY <1>3, <2>2
  <2> QED  BY <2>3, <2>4, <2>5, <2>6, Begins, IdleFields
<1>4. ASSUME NEW m \in SupplierPayments, payment[m].state # "none",
             Begin(s, [Idle EXCEPT !.op = "trash", !.by = m])
      PROVE  StockInv'
  <2>1. PICK n : n = [Idle EXCEPT !.op = "trash", !.by = m]  OBVIOUS
  <2>2. n \in Requests  BY <2>1, IdleTyped DEF Requests, AllEndpoints
  <2>3. n.op = "trash" /\ n.by = m /\ n.todo = Idle.todo /\ n.held = Idle.held /\ n.after = Idle.after
        /\ n.change = Idle.change
    BY <2>1, IdleTyped DEF Requests
  <2>4. RequestNames(n) /\ ReceiptFits(n)  BY <1>4, <2>3, IdleFields DEF RequestNames, ReceiptFits
  <2>5. Begin(s, n)  BY <1>4, <2>1
  <2> QED  BY <2>2, <2>3, <2>4, <2>5, Begins, IdleFields
<1> QED  BY <1>1, <1>2, <1>3, <1>4 DEF PurchaseRequest

LEMMA InventoryRequests ==
  ASSUME StockNumbers, StockInv, NEW s \in Sessions, InventoryRequest(s)
  PROVE  StockInv'
<1>1. PICK v \in Inventories : Begin(s, [Idle EXCEPT !.op = "validate", !.id = v])  BY DEF InventoryRequest
<1>2. v \in Ids  BY DEF Ids
<1>3. PICK n : n = [Idle EXCEPT !.op = "validate", !.id = v]  OBVIOUS
<1>4. n \in Requests  BY <1>2, <1>3, IdleTyped DEF Requests, AllEndpoints
<1>5. n.op = "validate" /\ n.id = v /\ n.held = Idle.held /\ n.after = Idle.after /\ n.change = Idle.change
  BY <1>3, IdleTyped DEF Requests
<1>6. RequestNames(n) /\ ReceiptFits(n)  BY <1>5 DEF RequestNames, ReceiptFits
<1>7. Begin(s, n)  BY <1>1, <1>3
<1> QED  BY <1>4, <1>5, <1>6, <1>7, Begins, IdleFields


-----------------------------------------------------------------------------
(* Steps outside a transaction: no request of another session changes.      *)
LEMMA TablesChange ==
  ASSUME StockNumbers, StockInv, UNCHANGED <<purchase, payment, adjusted, req>>,
         item' \in [Items -> ItemRows], moved' \in [Items -> Int],
         inventory' \in [Inventories -> InventoryRows],
         \A i \in Items : (\E s \in Sessions : <<"item", i>> \in req[s].held) /\ item[i].state # "none" =>
           item'[i].state # "none" /\ item'[i].quantity = item[i].quantity,
         QuantityIsHistory', AlertFollowsStock', HistoryShown', DeletedIsUnused'
  PROVE  StockInv'
<1>1. TypeOK'  BY DEF StockInv, TypeOK
<1>2. Exclusion'  BY DEF StockInv, Exclusion
<1>3. ASSUME NEW s \in Sessions PROVE RequestOK(req[s])'
  <2>1. PICK r : r = req[s]  OBVIOUS
  <2>2. RequestOK(r) /\ r.op \in AllEndpoints \cup {"none"}
    <3>1. r \in Requests  BY <2>1 DEF StockInv, TypeOK
    <3> QED  BY <2>1, <3>1 DEF StockInv, Requests
  <2>3. \A i \in Items : <<"item", i>> \in r.held /\ item[i].state # "none" =>
          item'[i].state # "none" /\ item'[i].quantity = item[i].quantity
    BY <2>1
  <2>4. RequestOK(r)'  BY <2>2, <2>3, OthersStay
  <2> QED  BY <2>1, <2>4
<1> QED  BY <1>1, <1>2, <1>3, PurchasesKept DEF StockInv

(* An article that is new has no movement but its first.                    *)
LEMMA CreatesItem ==
  ASSUME StockNumbers, StockInv, NEW i \in Items, NEW q \in 0..MaxLine, CreateItem(i, q)
  PROVE  StockInv'
<1> DEFINE alert == IF q > 0 THEN AlertLevel(q, 1) ELSE "none"
           row == [state |-> "ACTIVE", quantity |-> q, minimum |-> 1, history |-> q > 0, alert |-> alert]
<1>1. q \in 0..MaxQuantity /\ q \in Nat  BY DEF StockNumbers
<1>2. alert \in {"none", "LOW_STOCK", "OUT_OF_STOCK"} /\ (q > 0 => alert # "OUT_OF_STOCK")
  BY <1>1 DEF AlertLevel
<1>3. /\ item[i].state = "none" /\ item' = [item EXCEPT ![i] = row] /\ moved' = [moved EXCEPT ![i] = @ + q]
      /\ UNCHANGED <<purchase, payment, inventory, adjusted, req>>
  BY DEF CreateItem
<1> HIDE DEF alert
<1>4. row \in ItemRows  BY <1>1, <1>2 DEF ItemRows
<1>5. row.state = "ACTIVE" /\ row.quantity = q /\ row.alert = alert /\ (row.history <=> q > 0)  OBVIOUS
<1> HIDE DEF row
<1>6. item' \in [Items -> ItemRows] /\ item'[i] = row /\ \A j \in Items \ {i} : item'[j] = item[j]
  BY <1>3, <1>4, TablesAre
<1>7. moved' \in [Items -> Int] /\ moved'[i] = moved[i] + q /\ \A j \in Items \ {i} : moved'[j] = moved[j]
  BY <1>1, <1>3, TablesAre
<1>8. moved'[i] = q  BY <1>1, <1>3, <1>7 DEF StockInv, DeletedIsUnused
<1>9. QuantityIsHistory'  BY <1>5, <1>6, <1>7, <1>8 DEF StockInv, QuantityIsHistory
<1>10. AlertFollowsStock'
  <2>1. row.history => alert # "OUT_OF_STOCK" /\ row.quantity # 0  BY <1>1, <1>2, <1>5
  <2> QED  BY <1>5, <1>6, <2>1 DEF StockInv, AlertFollowsStock
<1>11. HistoryShown'
  <2>1. ~row.history => moved'[i] = 0  BY <1>1, <1>5, <1>8
  <2> QED  BY <1>6, <1>7, <2>1 DEF StockInv, HistoryShown
<1>12. DeletedIsUnused'
  <2>1. \A j \in Items : item'[j].state = "none" => item[j].state = "none" /\ moved'[j] = moved[j]
    BY <1>5, <1>6, <1>7
  <2> QED  BY <1>3, <2>1, DeletedStays
<1>13. \A j \in Items : item[j].state # "none" => item'[j] = item[j]  BY <1>3, <1>6
<1> QED  BY <1>3, <1>6, <1>7, <1>9, <1>10, <1>11, <1>12, <1>13, InventoriesKept, TablesChange

LEMMA EditsItem ==
  ASSUME StockNumbers, StockInv, NEW i \in Items, EditItem(i)
  PROVE  StockInv'
<1>1. PICK row : /\ item' = [item EXCEPT ![i] = row]
                 /\ row \in ItemRows /\ row.state # "none" /\ row.quantity = item[i].quantity
                 /\ row.alert = item[i].alert /\ row.history = item[i].history
  <2>1. item[i].state # "none" /\ item[i] \in ItemRows  BY TablesAre DEF EditItem
  <2>2. CASE \E minimum \in 0..1 : item' = [item EXCEPT ![i].minimum = minimum]
    <3>1. PICK minimum \in 0..1 : item' = [item EXCEPT ![i].minimum = minimum]  BY <2>2
    <3>2. PICK row : row = [item[i] EXCEPT !.minimum = minimum]  OBVIOUS
    <3>3. item' = [item EXCEPT ![i] = row]  BY <3>1, <3>2
    <3>4. /\ row \in ItemRows /\ row.state = item[i].state /\ row.quantity = item[i].quantity
          /\ row.alert = item[i].alert /\ row.history = item[i].history
      BY <2>1, <3>2 DEF ItemRows
    <3> QED  BY <2>1, <3>3, <3>4
  <2>3. CASE \E state \in {"ACTIVE", "INACTIVE"} : item' = [item EXCEPT ![i].state = state]
    <3>1. PICK state \in {"ACTIVE", "INACTIVE"} : item' = [item EXCEPT ![i].state = state]  BY <2>3
    <3>2. PICK row : row = [item[i] EXCEPT !.state = state]  OBVIOUS
    <3>3. item' = [item EXCEPT ![i] = row]  BY <3>1, <3>2
    <3>4. /\ row \in ItemRows /\ row.state = state /\ row.quantity = item[i].quantity
          /\ row.alert = item[i].alert /\ row.history = item[i].history
      BY <2>1, <3>2 DEF ItemRows
    <3> QED  BY <3>1, <3>3, <3>4
  <2> QED  BY <2>2, <2>3 DEF EditItem
<1>2. item[i].state # "none" /\ UNCHANGED <<moved, purchase, payment, inventory, adjusted, req>>
  BY DEF EditItem
<1>3. item' \in [Items -> ItemRows] /\ item'[i] = row /\ \A j \in Items \ {i} : item'[j] = item[j]
  BY <1>1, TablesAre
<1>4. QuantityIsHistory'  BY <1>1, <1>2, <1>3 DEF StockInv, QuantityIsHistory
<1>5. AlertFollowsStock'  BY <1>1, <1>3 DEF StockInv, AlertFollowsStock
<1>6. HistoryShown'  BY <1>1, <1>2, <1>3 DEF StockInv, HistoryShown
<1>7. DeletedIsUnused'
  <2>1. \A j \in Items : item'[j].state = "none" => item[j].state = "none"  BY <1>1, <1>3
  <2> QED  BY <1>2, <2>1, DeletedStays
<1>8. moved' \in [Items -> Int]  BY <1>2, TablesAre
<1>9. \A j \in Items : item[j].state # "none" =>
        item'[j].state # "none" /\ item'[j].quantity = item[j].quantity
  BY <1>1, <1>3
<1> QED  BY <1>2, <1>3, <1>4, <1>5, <1>6, <1>7, <1>8, <1>9, InventoriesKept, TablesChange

(* An article is deleted when nothing names it, and no request has it.      *)
LEMMA DeletesItem ==
  ASSUME StockNumbers, StockInv, NEW i \in Items, DeleteItem(i)
  PROVE  StockInv'
<1>1. /\ Unlocked(i) /\ ~InUse(i) /\ item' = [item EXCEPT ![i] = NoItem]
      /\ UNCHANGED <<moved, purchase, payment, inventory, adjusted, req>>
  BY DEF DeleteItem
<1>2. /\ item' \in [Items -> ItemRows] /\ moved' \in [Items -> Int]
      /\ item'[i] = NoItem /\ \A j \in Items \ {i} : item'[j] = item[j]
  BY <1>1, NoItemTyped, TablesAre
<1>3. NoItem.quantity = 0 /\ ~NoItem.history  BY DEF NoItem
<1>4. moved[i] = 0  BY <1>1 DEF InUse, StockInv, HistoryShown
<1>5. QuantityIsHistory'  BY <1>1, <1>2, <1>3, <1>4 DEF StockInv, QuantityIsHistory
<1>6. AlertFollowsStock'  BY <1>2, <1>3 DEF StockInv, AlertFollowsStock
<1>7. HistoryShown'  BY <1>1, <1>2, <1>4 DEF StockInv, HistoryShown
<1>8. DeletedIsUnused'
  <2> SUFFICES ASSUME NEW j \in Items, item'[j].state = "none"
               PROVE  /\ moved[j] = 0
                      /\ \A p \in Purchases : purchase[p].ordered[j] = 0
                      /\ \A v \in Inventories : inventory[v].theoretical[j] = Uncounted
    BY <1>1 DEF DeletedIsUnused
  <2>1. CASE j = i
    <3>1. ASSUME NEW p \in Purchases PROVE purchase[p].ordered[i] = 0
      <4>1. purchase[p].ordered[i] \in Nat  BY TablesAre DEF PurchaseRows
      <4>2. ~(purchase[p].ordered[i] > 0)  BY <1>1 DEF InUse
      <4> QED  BY <4>1, <4>2
    <3> QED  BY <1>1, <1>4, <2>1, <3>1 DEF InUse
  <2>2. CASE j # i  BY <1>2, <2>2 DEF StockInv, DeletedIsUnused
  <2> QED  BY <2>1, <2>2
<1>9. \A j \in Items : (\E s \in Sessions : <<"item", j>> \in req[s].held) => item'[j] = item[j]
  BY <1>1, <1>2 DEF Unlocked
<1> QED  BY <1>1, <1>2, <1>5, <1>6, <1>7, <1>8, <1>9, InventoriesKept, TablesChange

LEMMA CreatesInventory ==
  ASSUME StockNumbers, StockInv, NEW v \in Inventories, CreateInventory(v)
  PROVE  StockInv'
<1>1. PICK lines \in {ActiveLines} \cup SuppliedLines :
        inventory' = [inventory EXCEPT ![v] =
          [state |-> "DRAFT", theoretical |-> lines.theoretical, physical |-> lines.physical]]
  BY DEF CreateInventory
<1>2. UNCHANGED <<item, moved, purchase, payment, adjusted, req>>  BY DEF CreateInventory
<1>3. /\ lines.theoretical \in Counts /\ lines.physical \in Counts
      /\ \A i \in Items : item[i].state = "none" => lines.theoretical[i] = Uncounted
  <2>1. CASE lines = ActiveLines
    <3>1. ASSUME NEW i \in Items PROVE item[i].quantity \in 0..Uncounted /\ Uncounted \in 0..Uncounted
      <4>1. item[i].quantity \in 0..MaxQuantity  BY TablesAre DEF ItemRows
      <4> QED  BY <4>1 DEF StockNumbers, Uncounted
    <3> QED  BY <2>1, <3>1, BoundsTyped DEF ActiveLines, Counts
  <2>2. CASE lines \in SuppliedLines  BY <2>2 DEF SuppliedLines
  <2> QED  BY <1>1, <2>1, <2>2
<1>4. PICK row : row = [state |-> "DRAFT", theoretical |-> lines.theoretical, physical |-> lines.physical]
  OBVIOUS
<1>5. row \in InventoryRows /\ row.theoretical = lines.theoretical  BY <1>3, <1>4 DEF InventoryRows
<1>6. /\ inventory' \in [Inventories -> InventoryRows] /\ inventory'[v] = row
      /\ \A w \in Inventories \ {v} : inventory'[w] = inventory[w]
  BY <1>1, <1>4, <1>5, TablesAre
<1>7. DeletedIsUnused'  BY <1>2, <1>3, <1>5, <1>6 DEF StockInv, DeletedIsUnused
<1> QED  BY <1>2, <1>6, <1>7, ArticlesKept, TablesChange

LEMMA CountsInventory ==
  ASSUME StockNumbers, StockInv, NEW v \in Inventories, CountInventory(v)
  PROVE  StockInv'
<1>1. PICK physical \in Counts, state \in {"DRAFT", "IN_PROGRESS"} :
        inventory' = [inventory EXCEPT ![v].physical = physical, ![v].state = state]
  BY DEF CountInventory
<1>2. UNCHANGED <<item, moved, purchase, payment, adjusted, req>>  BY DEF CountInventory
<1>3. PICK row : row = [inventory[v] EXCEPT !.physical = physical, !.state = state]  OBVIOUS
<1>4. inventory' = [inventory EXCEPT ![v] = row]  BY <1>1, <1>3, TablesAre
<1>5. row \in InventoryRows /\ row.theoretical = inventory[v].theoretical
  BY <1>3, TablesAre DEF InventoryRows
<1>6. inventory' \in [Inventories -> InventoryRows]  BY <1>4, <1>5, TablesAre
<1>7. \A w \in Inventories : inventory'[w].theoretical = inventory[w].theoretical  BY <1>4, <1>5, TablesAre
<1>8. DeletedIsUnused'  BY <1>2, <1>7, DeletedStays
<1> QED  BY <1>2, <1>6, <1>8, ArticlesKept, TablesChange

-----------------------------------------------------------------------------
LEMMA StockInit ==
  ASSUME StockNumbers, Init
  PROVE  StockInv
<1>1. /\ item = [i \in Items |-> NoItem] /\ moved = NoChange
      /\ purchase = [p \in Purchases |-> NoPurchase]
      /\ payment = [m \in SupplierPayments |-> [state |-> "none", of |-> 0, amount |-> 0]]
      /\ inventory = [v \in Inventories |->
           [state |-> "none", theoretical |-> NotCounted, physical |-> NotCounted]]
      /\ adjusted = [v \in Inventories |-> NoChange]
      /\ req = [s \in Sessions |-> Idle]
  BY DEF Init
<1>2. item \in [Items -> ItemRows] /\ moved \in [Items -> Int] /\ purchase \in [Purchases -> PurchaseRows]
  BY <1>1, NoItemTyped, NoPurchaseTyped, BoundsTyped
<1>3. payment \in [SupplierPayments -> PaymentRows]
  <2>1. [state |-> "none", of |-> 0, amount |-> 0] \in PaymentRows  BY DEF PaymentRows
  <2> QED  BY <1>1, <2>1
<1>4. inventory \in [Inventories -> InventoryRows] /\ adjusted \in [Inventories -> [Items -> Int]]
  <2>1. [state |-> "none", theoretical |-> NotCounted, physical |-> NotCounted] \in InventoryRows
    BY BoundsTyped DEF InventoryRows
  <2> QED  BY <1>1, <2>1, BoundsTyped
<1>5. TypeOK  BY <1>1, <1>2, <1>3, <1>4, IdleTyped DEF TypeOK
<1>6. PaymentsNamed  BY <1>1 DEF PaymentsNamed
<1>7. Exclusion  BY <1>1, IdleFields DEF Exclusion
<1>8. \A s \in Sessions : RequestOK(req[s])  BY <1>1, IdleOK
<1>9. QuantityIsHistory /\ AlertFollowsStock /\ HistoryShown
  BY <1>1 DEF QuantityIsHistory, AlertFollowsStock, HistoryShown, NoItem, NoChange
<1>10. DeletedIsUnused
  <2>1. \A i \in Items : NoChange[i] = 0 /\ NotCounted[i] = Uncounted  BY DEF NoChange, NotCounted
  <2>2. NoPurchase.ordered = NoChange  BY DEF NoPurchase
  <2> QED  BY <1>1, <2>1, <2>2 DEF DeletedIsUnused
<1>11. ReceivedWithinOrdered /\ StatusFollowsPurchase
  <2>1. NoPurchase.ordered = NoChange /\ NoPurchase.received = NoChange /\ NoPurchase.state = "none"
    BY DEF NoPurchase
  <2>2. \A i \in Items : NoChange[i] = 0  BY DEF NoChange
  <2> QED  BY <1>1, <2>1, <2>2 DEF ReceivedWithinOrdered, StatusFollowsPurchase
<1> QED  BY <1>5, <1>6, <1>7, <1>8, <1>9, <1>10, <1>11 DEF StockInv

LEMMA StockNext ==
  ASSUME StockNumbers, StockInv, [Next]_vars
  PROVE  StockInv'
<1>1. ASSUME NEW s \in Sessions, Step(s) PROVE StockInv'
  <2>1. CASE OpenDocument(s)  BY <2>1, OpensDocument
  <2>2. CASE CommitDocument(s)  BY <2>2, CommitsDocument
  <2>3. CASE Move(s)  BY <2>3, Moves
  <2>4. CASE OpenPurchase(s)  BY <2>4, OpensPurchase
  <2>5. CASE CommitPurchase(s)  BY <2>5, CommitsPurchase
  <2>6. CASE OpenReceipt(s)  BY <2>6, OpensReceipt
  <2>7. CASE NumberReceipt(s)  BY <2>7, NumbersReceipt
  <2>8. CASE CommitReceipt(s)  BY <2>8, CommitsReceipt
  <2>9. CASE LockPurchase(s)  BY <2>9, LocksPurchase
  <2>10. CASE CommitPayment(s)  BY <2>10, CommitsPayment
  <2>11. CASE SumOthers(s)  BY <2>11, SumsOthers
  <2>12. CASE CommitTrash(s)  BY <2>12, CommitsTrash
  <2>13. CASE ReadInventory(s)  BY <2>13, ReadsInventory
  <2>14. CASE CommitValidation(s)  BY <2>14, CommitsValidation
  <2> QED  BY <1>1, <2>1, <2>2, <2>3, <2>4, <2>5, <2>6, <2>7, <2>8, <2>9, <2>10, <2>11, <2>12, <2>13, <2>14
           DEF Step
<1>2. ASSUME NEW s \in Sessions,
             StockRequest(s) \/ PurchaseRequest(s) \/ InventoryRequest(s) \/ Step(s) \/ Rollback(s)
      PROVE  StockInv'
  BY <1>1, <1>2, StockRequests, PurchaseRequests, InventoryRequests, RollsBack
<1>3. ASSUME NEW i \in Items, EditItem(i) \/ DeleteItem(i) \/ \E q \in 0..MaxLine : CreateItem(i, q)
      PROVE  StockInv'
  BY <1>3, EditsItem, DeletesItem, CreatesItem
<1>4. ASSUME NEW v \in Inventories, CreateInventory(v) \/ CountInventory(v) PROVE StockInv'
  BY <1>4, CreatesInventory, CountsInventory
<1>5. CASE UNCHANGED vars
  <2>1. UNCHANGED rows /\ UNCHANGED req  BY <1>5 DEF vars, rows
  <2>2. UNCHANGED <<item, moved, purchase, payment, inventory, adjusted>>  BY <2>1 DEF rows
  <2>3. ASSUME NEW s \in Sessions PROVE RequestOK(req[s])'
    <3>1. PICK r : r = req[s]  OBVIOUS
    <3>2. RequestOK(r)'  BY <2>1, <3>1, RequestStays DEF StockInv
    <3> QED  BY <2>1, <3>1, <3>2
  <2>4. TypeOK' /\ Exclusion'  BY <2>1, <2>2 DEF StockInv, TypeOK, Exclusion
  <2>5. DeletedIsUnused'  BY <2>2, DeletedStays
  <2> QED  BY <2>2, <2>3, <2>4, <2>5, PurchasesKept, ArticlesKept DEF StockInv
<1> QED  BY <1>2, <1>3, <1>4, <1>5 DEF Next


-----------------------------------------------------------------------------
(* What becomes of requests, for what follows.                              *)
LEMMA Others ==
  ASSUME StockInv, NEW s \in Sessions, NEW n, req' = [req EXCEPT ![s] = n]
  PROVE  req'[s] = n /\ \A t \in Sessions \ {s} : req'[t] = req[t]
BY DEF StockInv, TypeOK

LEMMA Continued ==
  ASSUME StockInv, NEW s \in Sessions, NEW n, DOMAIN n = DOMAIN req[s], Continue(s, n)
  PROVE  /\ req'[s].op = n.op /\ req'[s].stage = n.stage /\ req'[s].id = n.id /\ req'[s].by = n.by
         /\ req'[s].todo = n.todo /\ req'[s].change = n.change /\ req'[s].sum = n.sum
         /\ \A t \in Sessions \ {s} : req'[t] = req[t]
         /\ UNCHANGED <<item, moved, purchase, payment, inventory, adjusted>>
<1> DEFINE H == req[s].held \cup Wanted(req[s])
           m == [n EXCEPT !.held = H]
<1>1. {"op", "stage", "id", "by", "todo", "change", "sum"} \subseteq DOMAIN n
  BY RequestIs DEF Requests
<1>2. req' = [req EXCEPT ![s] = m] /\ UNCHANGED rows  BY DEF Continue
<1>3. m.op = n.op /\ m.stage = n.stage /\ m.id = n.id /\ m.by = n.by
      /\ m.todo = n.todo /\ m.change = n.change /\ m.sum = n.sum
  BY <1>1
<1> HIDE DEF m
<1>4. req'[s] = m /\ \A t \in Sessions \ {s} : req'[t] = req[t]  BY <1>2, Others
<1> QED  BY <1>2, <1>3, <1>4 DEF rows

(* Neither a trash nor a validation.                                        *)
LEMMA GoesOnElsewhere ==
  ASSUME StockInv, NEW s \in Sessions,
         OpenDocument(s) \/ OpenPurchase(s) \/ OpenReceipt(s) \/ NumberReceipt(s) \/ LockPurchase(s)
  PROVE  /\ req[s].op \notin {"trash", "validate"} /\ req'[s].op = req[s].op
         /\ \A t \in Sessions \ {s} : req'[t] = req[t]
         /\ UNCHANGED <<item, moved, purchase, payment, inventory, adjusted>>
<1> DEFINE r == req[s]
<1>1. r \in Requests  BY RequestIs
<1>2. ASSUME NEW n, DOMAIN n = DOMAIN r, n.op = r.op, Continue(s, n)
      PROVE  /\ req'[s].op = req[s].op /\ \A t \in Sessions \ {s} : req'[t] = req[t]
             /\ UNCHANGED <<item, moved, purchase, payment, inventory, adjusted>>
  BY <1>2, Continued
<1>3. \A stage, todo : LET n == [r EXCEPT !.stage = stage, !.todo = todo]
                       IN DOMAIN n = DOMAIN r /\ n.op = r.op
  BY <1>1 DEF Requests
<1>4. \A stage, row : LET n == [r EXCEPT !.stage = stage, !.row = row]
                      IN DOMAIN n = DOMAIN r /\ n.op = r.op
  BY <1>1 DEF Requests
<1>5. \A stage : LET n == [r EXCEPT !.stage = stage]
                 IN DOMAIN n = DOMAIN r /\ n.op = r.op
  BY <1>1 DEF Requests
<1> HIDE DEF r
<1>6. CASE OpenDocument(s)
  <2>1. r.op \notin {"trash", "validate"} /\ Continue(s, [r EXCEPT !.stage = 1])
    BY <1>6 DEF OpenDocument, Opening, r
  <2> QED  BY <1>2, <1>5, <2>1 DEF r
<1>7. CASE OpenPurchase(s)
  <2>1. r.op \notin {"trash", "validate"}
        /\ \/ Continue(s, [r EXCEPT !.stage = 2, !.todo = LinesOf(r.row.ordered)])
           \/ Continue(s, [r EXCEPT !.stage = 1])
    BY <1>7 DEF OpenPurchase, Opening, r
  <2> QED  BY <1>2, <1>3, <1>5, <2>1 DEF r
<1>8. CASE OpenReceipt(s)
  <2>1. r.op \notin {"trash", "validate"} /\ Continue(s, [r EXCEPT !.stage = 2, !.row = purchase[r.id]])
    BY <1>8 DEF OpenReceipt, Opening, r
  <2> QED  BY <1>2, <1>4, <2>1 DEF r
<1>9. CASE NumberReceipt(s)
  <2>1. r.op \notin {"trash", "validate"} /\ Continue(s, [r EXCEPT !.stage = 1])
    BY <1>9 DEF NumberReceipt, r
  <2> QED  BY <1>2, <1>5, <2>1 DEF r
<1>10. CASE LockPurchase(s)
  <2>1. r.op \notin {"trash", "validate"} /\ Continue(s, [r EXCEPT !.stage = 1])
    BY <1>10 DEF LockPurchase, Opening, r
  <2> QED  BY <1>2, <1>5, <2>1 DEF r
<1> QED  BY <1>6, <1>7, <1>8, <1>9, <1>10

(* A request that begins has read nothing.                                  *)
LEMMA BeginsFresh ==
  ASSUME StockNumbers, StockInv, NEW s \in Sessions,
         StockRequest(s) \/ PurchaseRequest(s) \/ InventoryRequest(s)
  PROVE  /\ req'[s].op = "trash" => req'[s].stage = 0
         /\ req'[s].op = "validate" =>
              req'[s].stage = 0 /\ req'[s].todo = Nothing /\ req'[s].change = NoChange
         /\ \A t \in Sessions \ {s} : req'[t] = req[t]
         /\ UNCHANGED <<item, moved, purchase, payment, inventory, adjusted>>
<1> DEFINE Fresh(n) ==
             /\ n.op = "trash" => n.stage = 0
             /\ n.op = "validate" => n.stage = 0 /\ n.todo = Nothing /\ n.change = NoChange
<1>1. ASSUME NEW n, Begin(s, n), Fresh(n)
      PROVE  /\ Fresh(req'[s]) /\ \A t \in Sessions \ {s} : req'[t] = req[t]
             /\ UNCHANGED <<item, moved, purchase, payment, inventory, adjusted>>
  <2>1. req' = [req EXCEPT ![s] = n] /\ UNCHANGED rows  BY <1>1 DEF Begin
  <2>2. req'[s] = n /\ \A t \in Sessions \ {s} : req'[t] = req[t]  BY <2>1, Others
  <2> QED  BY <1>1, <2>1, <2>2 DEF rows
<1>2. Idle \in Requests  BY IdleTyped
<1>3. \A todo : Fresh([Idle EXCEPT !.op = "entry", !.todo = todo])
               /\ Fresh([Idle EXCEPT !.op = "exit", !.todo = todo])
  BY <1>2 DEF Requests
<1>4. \A todo : Fresh([Idle EXCEPT !.op = "movement", !.stage = 1, !.todo = todo])  BY <1>2 DEF Requests
<1>5. \A id, amount, by, row :
        Fresh([Idle EXCEPT !.op = "purchase", !.id = id, !.amount = amount, !.by = by, !.row = row])
  BY <1>2 DEF Requests
<1>6. \A id, todo : Fresh([Idle EXCEPT !.op = "receive", !.id = id, !.todo = todo])  BY <1>2 DEF Requests
<1>7. \A id, by, amount : Fresh([Idle EXCEPT !.op = "pay", !.id = id, !.by = by, !.amount = amount])
  BY <1>2 DEF Requests
<1>8. \A by : Fresh([Idle EXCEPT !.op = "trash", !.by = by])
  BY <1>2, IdleFields DEF Requests
<1>9. \A id : Fresh([Idle EXCEPT !.op = "validate", !.id = id])
  BY <1>2, IdleFields DEF Requests
<1>10. \E n : Begin(s, n) /\ Fresh(n)
  <2> HIDE DEF Fresh
  <2>1. CASE StockRequest(s)
    <3>1. CASE \E todo : Begin(s, [Idle EXCEPT !.op = "entry", !.todo = todo])  BY <1>3, <3>1
    <3>2. CASE \E todo : Begin(s, [Idle EXCEPT !.op = "exit", !.todo = todo])  BY <1>3, <3>2
    <3>3. CASE \E todo : Begin(s, [Idle EXCEPT !.op = "movement", !.stage = 1, !.todo = todo])  BY <1>4, <3>3
    <3> QED  BY <2>1, <3>1, <3>2, <3>3 DEF StockRequest
  <2>2. CASE PurchaseRequest(s)
    <3>1. CASE \E id, amount, by, row :
                 Begin(s, [Idle EXCEPT !.op = "purchase", !.id = id, !.amount = amount, !.by = by, !.row = row])
      BY <1>5, <3>1
    <3>2. CASE \E id, todo : Begin(s, [Idle EXCEPT !.op = "receive", !.id = id, !.todo = todo])  BY <1>6, <3>2
    <3>3. CASE \E id, by, amount : Begin(s, [Idle EXCEPT !.op = "pay", !.id = id, !.by = by, !.amount = amount])
      BY <1>7, <3>3
    <3>4. CASE \E by : Begin(s, [Idle EXCEPT !.op = "trash", !.by = by])  BY <1>8, <3>4
    <3> QED  BY <2>2, <3>1, <3>2, <3>3, <3>4 DEF PurchaseRequest
  <2>3. CASE InventoryRequest(s)  BY <1>9, <2>3 DEF InventoryRequest
  <2> QED  BY <2>1, <2>2, <2>3
<1> QED  BY <1>1, <1>10

LEMMA MovesOn ==
  ASSUME StockNumbers, StockInv, NEW s \in Sessions, Move(s)
  PROVE  LET r == req[s]
             i == Head(r.todo).item
         IN /\ r.op # "trash" /\ r.stage = 1 /\ r.todo # Nothing /\ i \in Items
            /\ req'[s].op = r.op /\ req'[s].id = r.id /\ req'[s].stage = r.stage
            /\ req'[s].todo = Tail(r.todo)
            /\ req'[s].change = [r.change EXCEPT ![i] = r.change[i] + Head(r.todo).change]
            /\ \A t \in Sessions \ {s} : req'[t] = req[t]
            /\ UNCHANGED <<item, moved, purchase, payment, inventory, adjusted>>
<1> DEFINE r == req[s]
           i == Head(r.todo).item
           c == Head(r.todo).change
           after == QuantityOf(r, i) + c
           todo == Tail(r.todo)
           counts == [r.after EXCEPT ![i] = after]
           change == [r.change EXCEPT ![i] = r.change[i] + c]
           n == [r EXCEPT !.todo = todo, !.after = counts, !.change = change]
<1>1. r \in Requests /\ r.todo \in Seq(Line) /\ RequestNames(r)  BY RequestIs
<1>2. /\ r.stage = 1 /\ r.todo # Nothing
      /\ Continue(s, [r EXCEPT !.todo = Tail(@), !.after[i] = after, !.change[i] = r.change[i] + c])
  BY DEF Move
<1>3. r.op # "trash"  BY <1>1, <1>2 DEF RequestNames
<1>4. i \in Items  BY <1>1, <1>2, HeadAndTail DEF Line
<1>5. [r EXCEPT !.todo = Tail(@), !.after[i] = after, !.change[i] = r.change[i] + c] = n  OBVIOUS
<1>6. Continue(s, n)  BY <1>2, <1>5
<1> HIDE DEF i, c, after, todo, counts, change
<1>7. /\ n.op = r.op /\ n.stage = r.stage /\ n.id = r.id /\ n.todo = todo /\ n.change = change
      /\ DOMAIN n = DOMAIN r
  BY <1>1 DEF Requests
<1> HIDE DEF r, n
<1>8. /\ req'[s].op = n.op /\ req'[s].stage = n.stage /\ req'[s].id = n.id /\ req'[s].todo = n.todo
      /\ req'[s].change = n.change
      /\ \A t \in Sessions \ {s} : req'[t] = req[t]
      /\ UNCHANGED <<item, moved, purchase, payment, inventory, adjusted>>
  BY <1>6, <1>7, Continued DEF r
<1> QED  BY <1>2, <1>3, <1>4, <1>7, <1>8 DEF r, i, c, todo, change

LEMMA ReadsOn ==
  ASSUME StockInv, NEW s \in Sessions, ReadInventory(s)
  PROVE  /\ req[s].op = "validate" /\ req[s].stage = 0 /\ Validatable(req[s].id)
         /\ req'[s].op = "validate" /\ req'[s].id = req[s].id /\ req'[s].stage = 1
         /\ req'[s].todo = LinesOf(Difference(req[s].id)) /\ req'[s].change = req[s].change
         /\ \A t \in Sessions \ {s} : req'[t] = req[t]
         /\ UNCHANGED <<item, moved, purchase, payment, inventory, adjusted>>
<1> DEFINE r == req[s]
           lines == LinesOf(Difference(r.id))
           n == [r EXCEPT !.stage = 1, !.todo = lines]
<1>1. r \in Requests  BY RequestIs
<1>2. r.op = "validate" /\ r.stage = 0 /\ Validatable(r.id) /\ Continue(s, n)  BY DEF ReadInventory, Opening
<1> HIDE DEF lines
<1>3. n.op = r.op /\ n.stage = 1 /\ n.id = r.id /\ n.todo = lines /\ n.change = r.change /\ DOMAIN n = DOMAIN r
  BY <1>1 DEF Requests
<1> HIDE DEF n
<1>4. /\ req'[s].op = n.op /\ req'[s].stage = n.stage /\ req'[s].id = n.id /\ req'[s].todo = n.todo
      /\ req'[s].change = n.change
      /\ \A t \in Sessions \ {s} : req'[t] = req[t]
      /\ UNCHANGED <<item, moved, purchase, payment, inventory, adjusted>>
  BY <1>2, <1>3, Continued
<1> QED  BY <1>2, <1>3, <1>4 DEF lines

LEMMA SumsOn ==
  ASSUME StockInv, NEW s \in Sessions, SumOthers(s)
  PROVE  /\ req[s].op = "trash" /\ payment[req[s].by].state = "live"
         /\ req'[s].op = "trash" /\ req'[s].by = req[s].by
         /\ req'[s].sum = LivePaid(payment[req[s].by].of, Trashed(req[s].by))
         /\ \A t \in Sessions \ {s} : req'[t] = req[t]
         /\ UNCHANGED <<item, moved, purchase, payment, inventory, adjusted>>
<1> DEFINE r == req[s]
           sum == LivePaid(payment[r.by].of, Trashed(r.by))
           n == [r EXCEPT !.stage = 1, !.sum = sum]
<1>1. r \in Requests  BY RequestIs
<1>2. r.op = "trash" /\ payment[r.by].state = "live" /\ Continue(s, n)
  BY DEF SumOthers, Opening, Trashed
<1> HIDE DEF sum
<1>3. n.op = r.op /\ n.by = r.by /\ n.sum = sum /\ DOMAIN n = DOMAIN r  BY <1>1 DEF Requests
<1> HIDE DEF n
<1>4. /\ req'[s].op = n.op /\ req'[s].by = n.by /\ req'[s].sum = n.sum
      /\ \A t \in Sessions \ {s} : req'[t] = req[t]
      /\ UNCHANGED <<item, moved, purchase, payment, inventory, adjusted>>
  BY <1>2, <1>3, Continued
<1> QED  BY <1>2, <1>3, <1>4 DEF sum

LEMMA EndsAs ==
  ASSUME StockInv, NEW s \in Sessions, Ends(s)
  PROVE  req'[s].op = "none" /\ \A t \in Sessions \ {s} : req'[t] = req[t]
BY Others, IdleFields DEF Ends


-----------------------------------------------------------------------------
(* Sums of payments.                                                        *)

(* The same live payments of a purchase make the same sum.                  *)
LEMMA LivePaidSame ==
  ASSUME StockNumbers, NEW q,
         NEW old \in [SupplierPayments -> PaymentRows], NEW new \in [SupplierPayments -> PaymentRows],
         \A m \in SupplierPayments :
           \/ new[m] = old[m]
           \/ ~(old[m].of = q /\ old[m].state = "live") /\ ~(new[m].of = q /\ new[m].state = "live")
  PROVE  LivePaid(q, new) = LivePaid(q, old)
<1> DEFINE S(rows_) == {m \in SupplierPayments : rows_[m].of = q /\ rows_[m].state = "live"}
           f(rows_) == [m \in SupplierPayments |-> rows_[m].amount]
<1>1. S(new) = S(old)  OBVIOUS
<1>2. IsFiniteSet(S(old)) /\ S(old) \subseteq SupplierPayments  BY FS_Subset DEF StockNumbers
<1>3. \A m \in S(old) : f(old)[m] \in Int /\ f(new)[m] = f(old)[m]
  <2> TAKE m \in S(old)
  <2>1. old[m] \in PaymentRows /\ new[m] = old[m]  OBVIOUS
  <2> QED  BY <2>1 DEF PaymentRows
<1> HIDE DEF S, f
<1>4. SumFunctionOnSet(f(new), S(old)) = SumFunctionOnSet(f(old), S(old))  BY <1>2, <1>3, SumEqual
<1> QED  BY <1>1, <1>4 DEF LivePaid, S, f

(* A payment that is added.                                                 *)
LEMMA LivePaidAdded ==
  ASSUME StockNumbers, NEW old \in [SupplierPayments -> PaymentRows], NEW m \in SupplierPayments,
         old[m].state # "live", NEW p \in Purchases, NEW a \in Nat,
         NEW new, new[m].state = "live", new[m].of = p, new[m].amount = a,
         \A k \in SupplierPayments \ {m} : new[k] = old[k]
  PROVE  LivePaid(p, new) = LivePaid(p, old) + a
<1> DEFINE S(rows_) == {k \in SupplierPayments : rows_[k].of = p /\ rows_[k].state = "live"}
           f(rows_) == [k \in SupplierPayments |-> rows_[k].amount]
<1>1. new[m].state = "live" /\ new[m].of = p /\ new[m].amount = a
      /\ \A k \in SupplierPayments \ {m} : new[k] = old[k]
  OBVIOUS
<1>2. S(new) = S(old) \cup {m} /\ m \notin S(old)  BY <1>1
<1>3. IsFiniteSet(S(old)) /\ S(old) \subseteq SupplierPayments  BY FS_Subset DEF StockNumbers
<1>4. \A k \in S(old) : f(old)[k] \in Int /\ f(new)[k] = f(old)[k]
  <2> TAKE k \in S(old)
  <2>1. old[k] \in PaymentRows /\ new[k] = old[k]  BY <1>1
  <2> QED  BY <2>1 DEF PaymentRows
<1>5. f(new)[m] = a  BY <1>1
<1>6. \A k \in S(old) \cup {m} : f(new)[k] \in Int  BY <1>4, <1>5
<1> HIDE DEF S, f
<1>7. SumFunctionOnSet(f(new), S(old)) = SumFunctionOnSet(f(old), S(old))  BY <1>3, <1>4, SumEqual
<1>8. SumFunctionOnSet(f(new), S(old) \cup {m}) = f(new)[m] + SumFunctionOnSet(f(new), S(old))
  BY <1>2, <1>3, <1>6, SumAddOne
<1>9. SumFunctionOnSet(f(old), S(old)) \in Int
  <2>1. \A k \in S(old) : f(old)[k] \in Int  BY <1>4
  <2> QED  BY <1>3, <2>1, SumType
<1>10. LivePaid(p, new) = SumFunctionOnSet(f(new), S(new)) /\ LivePaid(p, old) = SumFunctionOnSet(f(old), S(old))
  BY DEF LivePaid, S, f
<1>11. SumFunctionOnSet(f(new), S(new)) = a + SumFunctionOnSet(f(old), S(old))  BY <1>2, <1>5, <1>7, <1>8
<1> QED  BY <1>9, <1>10, <1>11

LEMMA NothingPaid ==
  ASSUME NEW p, NEW records, \A m \in SupplierPayments : ~(records[m].of = p /\ records[m].state = "live")
  PROVE  LivePaid(p, records) = 0
<1>1. {m \in SupplierPayments : records[m].of = p /\ records[m].state = "live"} = {}  OBVIOUS
<1> QED  BY <1>1, SumEmpty DEF LivePaid

-----------------------------------------------------------------------------
(* What is paid is the sum of the live payments.                            *)
PaymentsInv == OthersSummed /\ PaidIsLivePayments

(* Requests that trash a payment go on or begin.                            *)
LEMMA SumsStay ==
  ASSUME PaymentsInv, UNCHANGED payment, \A p \in Purchases : purchase'[p].paid = purchase[p].paid,
         \A t \in Sessions :
           req'[t].op = "trash" /\ req'[t].stage = 1 =>
             \/ req'[t] = req[t]
             \/ /\ payment[req'[t].by].state = "live"
                /\ req'[t].sum = LivePaid(payment[req'[t].by].of, Trashed(req'[t].by))
  PROVE  PaymentsInv'
<1>1. PaidIsLivePayments'  BY DEF PaymentsInv, PaidIsLivePayments
<1>2. ASSUME NEW t \in Sessions, req'[t].op = "trash", req'[t].stage = 1
      PROVE  /\ payment[req'[t].by].state = "live"
             /\ req'[t].sum = LivePaid(payment[req'[t].by].of, Trashed(req'[t].by))
  BY <1>2 DEF PaymentsInv, OthersSummed
<1>3. OthersSummed'  BY <1>2 DEF OthersSummed, Trashed
<1> QED  BY <1>1, <1>3 DEF PaymentsInv

(* A payment of a purchase is written, whose payments nobody is summing.    *)
WritesPayment(s, m, p, row) ==
  /\ Ends(s)
  /\ payment' = [payment EXCEPT ![m] = row]
  /\ row.of = p
  /\ payment[m].state = "live" => payment[m].of = p
  /\ \A t \in Sessions \ {s} : req[t].op = "trash" => payment[req[t].by].of # p
  /\ \A q \in Purchases \ {p} : purchase'[q] = purchase[q]
  /\ purchase'[p].paid = LivePaid(p, payment')

LEMMA SumsKept ==
  ASSUME StockNumbers, StockInv, PaymentsInv, NEW s \in Sessions,
         NEW m \in SupplierPayments, NEW p \in Purchases, NEW row \in PaymentRows,
         WritesPayment(s, m, p, row)
  PROVE  PaymentsInv'
<1> USE DEF WritesPayment
<1>1. payment \in [SupplierPayments -> PaymentRows] /\ payment' \in [SupplierPayments -> PaymentRows]
      /\ payment'[m] = row /\ \A k \in SupplierPayments \ {m} : payment'[k] = payment[k]
  BY TablesAre
<1>2. \A q \in Purchases \ {p} : LivePaid(q, payment') = LivePaid(q, payment)
  <2> TAKE q \in Purchases \ {p}
  <2>1. ASSUME NEW k \in SupplierPayments
        PROVE  \/ payment'[k] = payment[k]
               \/ /\ ~(payment[k].of = q /\ payment[k].state = "live")
                  /\ ~(payment'[k].of = q /\ payment'[k].state = "live")
    <3>1. CASE k = m  BY <1>1, <3>1
    <3>2. CASE k # m  BY <1>1, <3>2
    <3> QED  BY <3>1, <3>2
  <2>2. PICK new : new = payment'  OBVIOUS
  <2>3. new \in [SupplierPayments -> PaymentRows] /\ payment \in [SupplierPayments -> PaymentRows]
    BY <1>1, <2>2
  <2>4. \A k \in SupplierPayments :
          \/ new[k] = payment[k]
          \/ ~(payment[k].of = q /\ payment[k].state = "live") /\ ~(new[k].of = q /\ new[k].state = "live")
    BY <2>1, <2>2
  <2>5. LivePaid(q, new) = LivePaid(q, payment)  BY <2>3, <2>4, LivePaidSame
  <2> QED  BY <2>2, <2>5
<1>3. PaidIsLivePayments'  BY <1>2 DEF PaymentsInv, PaidIsLivePayments
<1>4. req'[s].op = "none" /\ \A t \in Sessions \ {s} : req'[t] = req[t]  BY EndsAs
<1>5. ASSUME NEW t \in Sessions, req'[t].op = "trash", req'[t].stage = 1
      PROVE  /\ payment'[req'[t].by].state = "live"
             /\ req'[t].sum = LivePaid(payment'[req'[t].by].of, [payment' EXCEPT ![req'[t].by].state = "trashed"])
  <2> DEFINE k == req[t].by
             q == payment[k].of
             old == [payment EXCEPT ![k].state = "trashed"]
             new == [payment' EXCEPT ![k].state = "trashed"]
  <2>1. t # s /\ req'[t] = req[t] /\ req[t].op = "trash" /\ req[t].stage = 1  BY <1>4, <1>5
  <2>2. payment[k].state = "live" /\ req[t].sum = LivePaid(q, old)
    BY <2>1 DEF PaymentsInv, OthersSummed, Trashed
  <2>3. k \in SupplierPayments  BY <2>1, RequestIs DEF RequestNames
  <2>4. q # p /\ k # m  BY <2>1, <2>2
  <2>5. payment'[k] = payment[k]  BY <1>1, <2>3, <2>4
  <2>6. [payment[k] EXCEPT !.state = "trashed"] \in PaymentRows  BY <1>1, <2>3 DEF PaymentRows
  <2>7. /\ old \in [SupplierPayments -> PaymentRows] /\ new \in [SupplierPayments -> PaymentRows]
        /\ \A j \in SupplierPayments \ {m} : new[j] = old[j]
        /\ old[m] = payment[m] /\ new[m] = row
    BY <1>1, <2>3, <2>4, <2>5, <2>6
  <2> HIDE DEF old, new, k
  <2>8. ASSUME NEW j \in SupplierPayments
        PROVE  \/ new[j] = old[j]
               \/ /\ ~(old[j].of = q /\ old[j].state = "live")
                  /\ ~(new[j].of = q /\ new[j].state = "live")
    <3>1. CASE j = m  BY <2>4, <2>7, <3>1
    <3>2. CASE j # m  BY <2>7, <3>2
    <3> QED  BY <3>1, <3>2
  <2>9. LivePaid(q, new) = LivePaid(q, old)  BY <2>7, <2>8, LivePaidSame
  <2> QED  BY <2>1, <2>2, <2>5, <2>9 DEF k, new
<1>6. OthersSummed'  BY <1>5 DEF OthersSummed, Trashed
<1> QED  BY <1>3, <1>6 DEF PaymentsInv

LEMMA PaidAdded ==
  ASSUME StockNumbers, StockInv, NEW m \in SupplierPayments, payment[m].state = "none",
         NEW p \in Purchases, NEW a \in Nat,
         payment' = [payment EXCEPT ![m] = [state |-> "live", of |-> p, amount |-> a]]
  PROVE  LivePaid(p, payment') = LivePaid(p, payment) + a
<1>1. payment \in [SupplierPayments -> PaymentRows] /\ payment[m].state # "live"  BY TablesAre
<1>2. PICK new : new = [payment EXCEPT ![m] = [state |-> "live", of |-> p, amount |-> a]]  OBVIOUS
<1>3. new[m].state = "live" /\ new[m].of = p /\ new[m].amount = a  BY <1>1, <1>2
<1>4. \A k \in SupplierPayments \ {m} : new[k] = payment[k]  BY <1>1, <1>2
<1>5. PICK old : old = payment  OBVIOUS
<1>6. old \in [SupplierPayments -> PaymentRows] /\ old[m].state # "live"
      /\ \A k \in SupplierPayments \ {m} : new[k] = old[k]
  BY <1>1, <1>4, <1>5
<1>7. LivePaid(p, new) = LivePaid(p, old) + a  BY <1>3, <1>6, LivePaidAdded
<1>8. payment' = new  BY <1>2
<1> QED  BY <1>5, <1>7, <1>8

LEMMA CommitsPaid ==
  ASSUME StockNumbers, StockInv, PaymentsInv, PaymentsApart, NEW s \in Sessions,
         CommitPurchase(s) \/ CommitReceipt(s) \/ CommitPayment(s) \/ CommitTrash(s)
  PROVE  PaymentsInv'
<1> DEFINE r == req[s]
<1>1. r \in Requests /\ RequestNames(r)  BY RequestIs
<1>2. \A t \in Sessions \ {s} : req[t].op = "trash" =>
        /\ req[t].by \in SupplierPayments /\ payment[req[t].by].state # "none"
        /\ purchase[payment[req[t].by].of].state # "none"
  BY RequestIs DEF RequestNames, StockInv, PaymentsNamed
<1> HIDE DEF r
<1>3. CASE CommitPurchase(s)
  <2> DEFINE received == IF r.row.reception = "RECEIVED" THEN r.row.ordered ELSE NoChange
             opened == [NoPurchase EXCEPT !.ordered = r.row.ordered, !.received = received, !.paid = r.amount]
             row == RefreshedStatus(opened)
             paid == [state |-> "live", of |-> r.id, amount |-> r.amount]
  <2>1. /\ r.op = "purchase" /\ Ends(s) /\ purchase[r.id].state = "none"
        /\ (r.amount > 0 => payment[r.by].state = "none")
        /\ purchase' = [purchase EXCEPT ![r.id] = row]
        /\ payment' = IF r.amount = 0 THEN payment ELSE [payment EXCEPT ![r.by] = paid]
    BY <1>3 DEF CommitPurchase, Ready, r
  <2>2. r.id \in Purchases /\ r.by \in SupplierPayments /\ r.amount \in Nat
        /\ r.row.ordered \in [Items -> Nat] /\ received \in [Items -> Nat]
    BY <1>1, <2>1, BoundsTyped DEF RequestNames, PurchaseRows, Requests
  <2>3. paid \in PaymentRows /\ paid.of = r.id  BY <2>2 DEF PaymentRows
  <2> HIDE DEF received, paid
  <2>4. opened \in PurchaseRows /\ opened.paid = r.amount  BY <2>2, NoPurchaseTyped DEF PurchaseRows
  <2> HIDE DEF opened
  <2>5. row.paid = r.amount  BY <2>4, RefreshedRow
  <2> HIDE DEF row
  <2>6. purchase'[r.id].paid = r.amount /\ \A q \in Purchases \ {r.id} : purchase'[q] = purchase[q]
    BY <2>1, <2>2, <2>5, TablesAre
  <2>7. \A m \in SupplierPayments : ~(payment[m].of = r.id /\ payment[m].state = "live")
    BY <2>1 DEF StockInv, PaymentsNamed
  <2>8. LivePaid(r.id, payment) = 0  BY <2>7, NothingPaid
  <2>9. CASE r.amount = 0
    <3>1. \A q \in Purchases : purchase'[q].paid = purchase[q].paid
      BY <2>2, <2>6, <2>8, <2>9 DEF PaymentsInv, PaidIsLivePayments
    <3>2. \A t \in Sessions : req'[t].op = "trash" => req'[t] = req[t]  BY <2>1, EndsAs
    <3> QED  BY <2>1, <2>9, <3>1, <3>2, SumsStay
  <2>10. CASE r.amount # 0
    <3>1. payment[r.by].state = "none" /\ payment' = [payment EXCEPT ![r.by] = paid]  BY <2>1, <2>2, <2>10
    <3>2. LivePaid(r.id, payment') = LivePaid(r.id, payment) + r.amount
      BY <2>2, <3>1, PaidAdded DEF paid
    <3>3. purchase'[r.id].paid = LivePaid(r.id, payment')  BY <2>2, <2>6, <2>8, <3>2
    <3>4. \A t \in Sessions \ {s} : req[t].op = "trash" => payment[req[t].by].of # r.id  BY <1>2, <2>1
    <3>5. payment[r.by].state # "live"  BY <3>1
    <3>6. Ends(s)  BY <2>1
    <3>7. WritesPayment(s, r.by, r.id, paid)
      BY <2>3, <2>6, <3>1, <3>3, <3>4, <3>5, <3>6 DEF WritesPayment
    <3> QED  BY <2>2, <2>3, <3>7, SumsKept
  <2> QED  BY <2>9, <2>10
<1>4. CASE CommitReceipt(s)
  <2> DEFINE p == r.id
             received == [i \in Items |-> purchase[p].received[i] + r.change[i]]
             x == [purchase[p] EXCEPT !.received = received]
  <2>1. r.op = "receive" /\ r.stage = 1 /\ Ends(s) /\ payment' = payment
        /\ purchase' = [purchase EXCEPT ![p] = RefreshedStatus(x)]
    BY <1>4 DEF CommitReceipt, Ready, r
  <2>2. p \in Purchases /\ purchase[p] \in PurchaseRows  BY <1>1, <2>1, TablesAre DEF RequestNames
  <2>3. received \in [Items -> Nat]
    <3>1. \A i \in Items : Fits(purchase[p], i, r.change[i]) /\ r.change[i] \in Int
      BY <2>1, RequestIs DEF ReceiptFits, r
    <3>2. \A i \in Items : purchase[p].received[i] \in Nat  BY <2>2 DEF PurchaseRows
    <3>3. \A i \in Items : purchase[p].received[i] + r.change[i] \in Nat  BY <3>1, <3>2 DEF Fits
    <3> QED  BY <3>3
  <2> HIDE DEF received
  <2>4. x \in PurchaseRows /\ x.paid = purchase[p].paid  BY <2>2, <2>3 DEF PurchaseRows
  <2> HIDE DEF x
  <2>5. RefreshedStatus(x).paid = purchase[p].paid  BY <2>4, RefreshedRow
  <2>6. \A q \in Purchases : purchase'[q].paid = purchase[q].paid  BY <2>1, <2>2, <2>5, TablesAre
  <2>7. \A t \in Sessions : req'[t].op = "trash" => req'[t] = req[t]  BY <2>1, EndsAs
  <2> QED  BY <2>1, <2>6, <2>7, SumsStay
<1>5. CASE CommitPayment(s)
  <2> DEFINE p == r.id
             x == [purchase[p] EXCEPT !.paid = purchase[p].paid + r.amount]
             paid == [state |-> "live", of |-> p, amount |-> r.amount]
  <2>1. /\ r.op = "pay" /\ Ends(s) /\ payment[r.by].state = "none"
        /\ payment' = [payment EXCEPT ![r.by] = paid]
        /\ purchase' = [purchase EXCEPT ![p] = RefreshedStatus(x)]
    BY <1>5 DEF CommitPayment, Ready, r
  <2>2. p \in Purchases /\ r.by \in SupplierPayments /\ r.amount \in Nat /\ purchase[p] \in PurchaseRows
    BY <1>1, <2>1, TablesAre DEF RequestNames, Requests
  <2>3. paid \in PaymentRows /\ paid.of = p  BY <2>2 DEF PaymentRows
  <2>4. purchase[p].paid + r.amount \in Nat  BY <2>2 DEF PurchaseRows
  <2>5. x \in PurchaseRows /\ x.paid = purchase[p].paid + r.amount  BY <2>2, <2>4 DEF PurchaseRows
  <2> HIDE DEF x
  <2>6. purchase'[p].paid = purchase[p].paid + r.amount /\ \A q \in Purchases \ {p} : purchase'[q] = purchase[q]
    BY <2>1, <2>2, <2>5, RefreshedRow, TablesAre
  <2>7. LivePaid(p, payment') = LivePaid(p, payment) + r.amount
    BY <2>1, <2>2, PaidAdded
  <2>8. purchase'[p].paid = LivePaid(p, payment')  BY <2>2, <2>6, <2>7 DEF PaymentsInv, PaidIsLivePayments
  <2>9. \A t \in Sessions \ {s} : req[t].op = "trash" => payment[req[t].by].of # p
    BY <2>1 DEF PaymentsApart, PurchaseOf, r
  <2>10. payment[r.by].state # "live" /\ Ends(s) /\ payment' = [payment EXCEPT ![r.by] = paid]  BY <2>1
  <2> HIDE DEF paid, p
  <2>11. WritesPayment(s, r.by, p, paid)  BY <2>3, <2>6, <2>8, <2>9, <2>10 DEF WritesPayment
  <2> QED  BY <2>2, <2>3, <2>11, SumsKept
<1>6. CASE CommitTrash(s)
  <2> DEFINE m == r.by
             p == payment[m].of
             x == [purchase[p] EXCEPT !.paid = r.sum]
             trashed == [payment[m] EXCEPT !.state = "trashed"]
  <2>1. /\ r.op = "trash" /\ r.stage = 1 /\ Ends(s)
        /\ payment' = [payment EXCEPT ![m] = trashed]
        /\ purchase' = [purchase EXCEPT ![p] = RefreshedStatus(x)]
    BY <1>6 DEF CommitTrash, Ready, TrashedRow, r
  <2>2. m \in SupplierPayments /\ payment[m].state # "none" /\ p \in Purchases /\ r.sum \in Nat
        /\ purchase[p] \in PurchaseRows
    BY <1>1, <2>1, TablesAre DEF RequestNames, PaymentsNamed, Requests
  <2>3. trashed \in PaymentRows /\ trashed.of = p  BY <2>2, TablesAre DEF PaymentRows
  <2>4. x \in PurchaseRows /\ x.paid = r.sum  BY <2>2 DEF PurchaseRows
  <2> HIDE DEF x
  <2>5. purchase'[p].paid = r.sum /\ \A q \in Purchases \ {p} : purchase'[q] = purchase[q]
    BY <2>1, <2>2, <2>4, RefreshedRow, TablesAre
  <2>6. r.sum = LivePaid(p, Trashed(m))  BY <2>1 DEF PaymentsInv, OthersSummed, r
  <2>7. Trashed(m) = payment'  BY <2>1, <2>2, TablesAre DEF Trashed
  <2>8. \A t \in Sessions \ {s} : req[t].op = "trash" => payment[req[t].by].of # p
    BY <2>1 DEF PaymentsApart, PurchaseOf, r
  <2>9. Ends(s) /\ payment' = [payment EXCEPT ![m] = trashed] /\ payment[m].of = p  BY <2>1
  <2>10. purchase'[p].paid = LivePaid(p, payment')  BY <2>5, <2>6, <2>7
  <2>11. WritesPayment(s, m, p, trashed)  BY <2>3, <2>5, <2>8, <2>9, <2>10 DEF WritesPayment
  <2> HIDE DEF trashed, m, p
  <2> QED  BY <2>2, <2>3, <2>11, SumsKept
<1> QED  BY <1>3, <1>4, <1>5, <1>6

LEMMA PaymentsKept ==
  ASSUME StockNumbers, StockInv, PaymentsInv, PaymentsApart, [Next]_vars
  PROVE  PaymentsInv'
<1>1. ASSUME UNCHANGED <<purchase, payment>>,
             \A t \in Sessions :
               req'[t].op = "trash" /\ req'[t].stage = 1 =>
                 \/ req'[t] = req[t]
                 \/ /\ payment[req'[t].by].state = "live"
                    /\ req'[t].sum = LivePaid(payment[req'[t].by].of, Trashed(req'[t].by))
      PROVE  PaymentsInv'
  BY <1>1, SumsStay
<1>2. ASSUME NEW s \in Sessions, StockRequest(s) \/ PurchaseRequest(s) \/ InventoryRequest(s)
      PROVE  PaymentsInv'
  <2>1. /\ req'[s].op = "trash" => req'[s].stage = 0
        /\ \A t \in Sessions \ {s} : req'[t] = req[t]
        /\ UNCHANGED <<purchase, payment>>
    BY <1>2, BeginsFresh
  <2> QED  BY <1>1, <2>1
<1>3. ASSUME NEW s \in Sessions, Step(s)
      PROVE  PaymentsInv'
  <2>1. CASE OpenDocument(s) \/ OpenPurchase(s) \/ OpenReceipt(s) \/ NumberReceipt(s) \/ LockPurchase(s)
    <3>1. /\ req'[s].op # "trash" /\ \A t \in Sessions \ {s} : req'[t] = req[t]
          /\ UNCHANGED <<purchase, payment>>
      BY <2>1, GoesOnElsewhere
    <3> QED  BY <1>1, <3>1
  <2>2. CASE Move(s)
    <3>1. /\ req'[s].op # "trash" /\ \A t \in Sessions \ {s} : req'[t] = req[t]
          /\ UNCHANGED <<purchase, payment>>
      BY <2>2, MovesOn
    <3> QED  BY <1>1, <3>1
  <2>3. CASE SumOthers(s)
    <3>1. /\ payment[req[s].by].state = "live" /\ req'[s].by = req[s].by
          /\ req'[s].sum = LivePaid(payment[req[s].by].of, Trashed(req[s].by))
          /\ \A t \in Sessions \ {s} : req'[t] = req[t]
          /\ UNCHANGED <<purchase, payment>>
      BY <2>3, SumsOn
    <3> QED  BY <1>1, <3>1
  <2>4. CASE ReadInventory(s)
    <3>1. /\ req'[s].op # "trash" /\ \A t \in Sessions \ {s} : req'[t] = req[t]
          /\ UNCHANGED <<purchase, payment>>
      BY <2>4, ReadsOn
    <3> QED  BY <1>1, <3>1
  <2>5. CASE CommitDocument(s) \/ CommitValidation(s)
    <3>1. Ends(s) /\ UNCHANGED <<purchase, payment>>  BY <2>5 DEF CommitDocument, CommitValidation
    <3>2. req'[s].op # "trash" /\ \A t \in Sessions \ {s} : req'[t] = req[t]  BY <3>1, EndsAs
    <3> QED  BY <1>1, <3>1, <3>2
  <2>6. CASE CommitPurchase(s) \/ CommitReceipt(s) \/ CommitPayment(s) \/ CommitTrash(s)  BY <2>6, CommitsPaid
  <2> QED  BY <1>3, <2>1, <2>2, <2>3, <2>4, <2>5, <2>6 DEF Step
<1>4. ASSUME NEW s \in Sessions, Rollback(s)
      PROVE  PaymentsInv'
  <2>1. Ends(s) /\ UNCHANGED <<purchase, payment>>  BY <1>4 DEF Rollback, rows
  <2>2. req'[s].op # "trash" /\ \A t \in Sessions \ {s} : req'[t] = req[t]  BY <2>1, EndsAs
  <2> QED  BY <1>1, <2>1, <2>2
<1>5. ASSUME UNCHANGED <<purchase, payment, req>> PROVE PaymentsInv'  BY <1>1, <1>5
<1>6. ASSUME NEW i \in Items, EditItem(i) \/ DeleteItem(i) \/ \E q \in 0..MaxLine : CreateItem(i, q)
      PROVE  PaymentsInv'
  BY <1>5, <1>6 DEF EditItem, DeleteItem, CreateItem
<1>7. ASSUME NEW v \in Inventories, CreateInventory(v) \/ CountInventory(v) PROVE PaymentsInv'
  BY <1>5, <1>7 DEF CreateInventory, CountInventory
<1>8. CASE UNCHANGED vars  BY <1>5, <1>8 DEF vars
<1> QED  BY <1>2, <1>3, <1>4, <1>6, <1>7, <1>8 DEF Next


(* Before anything is paid.                                                 *)
LEMMA PaymentsInit == ASSUME Init PROVE PaymentsInv
<1>1. /\ purchase = [p \in Purchases |-> NoPurchase] /\ req = [s \in Sessions |-> Idle]
      /\ payment = [m \in SupplierPayments |-> [state |-> "none", of |-> 0, amount |-> 0]]
  BY DEF Init
<1>2. \A m \in SupplierPayments : payment[m].state # "live"  BY <1>1
<1>3. OthersSummed  BY <1>1, IdleFields DEF OthersSummed
<1>4. \A p \in Purchases : purchase[p].paid = 0  BY <1>1 DEF NoPurchase
<1>5. PaidIsLivePayments  BY <1>2, <1>4, NothingPaid DEF PaidIsLivePayments
<1> QED  BY <1>3, <1>5 DEF PaymentsInv

-----------------------------------------------------------------------------
(* An inventory adjusts the stock once.                                     *)
AdjustedInv == AppliesDifference /\ AdjustedOnce

LEMMA DifferenceOf ==
  ASSUME NEW v \in Inventories, inventory'[v].theoretical = inventory[v].theoretical,
         inventory'[v].physical = inventory[v].physical
  PROVE  Difference(v)' = Difference(v)
BY DEF Difference, CountedItems

LEMMA AppliesStay ==
  ASSUME NEW r, Applies(r), r.op = "validate" => r.id \in Inventories /\ inventory'[r.id] = inventory[r.id]
  PROVE  Applies(r)'
<1> SUFFICES ASSUME r.op = "validate" PROVE Applies(r)'  BY DEF Applies
<1>1. Difference(r.id)' = Difference(r.id)
  <2>1. PICK v \in Inventories : v = r.id  OBVIOUS
  <2>2. Difference(v)' = Difference(v)  BY <2>1, DifferenceOf
  <2> QED  BY <2>1, <2>2
<1> QED  BY <1>1 DEF Applies, EachOnce

(* One request goes on, and no inventory changes.                           *)
LEMMA AppliesOn ==
  ASSUME StockInv, AdjustedInv, NEW s \in Sessions, UNCHANGED <<inventory, adjusted>>,
         \A t \in Sessions \ {s} : req'[t] = req[t], NEW n, req'[s] = n, Applies(n),
         n.op = "validate" => n.id \in Inventories
  PROVE  AdjustedInv'
<1>1. ASSUME NEW t \in Sessions PROVE Applies(req[t])'
  <2>1. CASE t = s
    <3>1. Applies(n)'  BY AppliesStay
    <3> QED  BY <2>1, <3>1
  <2>2. CASE t # s
    <3>1. PICK r : r = req[t]  OBVIOUS
    <3>2. Applies(r) /\ (r.op = "validate" => r.id \in Inventories)
      BY <3>1, RequestIs DEF AdjustedInv, AppliesDifference, RequestNames
    <3>3. Applies(r)'  BY <3>2, AppliesStay
    <3> QED  BY <2>2, <3>1, <3>3
  <2> QED  BY <2>1, <2>2
<1>2. AppliesDifference'  BY <1>1 DEF AppliesDifference
<1>3. AdjustedOnce'  BY DEF AdjustedInv, AdjustedOnce, Difference, CountedItems
<1> QED  BY <1>2, <1>3 DEF AdjustedInv

(* What is left to move is what has been read and not moved.                *)
LEMMA AppliesMove ==
  ASSUME StockNumbers, StockInv, AdjustedInv, NEW s \in Sessions, Move(s)
  PROVE  Applies(req'[s]) /\ (req'[s].op = "validate" => req'[s].id \in Inventories)
<1> DEFINE r == req[s]
           i == Head(r.todo).item
           c == Head(r.todo).change
           n == req'[s]
<1>1. /\ r.stage = 1 /\ r.todo # Nothing /\ i \in Items
      /\ n.op = r.op /\ n.id = r.id /\ n.stage = r.stage /\ n.todo = Tail(r.todo)
      /\ n.change = [r.change EXCEPT ![i] = r.change[i] + c]
  BY MovesOn
<1>2. r.todo \in Seq(Line) /\ r.change \in [Items -> Int] /\ (r.op = "validate" => r.id \in Inventories)
  BY RequestIs DEF RequestNames
<1>3. Applies(r)  BY DEF AdjustedInv, AppliesDifference
<1>4. /\ Head(r.todo) \in Line /\ Head(r.todo) = r.todo[1] /\ 1 \in DOMAIN r.todo
      /\ \A k \in DOMAIN Tail(r.todo) : k + 1 \in DOMAIN r.todo /\ k + 1 # 1 /\ k \in Int
                                           /\ Tail(r.todo)[k] = r.todo[k + 1]
      /\ \A k \in DOMAIN r.todo \ {1} : k - 1 \in DOMAIN Tail(r.todo)
                                           /\ Tail(r.todo)[k - 1] = r.todo[k]
  BY <1>1, <1>2, HeadAndTail
<1>5. \A k \in DOMAIN r.todo : r.todo[k].item \in Items
  <2>1. \A k \in DOMAIN r.todo : r.todo[k] \in Line  BY <1>2
  <2> QED  BY <2>1 DEF Line
<1>6. c \in Int /\ i = r.todo[1].item /\ c = r.todo[1].change  BY <1>4 DEF Line
<1> HIDE DEF r, n, i, c
<1>7. n.change[i] = r.change[i] + c /\ \A j \in Items \ {i} : n.change[j] = r.change[j]  BY <1>1, <1>2
<1>8. ASSUME n.op = "validate" PROVE Applies(n)
  <2>1. /\ EachOnce(r) /\ inventory[r.id].state # "VALIDATED"
        /\ \A k \in DOMAIN r.todo : r.todo[k].change = Difference(r.id)[r.todo[k].item]
        /\ \A j \in Items :
             r.change[j] = Difference(r.id)[j] \/ \E k \in DOMAIN r.todo : r.todo[k].item = j
    BY <1>1, <1>3, <1>8 DEF Applies
  <2>2. r.change[i] = 0 /\ c = Difference(r.id)[i]  BY <1>4, <1>6, <2>1 DEF EachOnce
  <2>3. n.change[i] = c
    <3>1. n.change[i] = 0 + c  BY <1>7, <2>2
    <3> QED  BY <1>6, <3>1
  <2>4. \A k \in DOMAIN n.todo : k + 1 \in DOMAIN r.todo /\ k + 1 # 1 /\ k \in Int /\ n.todo[k] = r.todo[k + 1]
    BY <1>1, <1>4
  <2>5. \A k \in DOMAIN n.todo : n.todo[k].item # i /\ r.change[n.todo[k].item] = 0 /\ n.todo[k].item \in Items
    BY <1>4, <1>5, <1>6, <2>1, <2>4 DEF EachOnce
  <2>6. EachOnce(n)
    <3>1. \A k, l \in DOMAIN n.todo : n.todo[k].item = n.todo[l].item => k = l
      <4> SUFFICES ASSUME NEW k \in DOMAIN n.todo, NEW l \in DOMAIN n.todo, n.todo[k].item = n.todo[l].item
                   PROVE k = l
        OBVIOUS
      <4>1. k + 1 = l + 1  BY <2>1, <2>4 DEF EachOnce
      <4> QED  BY <2>4, <4>1
    <3>2. \A k \in DOMAIN n.todo : n.change[n.todo[k].item] = 0  BY <1>7, <2>5
    <3> QED  BY <3>1, <3>2 DEF EachOnce
  <2>7. \A k \in DOMAIN n.todo : n.todo[k].change = Difference(n.id)[n.todo[k].item]  BY <1>1, <2>1, <2>4
  <2>8. ASSUME NEW j \in Items
        PROVE  n.change[j] = Difference(n.id)[j] \/ \E k \in DOMAIN n.todo : n.todo[k].item = j
    <3>1. CASE j = i  BY <1>1, <2>2, <2>3, <3>1
    <3>2. CASE j # i /\ r.change[j] = Difference(r.id)[j]  BY <1>1, <1>7, <3>2
    <3>3. CASE j # i /\ \E k \in DOMAIN r.todo : r.todo[k].item = j
      <4>1. PICK k \in DOMAIN r.todo : r.todo[k].item = j  BY <3>3
      <4>2. k # 1  BY <1>6, <3>3, <4>1
      <4>3. k - 1 \in DOMAIN Tail(r.todo) /\ Tail(r.todo)[k - 1] = r.todo[k]  BY <1>4, <4>1, <4>2
      <4> QED  BY <1>1, <4>1, <4>3
    <3> QED  BY <2>1, <3>1, <3>2, <3>3
  <2> QED  BY <1>1, <2>1, <2>6, <2>7, <2>8 DEF Applies
<1>9. Applies(n)  BY <1>8 DEF Applies
<1> QED  BY <1>1, <1>2, <1>9 DEF n, r

(* The lines of an inventory are its differences.                           *)
LEMMA AppliesRead ==
  ASSUME StockNumbers, StockInv, AdjustedInv, NEW s \in Sessions, ReadInventory(s)
  PROVE  Applies(req'[s]) /\ req'[s].id \in Inventories
<1> DEFINE r == req[s]
           n == req'[s]
           lines == LinesOf(Difference(r.id))
<1>1. /\ r.op = "validate" /\ r.stage = 0 /\ Validatable(r.id)
      /\ n.op = "validate" /\ n.id = r.id /\ n.stage = 1 /\ n.todo = lines /\ n.change = r.change
  BY ReadsOn
<1>2. r.id \in Inventories  BY <1>1, RequestIs DEF RequestNames
<1>3. Difference(r.id) \in [Items -> Int]  BY <1>2, DifferenceTyped DEF StockInv
<1>4. /\ \A k \in DOMAIN lines : lines[k].item \in Items
                                   /\ lines[k].change = Difference(r.id)[lines[k].item]
                                   /\ Difference(r.id)[lines[k].item] # 0
      /\ \A k, l \in DOMAIN lines : lines[k].item = lines[l].item => k = l
      /\ \A i \in Items : Difference(r.id)[i] # 0 => \E k \in DOMAIN lines : lines[k].item = i
  <2> DEFINE d == Difference(r.id)
  <2>1. d \in [Items -> Int]  BY <1>3
  <2> HIDE DEF d
  <2>2. LET ls == LinesOf(d)
        IN /\ \A k \in DOMAIN ls : ls[k].item \in Items /\ ls[k].change = d[ls[k].item] /\ d[ls[k].item] # 0
           /\ \A k, l \in DOMAIN ls : ls[k].item = ls[l].item => k = l
           /\ \A i \in Items : d[i] # 0 => \E k \in DOMAIN ls : ls[k].item = i
    BY <2>1, LinesOnce
  <2> QED  BY <2>2 DEF d
<1>5. n.change = NoChange  BY <1>1 DEF AdjustedInv, AppliesDifference, Applies
<1>6. \A i \in Items : NoChange[i] = 0  BY DEF NoChange
<1>7. inventory[r.id].state # "VALIDATED"  BY <1>1 DEF Validatable
<1> HIDE DEF r, n, lines
<1>8. EachOnce(n)  BY <1>1, <1>4, <1>5, <1>6 DEF EachOnce
<1>9. \A i \in Items : n.change[i] = Difference(n.id)[i] \/ \E k \in DOMAIN n.todo : n.todo[k].item = i
  BY <1>1, <1>4, <1>5, <1>6
<1>10. \A k \in DOMAIN n.todo : n.todo[k].change = Difference(n.id)[n.todo[k].item]  BY <1>1, <1>4
<1>11. Applies(n)  BY <1>1, <1>7, <1>8, <1>9, <1>10 DEF Applies
<1> QED  BY <1>1, <1>2, <1>11 DEF n


(* All the differences are applied, and no other request validates it.      *)
LEMMA AppliesCommit ==
  ASSUME StockNumbers, StockInv, AdjustedInv, ValidatedAlone, NEW s \in Sessions, CommitValidation(s)
  PROVE  AdjustedInv'
<1>0. PICK r : r = req[s]  OBVIOUS
<1>1. /\ r.op = "validate" /\ r.stage = 1 /\ r.todo = Nothing /\ Ends(s)
      /\ inventory' = [inventory EXCEPT ![r.id].state = "VALIDATED"]
      /\ adjusted' = [adjusted EXCEPT ![r.id] = [i \in Items |-> @[i] + r.change[i]]]
  BY <1>0 DEF CommitValidation, Ready
<1>2. PICK v \in Inventories : v = r.id  BY <1>0, <1>1, RequestIs DEF RequestNames
<1> DEFINE row == [inventory[v] EXCEPT !.state = "VALIDATED"]
           applied == [i \in Items |-> adjusted[v][i] + r.change[i]]
<1>3. inventory' = [inventory EXCEPT ![v] = row] /\ adjusted' = [adjusted EXCEPT ![v] = applied]
  BY <1>1, <1>2
<1>4. row.state = "VALIDATED" /\ row.theoretical = inventory[v].theoretical /\ row.physical = inventory[v].physical
  BY TablesAre DEF InventoryRows
<1>5. /\ inventory'[v] = row /\ adjusted'[v] = applied
      /\ \A w \in Inventories \ {v} : inventory'[w] = inventory[w] /\ adjusted'[w] = adjusted[w]
  BY <1>3, TablesAre
<1>6. Applies(r)  BY <1>0 DEF AdjustedInv, AppliesDifference
<1>7. inventory[v].state # "VALIDATED" /\ \A i \in Items : r.change[i] = Difference(v)[i]
  BY <1>1, <1>2, <1>6, NothingIsNone DEF Applies
<1>8. Difference(v) \in [Items -> Int]  BY DifferenceTyped DEF StockInv
<1>9. adjusted[v] = NoChange  BY <1>7 DEF AdjustedInv, AdjustedOnce
<1>10. \A i \in Items : adjusted[v][i] + r.change[i] = Difference(v)[i]
  <2> TAKE i \in Items
  <2>1. adjusted[v][i] = 0  BY <1>9 DEF NoChange
  <2>2. Difference(v)[i] \in Int /\ r.change[i] = Difference(v)[i]  BY <1>7, <1>8
  <2> QED  BY <2>1, <2>2
<1>11. applied = Difference(v)  BY <1>8, <1>10
<1> HIDE DEF row, applied
<1>12. Difference(v)' = Difference(v)  BY <1>4, <1>5, DifferenceOf
<1>13. AdjustedOnce'
  <2> SUFFICES ASSUME NEW w \in Inventories
               PROVE  adjusted'[w] = IF inventory'[w].state = "VALIDATED" THEN Difference(w)' ELSE NoChange
    BY DEF AdjustedOnce
  <2>1. CASE w = v  BY <1>4, <1>5, <1>11, <1>12, <2>1
  <2>2. CASE w # v
    <3>1. inventory'[w] = inventory[w] /\ adjusted'[w] = adjusted[w]  BY <1>5, <2>2
    <3>2. Difference(w)' = Difference(w)  BY <3>1, DifferenceOf
    <3> QED  BY <3>1, <3>2 DEF AdjustedInv, AdjustedOnce
  <2> QED  BY <2>1, <2>2
<1>14. req'[s].op = "none" /\ \A t \in Sessions \ {s} : req'[t] = req[t]  BY <1>1, EndsAs
<1>15. ASSUME NEW t \in Sessions PROVE Applies(req[t])'
  <2>1. CASE t = s  BY <1>14, <2>1 DEF Applies
  <2>2. CASE t # s
    <3>1. PICK q : q = req[t]  OBVIOUS
    <3>2. Applies(q) /\ (q.op = "validate" => q.id \in Inventories /\ q.id # v)
      BY <1>0, <1>1, <1>2, <2>2, <3>1, RequestIs DEF AdjustedInv, AppliesDifference, RequestNames, ValidatedAlone
    <3>3. Applies(q)'  BY <1>5, <3>2, AppliesStay
    <3> QED  BY <1>14, <2>2, <3>1, <3>3
  <2> QED  BY <2>1, <2>2
<1>16. AppliesDifference'  BY <1>15 DEF AppliesDifference
<1> QED  BY <1>13, <1>16 DEF AdjustedInv

(* An inventory that no request validates is created or counted.            *)
LEMMA AppliesCount ==
  ASSUME StockInv, AdjustedInv, NotRecounted, UNCHANGED <<adjusted, req>>, NEW v \in Inventories,
         inventory[v].state # "VALIDATED", inventory'[v].state # "VALIDATED",
         \A w \in Inventories \ {v} : inventory'[w] = inventory[w]
  PROVE  AdjustedInv'
<1>1. AdjustedOnce'
  <2> SUFFICES ASSUME NEW w \in Inventories
               PROVE  adjusted'[w] = IF inventory'[w].state = "VALIDATED" THEN Difference(w)' ELSE NoChange
    BY DEF AdjustedOnce
  <2>1. CASE w = v  BY <2>1 DEF AdjustedInv, AdjustedOnce
  <2>2. CASE w # v
    <3>1. inventory'[w] = inventory[w]  BY <2>2
    <3>2. Difference(w)' = Difference(w)  BY <3>1, DifferenceOf
    <3> QED  BY <3>1, <3>2 DEF AdjustedInv, AdjustedOnce
  <2> QED  BY <2>1, <2>2
<1>2. ASSUME NEW t \in Sessions PROVE Applies(req[t])'
  <2>1. PICK q : q = req[t]  OBVIOUS
  <2>2. Applies(q) /\ (q.op = "validate" => q.id \in Inventories /\ inventory'[q.id] = inventory[q.id])
    BY <2>1, RequestIs DEF AdjustedInv, AppliesDifference, RequestNames, NotRecounted
  <2>3. Applies(q)'  BY <2>2, AppliesStay
  <2> QED  BY <2>1, <2>3
<1>3. AppliesDifference'  BY <1>2 DEF AppliesDifference
<1> QED  BY <1>1, <1>3 DEF AdjustedInv

LEMMA AdjustedKept ==
  ASSUME StockNumbers, StockInv, AdjustedInv, ValidatedAlone, NotRecounted, [Next]_vars
  PROVE  AdjustedInv'
<1>1. ASSUME NEW s \in Sessions, UNCHANGED <<inventory, adjusted>>,
             \A t \in Sessions \ {s} : req'[t] = req[t], req'[s].op # "validate"
      PROVE  AdjustedInv'
  <2>1. PICK n : n = req'[s]  OBVIOUS
  <2>2. Applies(n) /\ n.op # "validate"  BY <1>1, <2>1 DEF Applies
  <2> QED  BY <1>1, <2>1, <2>2, AppliesOn
<1>2. ASSUME NEW s \in Sessions, StockRequest(s) \/ PurchaseRequest(s) \/ InventoryRequest(s)
      PROVE  AdjustedInv'
  <2>1. /\ req'[s].op = "validate" =>
             req'[s].stage = 0 /\ req'[s].todo = Nothing /\ req'[s].change = NoChange
        /\ \A t \in Sessions \ {s} : req'[t] = req[t]
        /\ UNCHANGED <<item, moved, purchase, payment, inventory, adjusted>>
    BY <1>2, BeginsFresh
  <2>2. PICK n : n = req'[s]  OBVIOUS
  <2>3. Applies(n)  BY <2>1, <2>2, NothingIsNone DEF Applies, EachOnce
  <2>4. n.op = "validate" => n.id \in Inventories
    <3>1. StockInv'  BY StockNext
    <3>2. RequestNames(req[s])'  BY <3>1 DEF StockInv, RequestOK
    <3> QED  BY <2>2, <3>2 DEF RequestNames
  <2> QED  BY <2>1, <2>2, <2>3, <2>4, AppliesOn
<1>3. ASSUME NEW s \in Sessions, Step(s)
      PROVE  AdjustedInv'
  <2>1. CASE OpenDocument(s) \/ OpenPurchase(s) \/ OpenReceipt(s) \/ NumberReceipt(s) \/ LockPurchase(s)
    <3>1. /\ req'[s].op # "validate" /\ \A t \in Sessions \ {s} : req'[t] = req[t]
          /\ UNCHANGED <<inventory, adjusted>>
      BY <2>1, GoesOnElsewhere
    <3> QED  BY <1>1, <3>1
  <2>2. CASE Move(s)
    <3>1. \A t \in Sessions \ {s} : req'[t] = req[t]  BY <2>2, MovesOn
    <3>2. UNCHANGED <<inventory, adjusted>>  BY <2>2, MovesOn
    <3>3. PICK n : n = req'[s]  OBVIOUS
    <3>4. Applies(n) /\ (n.op = "validate" => n.id \in Inventories)  BY <2>2, <3>3, AppliesMove
    <3> QED  BY <3>1, <3>2, <3>3, <3>4, AppliesOn
  <2>3. CASE SumOthers(s)
    <3>1. /\ req'[s].op # "validate" /\ \A t \in Sessions \ {s} : req'[t] = req[t]
          /\ UNCHANGED <<inventory, adjusted>>
      BY <2>3, SumsOn
    <3> QED  BY <1>1, <3>1
  <2>4. CASE ReadInventory(s)
    <3>1. \A t \in Sessions \ {s} : req'[t] = req[t]  BY <2>4, ReadsOn
    <3>2. UNCHANGED <<inventory, adjusted>>  BY <2>4, ReadsOn
    <3>3. PICK n : n = req'[s]  OBVIOUS
    <3>4. Applies(n) /\ n.id \in Inventories  BY <2>4, <3>3, AppliesRead
    <3> QED  BY <3>1, <3>2, <3>3, <3>4, AppliesOn
  <2>5. CASE CommitDocument(s) \/ CommitPurchase(s) \/ CommitReceipt(s) \/ CommitPayment(s) \/ CommitTrash(s)
    <3>1. Ends(s) /\ UNCHANGED <<inventory, adjusted>>
      BY <2>5 DEF CommitDocument, CommitPurchase, CommitReceipt, CommitPayment, CommitTrash
    <3>2. req'[s].op # "validate" /\ \A t \in Sessions \ {s} : req'[t] = req[t]  BY <3>1, EndsAs
    <3> QED  BY <1>1, <3>1, <3>2
  <2>6. CASE CommitValidation(s)  BY <2>6, AppliesCommit
  <2> QED  BY <1>3, <2>1, <2>2, <2>3, <2>4, <2>5, <2>6 DEF Step
<1>4. ASSUME NEW s \in Sessions, Rollback(s)
      PROVE  AdjustedInv'
  <2>1. Ends(s) /\ UNCHANGED <<inventory, adjusted>>  BY <1>4 DEF Rollback, rows
  <2>2. req'[s].op # "validate" /\ \A t \in Sessions \ {s} : req'[t] = req[t]  BY <2>1, EndsAs
  <2> QED  BY <1>1, <2>1, <2>2
<1>5. ASSUME UNCHANGED <<inventory, adjusted, req>> PROVE AdjustedInv'
  <2>1. ASSUME NEW t \in Sessions PROVE Applies(req[t])'
    <3>1. PICK q : q = req[t]  OBVIOUS
    <3>2. Applies(q) /\ (q.op = "validate" => q.id \in Inventories)
      BY <3>1, RequestIs DEF AdjustedInv, AppliesDifference, RequestNames
    <3>3. Applies(q)'  BY <1>5, <3>2, AppliesStay
    <3> QED  BY <1>5, <3>1, <3>3
  <2>2. AdjustedOnce'  BY <1>5 DEF AdjustedInv, AdjustedOnce, Difference, CountedItems
  <2> QED  BY <2>1, <2>2 DEF AdjustedInv, AppliesDifference
<1>6. ASSUME NEW i \in Items, EditItem(i) \/ DeleteItem(i) \/ \E q \in 0..MaxLine : CreateItem(i, q)
      PROVE  AdjustedInv'
  BY <1>5, <1>6 DEF EditItem, DeleteItem, CreateItem
<1>7. ASSUME NEW v \in Inventories, CreateInventory(v) PROVE AdjustedInv'
  <2>1. PICK lines \in {ActiveLines} \cup SuppliedLines :
          inventory' = [inventory EXCEPT ![v] =
            [state |-> "DRAFT", theoretical |-> lines.theoretical, physical |-> lines.physical]]
    BY <1>7 DEF CreateInventory
  <2>2. inventory[v].state = "none" /\ UNCHANGED <<adjusted, req>>  BY <1>7 DEF CreateInventory
  <2>3. PICK row : row = [state |-> "DRAFT", theoretical |-> lines.theoretical, physical |-> lines.physical]
    OBVIOUS
  <2>4. row.state = "DRAFT"  BY <2>3
  <2>5. inventory'[v] = row /\ \A w \in Inventories \ {v} : inventory'[w] = inventory[w]
    BY <2>1, <2>3, TablesAre
  <2> QED  BY <2>2, <2>4, <2>5, AppliesCount
<1>8. ASSUME NEW v \in Inventories, CountInventory(v) PROVE AdjustedInv'
  <2>1. PICK physical \in Counts, state \in {"DRAFT", "IN_PROGRESS"} :
          inventory' = [inventory EXCEPT ![v].physical = physical, ![v].state = state]
    BY <1>8 DEF CountInventory
  <2>2. inventory[v].state # "VALIDATED" /\ UNCHANGED <<adjusted, req>>  BY <1>8 DEF CountInventory
  <2>3. PICK row : row = [inventory[v] EXCEPT !.physical = physical, !.state = state]  OBVIOUS
  <2>4. inventory' = [inventory EXCEPT ![v] = row]  BY <2>1, <2>3, TablesAre
  <2>5. row.state = state  BY <2>3, TablesAre DEF InventoryRows
  <2>6. inventory'[v] = row /\ \A w \in Inventories \ {v} : inventory'[w] = inventory[w]
    BY <2>4, TablesAre
  <2>7. inventory'[v].state # "VALIDATED"  BY <2>1, <2>5, <2>6
  <2> QED  BY <2>2, <2>6, <2>7, AppliesCount
<1>9. CASE UNCHANGED vars  BY <1>5, <1>9 DEF vars
<1> QED  BY <1>2, <1>3, <1>4, <1>6, <1>7, <1>8, <1>9 DEF Next

LEMMA AdjustedInit == ASSUME Init PROVE AdjustedInv
<1>1. /\ req = [s \in Sessions |-> Idle] /\ adjusted = [v \in Inventories |-> NoChange]
      /\ inventory = [v \in Inventories |->
           [state |-> "none", theoretical |-> NotCounted, physical |-> NotCounted]]
  BY DEF Init
<1>2. AppliesDifference  BY <1>1, IdleFields DEF AppliesDifference, Applies
<1>3. AdjustedOnce  BY <1>1 DEF AdjustedOnce
<1> QED  BY <1>2, <1>3 DEF AdjustedInv


-----------------------------------------------------------------------------
(* Theorems.                                                                *)

(* Requests, articles, purchases and inventories keep their types, whatever *)
(* requests run at once.                                                    *)
THEOREM StockTypes ==
  ASSUME StockNumbers PROVE Spec => []TypeOK
<1>1. Init => StockInv  BY StockInit
<1>2. StockInv /\ [Next]_vars => StockInv'  BY StockNext
<1>3. StockInv => TypeOK  BY DEF StockInv
<1> QED  BY <1>1, <1>2, <1>3, PTL DEF Spec

(* The quantity of every article is what its movements add up to and its    *)
(* alert is the one of that quantity, although movements of one article are *)
(* made at once: each locks it before it reads                              *)
(* (createStockMovementInTransaction).                                      *)
THEOREM QuantityFollowsHistory ==
  ASSUME StockNumbers PROVE Spec => [](QuantityIsHistory /\ AlertFollowsStock)
<1>1. Init => StockInv  BY StockInit
<1>2. StockInv /\ [Next]_vars => StockInv'  BY StockNext
<1>3. StockInv => QuantityIsHistory /\ AlertFollowsStock  BY DEF StockInv
<1> QED  BY <1>1, <1>2, <1>3, PTL DEF Spec

(* Receipts of one purchase entered at once never receive more than was     *)
(* ordered, its status is that of its lines and payments after each of      *)
(* them, and no article is deleted that something names                     *)
(* (receiveStockPurchaseInTransaction, deleteStockItem).                    *)
THEOREM ReceiptsWithinOrders ==
  ASSUME StockNumbers
  PROVE  Spec => [](ReceivedWithinOrdered /\ StatusFollowsPurchase /\ DeletedIsUnused)
<1>1. Init => StockInv  BY StockInit
<1>2. StockInv /\ [Next]_vars => StockInv'  BY StockNext
<1>3. StockInv => ReceivedWithinOrdered /\ StatusFollowsPurchase /\ DeletedIsUnused  BY DEF StockInv
<1> QED  BY <1>1, <1>2, <1>3, PTL DEF Spec

(* Where no other payment of its purchase is made or put in the trash       *)
(* meanwhile, a purchase shows as paid what its payments add up to          *)
(* (trashPurchasePaymentInTransaction sums them without a lock on it).      *)
THEOREM PurchasesAreFollowed ==
  ASSUME StockNumbers PROVE Spec /\ []PaymentsApart => []PurchasesFollow
<1>1. Init => StockInv /\ PaymentsInv  BY StockInit, PaymentsInit
<1>2. StockInv /\ PaymentsInv /\ PaymentsApart /\ [Next]_vars => StockInv' /\ PaymentsInv'
  BY StockNext, PaymentsKept
<1>3. StockInv /\ PaymentsInv => PurchasesFollow  BY DEF StockInv, PaymentsInv, PurchasesFollow
<1> QED  BY <1>1, <1>2, <1>3, PTL DEF Spec

(* Where one request at a time validates an inventory and its lines are not *)
(* counted meanwhile, a validation applies its differences exactly once,    *)
(* beside any other movements of its articles (validateStockInventory).     *)
THEOREM StockIsFollowed ==
  ASSUME StockNumbers PROVE Spec /\ []ValidatedAlone /\ [][NotRecounted]_vars => []StockFollows
<1>1. Init => StockInv /\ AdjustedInv  BY StockInit, AdjustedInit
<1>2. ASSUME StockInv, AdjustedInv, ValidatedAlone, [NotRecounted]_vars, [Next]_vars
      PROVE  StockInv' /\ AdjustedInv'
  <2>1. NotRecounted
    <3>1. CASE UNCHANGED vars  BY <3>1 DEF vars, NotRecounted
    <3> QED  BY <1>2, <3>1
  <2> QED  BY <1>2, <2>1, StockNext, AdjustedKept
<1>3. StockInv /\ AdjustedInv => StockFollows  BY DEF StockInv, AdjustedInv, StockFollows
<1> QED  BY <1>1, <1>2, <1>3, PTL DEF Spec

=============================================================================

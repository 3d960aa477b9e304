------------------------------- MODULE StockBooks -------------------------------
(***************************************************************************)
(* The tables of the stock of saas.service.ts, what the code computes from  *)
(* their rows, and what they must agree on.  Stock has the requests that    *)
(* read and write them.                                                     *)
(***************************************************************************)
EXTENDS Integers, Functions

CONSTANTS
  Items,            \* rows of stock_items, a set of numbers
  Purchases,        \* rows of stock_purchases
  SupplierPayments, \* rows of stock_purchase_payments
  Inventories,      \* rows of inventory_counts
  MaxQuantity       \* bound: the quantity of an article

VARIABLES
  item,       \* the articles, with the level of their unresolved alerts
  moved,      \* the signed sum of the rows of stock_movements of each article
  purchase,   \* the purchases, with their lines
  payment,    \* the payments of suppliers
  inventory,  \* the inventories, with their lines
  adjusted    \* the signed sum of the movements with the number of each inventory

(* NULL: a line that is not counted, a quantity that a request leaves alone.*)
Uncounted == MaxQuantity + 1
Counts == [Items -> 0..Uncounted]
NoChange == [i \in Items |-> 0]

ItemRows ==
  [state: {"none", "ACTIVE", "INACTIVE"}, quantity: 0..MaxQuantity, minimum: 0..1,
   alert: {"none", "LOW_STOCK", "OUT_OF_STOCK"}, history: BOOLEAN]
PurchaseRows ==
  [state: {"none", "OPEN", "CLOSED"}, ordered: [Items -> Nat], received: [Items -> Nat], paid: Nat,
   outstanding: Nat, reception: {"PENDING", "PARTIAL", "RECEIVED"},
   settled: {"UNPAID", "PARTIAL", "PAID"}]
PaymentRows == [state: {"none", "live", "trashed"}, of: Purchases \cup {0}, amount: Nat]
InventoryRows ==
  [state: {"none", "DRAFT", "IN_PROGRESS", "VALIDATED"}, theoretical: Counts, physical: Counts]

NoItem == [state |-> "none", quantity |-> 0, minimum |-> 0, alert |-> "none", history |-> FALSE]
NoPurchase ==
  [state |-> "none", ordered |-> NoChange, received |-> NoChange, paid |-> 0, outstanding |-> 0,
   reception |-> "PENDING", settled |-> "UNPAID"]
NotCounted == [i \in Items |-> Uncounted]

-----------------------------------------------------------------------------
AtLeast0(n) == IF n > 0 THEN n ELSE 0
Total(quantities) == SumFunctionOnSet(quantities, Items)

(* The payments of a purchase that are not in the trash.                    *)
LivePaid(p, records) ==
  SumFunctionOnSet([m \in SupplierPayments |-> records[m].amount],
                   {m \in SupplierPayments : records[m].of = p /\ records[m].state = "live"})

(* syncStockAlerts: alerts of another level are resolved, those of this     *)
(* level raised once.                                                       *)
AlertLevel(quantity, minimum) ==
  IF quantity <= 0 THEN "OUT_OF_STOCK" ELSE IF quantity <= minimum THEN "LOW_STOCK" ELSE "none"

(* refreshStockPurchaseStatus; a unit costs 1.                              *)
RefreshedStatus(row) ==
  LET ordered == Total(row.ordered)
      got     == Total(row.received)
      owed    == AtLeast0(ordered - row.paid)
      reception == IF got <= 0 THEN "PENDING" ELSE IF got >= ordered THEN "RECEIVED" ELSE "PARTIAL"
      settled   == IF owed <= 0 /\ ordered > 0 THEN "PAID" ELSE IF row.paid > 0 THEN "PARTIAL" ELSE "UNPAID"
  IN [row EXCEPT !.outstanding = owed, !.reception = reception, !.settled = settled,
                 !.state = IF reception = "RECEIVED" /\ settled = "PAID" THEN "CLOSED" ELSE "OPEN"]

(* The lines of an inventory, and what was counted more or less.            *)
CountedItems(v) == {i \in Items : inventory[v].theoretical[i] # Uncounted}
Difference(v) ==
  [i \in Items |-> IF i \in CountedItems(v) /\ inventory[v].physical[i] # Uncounted
                   THEN inventory[v].physical[i] - inventory[v].theoretical[i] ELSE 0]

-----------------------------------------------------------------------------
(* Properties.                                                              *)

(* "L'historique des mouvements reste fiable" (docs/codex-sprints.md:188):  *)
(* the quantity of an article is what its movements add up to, whatever     *)
(* requests move it at once.                                                *)
QuantityIsHistory == \A i \in Items : item[i].quantity = moved[i]

(* An article that has moved is reported out of stock if and only if none   *)
(* is left: no alert outlives a receipt and none is missed                  *)
(* (syncStockAlerts).                                                       *)
AlertFollowsStock ==
  \A i \in Items : item[i].history => (item[i].alert = "OUT_OF_STOCK" <=> item[i].quantity = 0)

(* No line of a purchase is received beyond what was ordered, although two  *)
(* receipts may be entered at once (receiveStockPurchaseInTransaction).     *)
ReceivedWithinOrdered ==
  \A p \in Purchases, i \in Items : purchase[p].received[i] <= purchase[p].ordered[i]

(* The status of a purchase is the one of its lines and of what is paid,    *)
(* whichever of receipt, payment and trash commits last                     *)
(* (refreshStockPurchaseStatus).                                            *)
StatusFollowsPurchase ==
  \A p \in Purchases : purchase[p].state # "none" => purchase[p] = RefreshedStatus(purchase[p])

(* What a purchase shows as paid is the sum of its payments that are not in *)
(* the trash.                                                               *)
PaidIsLivePayments == \A p \in Purchases : purchase[p].paid = LivePaid(p, payment)

(* An inventory adjusts the stock by its differences, once, when it is      *)
(* validated ("Inventaire deja valide").                                    *)
AdjustedOnce ==
  \A v \in Inventories :
    adjusted[v] = IF inventory[v].state = "VALIDATED" THEN Difference(v) ELSE NoChange

(* A deleted article is named by no movement, purchase or inventory.        *)
DeletedIsUnused ==
  \A i \in Items : item[i].state = "none" =>
    /\ moved[i] = 0
    /\ \A p \in Purchases : purchase[p].ordered[i] = 0
    /\ \A v \in Inventories : inventory[v].theoretical[i] = Uncounted

(* The quantity of an article is that of its movements, its alert that of   *)
(* its quantity, and an inventory is applied once.                          *)
StockFollows == QuantityIsHistory /\ AlertFollowsStock /\ AdjustedOnce

(* No more is received than was ordered, the status and the amount paid of  *)
(* a purchase are those of its lines and payments, and a deleted article is *)
(* not in use.                                                              *)
PurchasesFollow ==
  /\ ReceivedWithinOrdered /\ StatusFollowsPurchase
  /\ PaidIsLivePayments /\ DeletedIsUnused
=============================================================================

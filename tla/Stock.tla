--------------------------------- MODULE Stock ---------------------------------
(***************************************************************************)
(* The stock of saas.service.ts: articles and the movements that change     *)
(* their quantity, entries and exits, purchases with their receipts and     *)
(* payments, inventories, and the alerts below the security threshold.      *)
(*                                                                         *)
(* Every movement goes through createStockMovementInTransaction, which      *)
(* locks the article, computes the quantity in the program and stores it.   *)
(* A request holds its row locks to COMMIT; what it writes is visible to    *)
(* the others only then.                                                    *)
(***************************************************************************)
EXTENDS StockBooks, Sequences, FiniteSets

CONSTANTS
  Sessions,  \* concurrent requests
  MaxLine,   \* bound: the quantity of a line
  MaxLines,  \* bound: the lines of a document
  Endpoints  \* which endpoints the clients call

AllEndpoints ==
  {"create", "edit", "delete", "movement", "entry", "exit", "purchase", "receive", "pay", "trash",
   "inventory", "count", "validate"}

VARIABLE req  \* the transaction each session is running

vars == <<item, moved, purchase, payment, inventory, adjusted, req>>
rows == <<item, moved, purchase, payment, inventory, adjusted>>

Nothing == <<>>
Line == [item: Items, change: Int]
Locks ==
  ({"document"} \X {"entry", "exit"}) \cup ({"number"} \X {"purchase", "receipt"})
    \cup ({"item"} \X Items) \cup ({"purchase"} \X Purchases) \cup ({"payment"} \X SupplierPayments)
    \cup ({"inventory"} \X Inventories)
Ids == Purchases \cup Inventories \cup {0}
Requests ==
  [op: AllEndpoints \cup {"none"}, stage: 0..2, id: Ids, amount: Nat, by: SupplierPayments \cup {0},
   todo: Seq(Line), after: Counts, change: [Items -> Int],
   row: PurchaseRows \cup {Nothing}, sum: Nat, held: SUBSET Locks]
Idle ==
  [op |-> "none", stage |-> 0, id |-> 0, amount |-> 0, by |-> 0, todo |-> Nothing,
   after |-> [i \in Items |-> Uncounted], change |-> NoChange, row |-> Nothing, sum |-> 0, held |-> {}]

TypeOK ==
  /\ item \in [Items -> ItemRows]
  /\ moved \in [Items -> Int]
  /\ purchase \in [Purchases -> PurchaseRows]
  /\ payment \in [SupplierPayments -> PaymentRows]
  /\ inventory \in [Inventories -> InventoryRows]
  /\ adjusted \in [Inventories -> [Items -> Int]]
  /\ req \in [Sessions -> Requests]

Init ==
  /\ item = [i \in Items |-> NoItem]
  /\ moved = NoChange
  /\ purchase = [p \in Purchases |-> NoPurchase]
  /\ payment = [m \in SupplierPayments |-> [state |-> "none", of |-> 0, amount |-> 0]]
  /\ inventory = [v \in Inventories |->
       [state |-> "none", theoretical |-> NotCounted, physical |-> NotCounted]]
  /\ adjusted = [v \in Inventories |-> NoChange]
  /\ req = [s \in Sessions |-> Idle]

-----------------------------------------------------------------------------
(* Requests and row locks.                                                  *)

(* Variant of NextItem: the article is read without FOR UPDATE.             *)
NextItemUnlocked(r) == {}

(* The article of the next line.                                            *)
NextItem(r) == {<<"item", Head(r.todo).item>>}

(* What the next statement of a request waits for.                          *)
Wanted(r) ==
  CASE r.stage = 1 /\ r.todo # Nothing          -> NextItem(r)
    [] r.op \in {"entry", "exit"} /\ r.stage = 0 -> {<<"document", r.op>>}
    [] r.op = "purchase" /\ r.stage = 0      -> {<<"number", "purchase">>}
    [] r.op \in {"receive", "pay"} /\ r.stage = 0 -> {<<"purchase", r.id>>}
    [] r.op = "purchase" /\ r.stage = 2      -> {<<"number", "receipt">>}
    [] r.op = "receive" /\ r.stage = 2       -> {<<"number", "receipt">>}
         \cup {<<"item", i>> : i \in {j \in Items : r.row.ordered[j] > 0}}
    [] r.op = "trash" /\ r.stage = 0         -> {<<"payment", r.by>>}
    [] r.op = "trash" /\ r.stage = 1         -> {<<"purchase", payment[r.by].of>>}
    [] OTHER                                 -> {}

Free(s, held) == \A t \in Sessions \ {s} : req[t].held \cap held = {}
Waits(s) == ~Free(s, Wanted(req[s]))

Opening(s, ops) == req[s].op \in ops /\ req[s].stage = 0 /\ ~Waits(s)
Continue(s, next) ==
  /\ req' = [req EXCEPT ![s] = [next EXCEPT !.held = req[s].held \cup Wanted(req[s])]]
  /\ UNCHANGED rows
Ready(s, op) == req[s].op = op /\ req[s].stage = 1 /\ req[s].todo = Nothing /\ ~Waits(s)
Ends(s) == req' = [req EXCEPT ![s] = Idle]

-----------------------------------------------------------------------------
(* Movements.                                                               *)

(* A transaction reads what is committed, and what it wrote itself.         *)
QuantityOf(r, i) == IF r.after[i] = Uncounted THEN item[i].quantity ELSE r.after[i]

(* Variant of Sufficient: an exit is not compared with the stock.           *)
SufficientUnchecked(quantity) == quantity <= MaxQuantity

(* "Stock insuffisant"; MaxQuantity is a bound.                             *)
Sufficient(quantity) == quantity \in 0..MaxQuantity

(* createStockMovementInTransaction, up to the UPDATE of the article.       *)
Move(s) ==
  LET r == req[s]
      i == Head(r.todo).item
      after == QuantityOf(r, i) + Head(r.todo).change
  IN /\ r.stage = 1 /\ r.todo # Nothing /\ ~Waits(s)
     /\ item[i].state = "ACTIVE"
     /\ Sufficient(after)
     /\ Continue(s, [r EXCEPT !.todo = Tail(@), !.after[i] = after,
                              !.change[i] = r.change[i] + Head(r.todo).change])

(* Variant of Moved: the alerts of the level before stay.                   *)
MovedKeepsAlert(r) ==
  [i \in Items |->
    IF r.after[i] = Uncounted THEN item[i]
    ELSE [item[i] EXCEPT !.quantity = r.after[i], !.history = TRUE,
            !.alert = IF AlertLevel(r.after[i], item[i].minimum) = "none" THEN @
                      ELSE AlertLevel(r.after[i], item[i].minimum)]]

(* The articles once the movements of a request are committed.              *)
Moved(r) ==
  [i \in Items |->
    IF r.after[i] = Uncounted THEN item[i]
    ELSE [item[i] EXCEPT !.quantity = r.after[i], !.history = TRUE,
                         !.alert = AlertLevel(r.after[i], item[i].minimum)]]

StoreMovements(s) ==
  /\ item' = Moved(req[s])
  /\ moved' = [i \in Items |-> moved[i] + req[s].change[i]]

(* createStockDocument, after the lock of its number; createStockMovement   *)
(* and createMaintenanceStockConsumption take none.                         *)
OpenDocument(s) ==
  /\ Opening(s, {"entry", "exit"})
  /\ Continue(s, [req[s] EXCEPT !.stage = 1])

CommitDocument(s) ==
  /\ Ready(s, "entry") \/ Ready(s, "exit") \/ Ready(s, "movement")
  /\ StoreMovements(s) /\ Ends(s)
  /\ UNCHANGED <<purchase, payment, inventory, adjusted>>

-----------------------------------------------------------------------------
(* Articles.                                                                *)

Uses(op) == op \in Endpoints
Unlocked(i) == \A s \in Sessions : <<"item", i>> \notin req[s].held

(* createStockItem, with the movement of its initial quantity.              *)
CreateItem(i, quantity) ==
  /\ Uses("create") /\ item[i].state = "none"
  /\ item' = [item EXCEPT ![i] =
       [state |-> "ACTIVE", quantity |-> quantity, minimum |-> 1, history |-> quantity > 0,
        alert |-> IF quantity > 0 THEN AlertLevel(quantity, 1) ELSE "none"]]
  /\ moved' = [moved EXCEPT ![i] = @ + quantity]
  /\ UNCHANGED <<purchase, payment, inventory, adjusted, req>>

(* updateStockItem, deactivateStockItem and reactivateStockItem: one UPDATE.*)
EditItem(i) ==
  /\ Uses("edit") /\ item[i].state # "none" /\ Unlocked(i)
  /\ \/ \E minimum \in 0..1 : item' = [item EXCEPT ![i].minimum = minimum]
     \/ \E state \in {"ACTIVE", "INACTIVE"} : item' = [item EXCEPT ![i].state = state]
  /\ UNCHANGED <<moved, purchase, payment, inventory, adjusted, req>>

(* Variant of InUse: the movements alone.                                   *)
InUseMovements(i) == item[i].history

(* The history that deleteStockItem looks for; lines of documents are       *)
(* written with their movements.                                            *)
InUse(i) ==
  \/ item[i].history
  \/ \E p \in Purchases : purchase[p].ordered[i] > 0
  \/ \E v \in Inventories : inventory[v].theoretical[i] # Uncounted

DeleteItem(i) ==
  /\ Uses("delete") /\ item[i].state # "none" /\ Unlocked(i)
  /\ ~InUse(i)
  /\ item' = [item EXCEPT ![i] = NoItem]
  /\ UNCHANGED <<moved, purchase, payment, inventory, adjusted, req>>

-----------------------------------------------------------------------------
(* Purchases.                                                               *)

(* The n-th number of a set, from the least. *)
Nth(S, n) == CHOOSE i \in S : Cardinality({j \in S : j <= i}) = n

(* One line for each article, in the order of the articles.                 *)
LinesOf(quantities) ==
  LET named == {i \in Items : quantities[i] # 0}
  IN [n \in 1..Cardinality(named) |->
        [item |-> Nth(named, n), change |-> quantities[Nth(named, n)]]]

(* createStockPurchase: its number, its articles, which are read; what is   *)
(* received at once is received line by line.                               *)
OpenPurchase(s) ==
  LET r == req[s]
  IN /\ Opening(s, {"purchase"})
     /\ \A i \in Items : r.row.ordered[i] > 0 => item[i].state = "ACTIVE"
     /\ Continue(s, IF r.row.reception = "RECEIVED"
                    THEN [r EXCEPT !.stage = 2, !.todo = LinesOf(r.row.ordered)]
                    ELSE [r EXCEPT !.stage = 1])

(* The insertion of a line waits for a deletion of its article, and fails   *)
(* after it.                                                                *)
CommitPurchase(s) ==
  LET r == req[s]
      lines == {i \in Items : r.row.ordered[i] > 0}
      received == IF r.row.reception = "RECEIVED" THEN r.row.ordered ELSE NoChange
  IN /\ Ready(s, "purchase")
     /\ Free(s, {"item"} \X lines) /\ \A i \in lines : item[i].state # "none"
     /\ purchase[r.id].state = "none"
     /\ r.amount > 0 => payment[r.by].state = "none"
     /\ purchase' = [purchase EXCEPT ![r.id] =
          RefreshedStatus([NoPurchase EXCEPT !.ordered = r.row.ordered, !.received = received,
                                       !.paid = r.amount])]
     /\ payment' = IF r.amount = 0 THEN payment
                   ELSE [payment EXCEPT ![r.by] = [state |-> "live", of |-> r.id, amount |-> r.amount]]
     /\ StoreMovements(s) /\ Ends(s)
     /\ UNCHANGED <<inventory, adjusted>>

(* Variant of OpenReceipt: the purchase as it was before the lock.          *)
OpenReceiptUnlocked(s) ==
  LET r == req[s]
  IN /\ r.op = "receive" /\ r.stage = 0
     /\ purchase[r.id].reception # "RECEIVED"
     /\ req' = [req EXCEPT ![s].stage = 2, ![s].row = purchase[r.id]]
     /\ UNCHANGED rows

(* receiveStockPurchase locks the purchase, its lines and their articles.   *)
OpenReceipt(s) ==
  LET r == req[s]
  IN /\ Opening(s, {"receive"})
     /\ purchase[r.id].reception # "RECEIVED"
     /\ Continue(s, [r EXCEPT !.stage = 2, !.row = purchase[r.id]])

(* The number of a receipt, and the quantities that are left to receive.    *)
NumberReceipt(s) ==
  LET r == req[s]
  IN /\ r.op \in {"receive", "purchase"} /\ r.stage = 2 /\ ~Waits(s)
     /\ r.op = "receive" =>
          \A n \in DOMAIN r.todo :
            r.todo[n].change <= r.row.ordered[r.todo[n].item] - r.row.received[r.todo[n].item]
     /\ Continue(s, [r EXCEPT !.stage = 1])

CommitReceipt(s) ==
  LET r == req[s]
      row == purchase[r.id]
      received == [i \in Items |-> row.received[i] + r.change[i]]
  IN /\ Ready(s, "receive")
     /\ purchase' = [purchase EXCEPT ![r.id] = RefreshedStatus([row EXCEPT !.received = received])]
     /\ StoreMovements(s) /\ Ends(s)
     /\ UNCHANGED <<payment, inventory, adjusted>>

(* recordStockPurchasePaymentInTransaction; its cash movement is one of     *)
(* Treasury.                                                                *)
LockPurchase(s) ==
  /\ Opening(s, {"pay"})
  /\ req[s].amount <= AtLeast0(Total(purchase[req[s].id].ordered) - purchase[req[s].id].paid)
  /\ Continue(s, [req[s] EXCEPT !.stage = 1])

CommitPayment(s) ==
  LET r == req[s]
      row == purchase[r.id]
  IN /\ Ready(s, "pay")
     /\ payment[r.by].state = "none"
     /\ payment' = [payment EXCEPT ![r.by] = [state |-> "live", of |-> r.id, amount |-> r.amount]]
     /\ purchase' = [purchase EXCEPT ![r.id] = RefreshedStatus([row EXCEPT !.paid = row.paid + r.amount])]
     /\ Ends(s)
     /\ UNCHANGED <<item, moved, inventory, adjusted>>

(* Variant of SumOthers: the payment itself is in the sum.                  *)
SumOthersAndItself(s) ==
  LET r == req[s]
  IN /\ Opening(s, {"trash"})
     /\ payment[r.by].state = "live"
     /\ Continue(s, [r EXCEPT !.stage = 1, !.sum = LivePaid(payment[r.by].of, payment)])

(* trashPurchasePaymentInTransaction sums the other payments, without a     *)
(* lock on the purchase, and then stores the sum.                           *)
SumOthers(s) ==
  LET r == req[s]
  IN /\ Opening(s, {"trash"})
     /\ payment[r.by].state = "live"
     /\ Continue(s, [r EXCEPT !.stage = 1,
          !.sum = LivePaid(payment[r.by].of, [payment EXCEPT ![r.by].state = "trashed"])])

(* Variant of TrashedRow: the status is not refreshed.                      *)
TrashedRowStale(row, sum) == [row EXCEPT !.paid = sum]

TrashedRow(row, sum) == RefreshedStatus([row EXCEPT !.paid = sum])

CommitTrash(s) ==
  LET r == req[s]
      p == payment[r.by].of
  IN /\ Ready(s, "trash")
     /\ payment' = [payment EXCEPT ![r.by].state = "trashed"]
     /\ purchase' = [purchase EXCEPT ![p] = TrashedRow(@, r.sum)]
     /\ Ends(s)
     /\ UNCHANGED <<item, moved, inventory, adjusted>>

-----------------------------------------------------------------------------
(* Inventories.                                                             *)

(* A line for each active article, at its quantity.                         *)
ActiveLines ==
  [theoretical |-> [i \in Items |-> IF item[i].state = "ACTIVE" THEN item[i].quantity ELSE Uncounted],
   physical |-> NotCounted]

(* Lines of the client, who gives what they expect and may give what was    *)
(* counted.                                                                 *)
SuppliedLines ==
  {lines \in [theoretical: Counts, physical: Counts] :
     /\ lines.theoretical # NotCounted
     /\ \A i \in Items : IF lines.theoretical[i] = Uncounted THEN lines.physical[i] = Uncounted
                         ELSE item[i].state # "none"}

(* createStockInventory                                                     *)
CreateInventory(v) ==
  /\ Uses("inventory") /\ inventory[v].state = "none"
  /\ \E lines \in {ActiveLines} \cup SuppliedLines :
       inventory' = [inventory EXCEPT ![v] =
         [state |-> "DRAFT", theoretical |-> lines.theoretical, physical |-> lines.physical]]
  /\ UNCHANGED <<item, moved, purchase, payment, adjusted, req>>

(* updateStockInventory                                                     *)
CountInventory(v) ==
  /\ Uses("count") /\ inventory[v].state \in {"DRAFT", "IN_PROGRESS"}
  /\ \E physical \in Counts :
       /\ \A i \in Items \ CountedItems(v) : physical[i] = Uncounted
       /\ inventory' = [inventory EXCEPT ![v].physical = physical,
            ![v].state = IF physical = NotCounted THEN "DRAFT" ELSE "IN_PROGRESS"]
  /\ UNCHANGED <<item, moved, purchase, payment, adjusted, req>>

(* Variant of Validatable: a validated inventory is validated again.        *)
ValidatableAgain(v) == \A i \in CountedItems(v) : inventory[v].physical[i] # Uncounted

Validatable(v) ==
  /\ inventory[v].state # "VALIDATED"
  /\ \A i \in CountedItems(v) : inventory[v].physical[i] # Uncounted

(* validateStockInventory reads the inventory and its lines without a lock. *)
ReadInventory(s) ==
  LET r == req[s]
  IN /\ Opening(s, {"validate"})
     /\ Validatable(r.id)
     /\ Continue(s, [r EXCEPT !.stage = 1, !.todo = LinesOf(Difference(r.id))])

CommitValidation(s) ==
  LET r == req[s]
  IN /\ Ready(s, "validate")
     /\ inventory' = [inventory EXCEPT ![r.id].state = "VALIDATED"]
     /\ adjusted' = [adjusted EXCEPT ![r.id] = [i \in Items |-> @[i] + r.change[i]]]
     /\ StoreMovements(s) /\ Ends(s)
     /\ UNCHANGED <<purchase, payment>>

-----------------------------------------------------------------------------
Begin(s, request) ==
  /\ request.op \in Endpoints /\ req[s] = Idle
  /\ req' = [req EXCEPT ![s] = request]
  /\ UNCHANGED rows

Quantities == [Items -> 0..MaxLine]
SomeQuantities == {q \in Quantities : q # NoChange}
Lines == [item: Items, change: 1..MaxLine]
Documents == UNION {[1..n -> Lines] : n \in 1..MaxLines}
Signed(lines, sign) == [n \in DOMAIN lines |-> [lines[n] EXCEPT !.change = sign * @]]

StockRequest(s) ==
  \/ \E lines \in Documents : Begin(s, [Idle EXCEPT !.op = "entry", !.todo = lines])
  \/ \E lines \in Documents : Begin(s, [Idle EXCEPT !.op = "exit", !.todo = Signed(lines, -1)])
  \/ \E lines \in Documents, sign \in {1, -1} :
       /\ sign = 1 => Len(lines) = 1
       /\ Begin(s, [Idle EXCEPT !.op = "movement", !.stage = 1, !.todo = Signed(lines, sign)])

(* The client names each line of a purchase once.                           *)
PurchaseRequest(s) ==
  \/ \E p \in Purchases, q \in SomeQuantities, reception \in {"PENDING", "RECEIVED"},
        m \in SupplierPayments, a \in 0..MaxLine * Cardinality(Items) :
       /\ purchase[p].state = "none" /\ a \in 0..Total(q)
       /\ Begin(s, [Idle EXCEPT !.op = "purchase", !.id = p, !.amount = a, !.by = m,
                                !.row = [NoPurchase EXCEPT !.ordered = q, !.reception = reception]])
  \/ \E p \in Purchases, q \in SomeQuantities :
       /\ purchase[p].state # "none"
       /\ Begin(s, [Idle EXCEPT !.op = "receive", !.id = p, !.todo = LinesOf(q)])
  \/ \E p \in Purchases, m \in SupplierPayments, a \in 1..MaxLine :
       /\ purchase[p].state # "none" /\ payment[m].state = "none"
       /\ Begin(s, [Idle EXCEPT !.op = "pay", !.id = p, !.by = m, !.amount = a])
  \/ \E m \in SupplierPayments :
       payment[m].state # "none" /\ Begin(s, [Idle EXCEPT !.op = "trash", !.by = m])

InventoryRequest(s) ==
  \E v \in Inventories :
    inventory[v].state # "none" /\ Begin(s, [Idle EXCEPT !.op = "validate", !.id = v])

(* A refusal, a deadlock, a lost connection: ROLLBACK.                      *)
Rollback(s) == req[s] # Idle /\ Ends(s) /\ UNCHANGED rows

Step(s) ==
  \/ OpenDocument(s) \/ CommitDocument(s) \/ Move(s)
  \/ OpenPurchase(s) \/ CommitPurchase(s) \/ OpenReceipt(s) \/ NumberReceipt(s) \/ CommitReceipt(s)
  \/ LockPurchase(s) \/ CommitPayment(s) \/ SumOthers(s) \/ CommitTrash(s)
  \/ ReadInventory(s) \/ CommitValidation(s)

Next ==
  \/ \E s \in Sessions :
       StockRequest(s) \/ PurchaseRequest(s) \/ InventoryRequest(s) \/ Step(s) \/ Rollback(s)
  \/ \E i \in Items : EditItem(i) \/ DeleteItem(i) \/ \E q \in 0..MaxLine : CreateItem(i, q)
  \/ \E v \in Inventories : CreateInventory(v) \/ CountInventory(v)

Spec == Init /\ [][Next]_vars

=============================================================================

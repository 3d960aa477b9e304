----------------------------- MODULE MCOperations -----------------------------
(* Small instances of Leases, BillingChain and Stock for TLC.               *)
EXTENDS Leases, StockBooks, BillingBooks, TLC

(* What the clients do in a behaviour is chosen with its initial state.  Of *)
(* the leases:                                                              *)
(*   "letting"     two units and the building, activated and terminated;    *)
(*   "editing"     one unit and the building, edited and deleted;           *)
(*   "keys"        one unit, let by two at once;                            *)
(*   "billing"     the billing periods of one lease, over a real calendar;  *)
(* of the stock:                                                            *)
(*   "store"       articles and movements, two at once;                     *)
(*   "supplies"    purchases and receipts, two at once;                     *)
(*   "dues"        the same with payments, of articles in stock;             *)
(*   "orders"      articles deleted, and ordered, one at a time;            *)
(*   "count"       an inventory and movements, two at once.                 *)
VARIABLES scene, sReq

CONSTANT Scenes

(* The tables of the stock, with their properties, and the requests.        *)
S == INSTANCE Stock WITH
       req <- sReq, MaxLine <- 1, MaxLines <- 2,
       Endpoints <- {"create", "edit", "delete", "movement", "entry", "exit", "purchase", "receive",
                     "pay", "trash", "inventory", "count", "validate"}

(* November 2027 to December 2028, a leap February among them; the leases   *)
(* start on any day of the first four months: the end of a 30-day, of a     *)
(* 31-day and of the leap month, and the turn of the year.                  *)
Calendar == <<30, 31, 31, 29, 31, 30, 31, 30, 31, 31, 30, 31, 30, 31>>
Charges  == [rent |-> 200001, syndic |-> 15000]

Chain == INSTANCE BillingChain WITH LeaseStarts <- 1..121, Frequencies <- {1, 3, 4}

chain == <<start, period, opening, first, billedDays, billed>>
stock == <<item, moved, purchase, payment, inventory, adjusted, sReq>>

LeaseOps ==
  [letting |-> {"create", "activate", "terminate", "trash", "restore", "archive"},
   editing |-> {"create", "edit", "delete", "purge"},
   keys    |-> {"create", "activate", "terminate"}]

Only == CHOOSE u \in Units : TRUE
Terms == {<<1, 3>>, <<2, 2>>} \cup {<<1, 1>> : s \in {"letting"} \cap {scene}}
LeaseAllowed(r) ==
  /\ r.op \in LeaseOps[scene]
  /\ (r.op = "create" /\ r.stage = 0) =>
       /\ <<r.row.start, r.row.end>> \in Terms
       /\ scene = "keys" => r.row.unit = Only /\ r.row.start = 1
  /\ (scene # "letting" /\ r.op \in {"create", "edit"}) => r.row.unit \in {Only, Whole}

Letting == {s \in Sessions : req'[s].op # "none"}
LeaseNext ==
  /\ Next
  /\ scene # "keys" => Cardinality(Letting) <= 1
  /\ \A s \in Letting : LeaseAllowed(req'[s])

StockOps ==
  [store    |-> {"entry", "exit"},
   supplies |-> {"purchase", "receive"},
   dues     |-> {"purchase", "receive", "pay", "trash"},
   orders   |-> {"purchase", "receive", "entry"},
   count    |-> {"movement", "validate"}]

Moving == {s \in Sessions : sReq'[s].op # "none"}
StockAllowed(r) ==
  /\ r.op \in StockOps[scene]
  /\ scene = "supplies" => r.amount = 0
  /\ (scene # "store" \/ r.op = "entry") => Len(r.todo) <= 1

(* A payment that is put in the trash while another is made of the same     *)
(* purchase loses it, and an inventory that is validated or counted twice   *)
(* at once is applied twice.                                                *)
Apart(r, t) ==
  /\ r.op = "trash" => t.op # "pay" /\ t.op # "trash"
  /\ r.op = "validate" => t.op # "validate"

Validating == \E s \in Sessions : sReq[s].op = "validate"
StockNext ==
  /\ scene # "count" => UNCHANGED inventory
  /\ S!Next
  /\ scene = "orders" => Cardinality(Moving) <= 1
  /\ \A s \in Moving : StockAllowed(sReq'[s])
  /\ \A s, t \in Moving : s # t => Apart(sReq'[s], sReq'[t])
  /\ inventory' # inventory /\ Validating => sReq' # sReq
  /\ (scene # "store" /\ sReq' = sReq /\ item' # item) =>
       \E i \in Items :
         IF item[i].state = "none" THEN item'[i].quantity = IF scene \in {"count", "dues"} THEN 1 ELSE 0
         ELSE scene = "orders" /\ item'[i].state = "none"
  /\ \A i \in Items \ {1} : scene = "count" => item'[i].state = "none"
  /\ (scene = "store" /\ sReq' = sReq) =>
       \A i \in Items \ {1} : item'[i] # item[i] => item[i].state = "none"

MCInit ==
  /\ Init /\ S!Init /\ scene \in Scenes
  /\ Chain!Init /\ (scene # "billing" => start = 1 /\ opening = 1)
MCNext ==
  /\ UNCHANGED scene
  /\ \/ scene \in DOMAIN LeaseOps /\ LeaseNext /\ UNCHANGED <<stock, chain>>
     \/ scene \in DOMAIN StockOps /\ StockNext /\ UNCHANGED <<vars, chain>>
     \/ scene = "billing" /\ Chain!Next /\ UNCHANGED <<vars, stock>>
MCSpec == MCInit /\ [][MCNext]_<<vars, stock, chain, scene>>

Symmetry == Permutations(Sessions)

Storing == scene \in DOMAIN StockOps

(* Leases, articles, purchases and requests keep their types: stock and     *)
(* days stay within their bounds.                                           *)
TypesOK == TypeOK /\ (Storing => S!TypeOK)

(* A unit and its whole building are never let together, where two requests *)
(* are not served at once; units are occupied while a lease in force covers *)
(* them, where no edit or deletion leaves them behind.                      *)
BuildingFollows ==
  /\ scene # "keys" => NoConflict
  /\ scene = "letting" => OccupiedIffLet
=============================================================================

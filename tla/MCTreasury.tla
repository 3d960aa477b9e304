------------------------------ MODULE MCTreasury ------------------------------
(* Small instances of Treasury and Guarantee for TLC.                       *)
EXTENDS Treasury, GuaranteeBooks, TLC

CONSTANTS A1, A2, T2
VARIABLE gReq

G == INSTANCE Guarantee WITH req <- gReq, Endpoints <- {"pay", "refund", "trash", "restore"}

(* What the clients do in a behaviour is chosen with its initial state, so  *)
(* that one run explores several mixes of requests: the first has every     *)
(* endpoint of the treasury and one request at a time, the next three two   *)
(* requests at once; the others are about the guarantee of a lease.         *)
VARIABLE scene

Scenes ==
  {"alone", "desk", "wires", "payouts",
   "guarantee alone", "guarantee paid", "guarantee refunded", "guarantee trashed"}

OpsOf(sc) ==
  CASE sc = "alone"   -> AllEndpoints
    [] sc = "desk"    -> EntryKinds \cup {"close", "bookTrash", "transfer"}
    [] sc = "wires"   -> {"transfer", "expense"}
    [] sc = "payouts" -> {"payout", "payoutTrash", "bookTrash", "transfer"}
    [] OTHER          -> {}

GuaranteeOpsOf(sc) ==
  CASE sc = "guarantee paid"     -> {"pay"}
    [] sc = "guarantee refunded" -> {"refund"}
    [] sc = "guarantee trashed"  -> {"trash", "restore"}
    [] OTHER                     -> {}

Open(rq) == {s \in Sessions : rq[s].op # "none"}

Allowed(sc, r) ==
  /\ r.op \in OpsOf(sc)
  /\ r.key = T2 => sc = "wires"
  /\ sc = "desk" /\ r.op = "bookTrash" => book[r.id].kind # "payment"

TreasuryNext ==
  /\ Next
  /\ \A s \in Open(req') : Allowed(scene, req'[s])
  /\ scene = "alone" => Cardinality(Open(req')) <= 1
  /\ account' # account => scene \in {"alone", "wires"} \/ transferred' # transferred

(* Two at once only once the rows are there; no trash beside a bank refund, *)
(* nor of the receipt that a refund gives back.                             *)
GuaranteeNext ==
  /\ G!Next
  /\ Cardinality(Open(gReq')) > 1 => \A s \in Open(gReq') : gReq'[s].op \in GuaranteeOpsOf(scene)
  /\ \A s \in Open(gReq') : gReq'[s].op \in {"trash", "restore"} => \A f \in Refunds : row[f].way = "cash"
  /\ \A p \in Receipts :
       (row[p].state = "live" /\ row'[p].state = "trashed")
         => (Total(Receipts, row) >= Total(Refunds, row))'

MCInit == Init /\ G!Init /\ scene \in Scenes
MCNext ==
  \/ OpsOf(scene) # {} /\ TreasuryNext /\ UNCHANGED <<paid, status, row, gReq, scene>>
  \/ OpsOf(scene) = {} /\ GuaranteeNext /\ UNCHANGED <<vars, scene>>
MCSpec == MCInit /\ [][MCNext]_<<vars, paid, status, row, gReq, scene>>

Symmetry == Permutations(Sessions) \cup Permutations(Holders)

SomeTransfers ==
  {[from |-> CASH, to |-> A1, amount |-> 1], [from |-> A1, to |-> CASH, amount |-> 1],
   [from |-> A1, to |-> A2, amount |-> 1]}
=============================================================================

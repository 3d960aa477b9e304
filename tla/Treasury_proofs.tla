---------------------------- MODULE Treasury_proofs ----------------------------
(***************************************************************************)
(* Proofs about Treasury, for any requests, desks, accounts and bounds: its *)
(* type invariant, that payouts and their movements agree, and that         *)
(* transfers neither make nor lose money nor take more than there is.  And  *)
(* about Guarantee: that the amount paid follows the receipts and refunds.  *)
(***************************************************************************)
EXTENDS Treasury, GuaranteeBooks, Sums

-----------------------------------------------------------------------------
(* The rows of the cash book.                                               *)

LEMMA LineShape ==
  ASSUME NEW l \in Lines
  PROVE  l[2] \in PayoutKeys /\ l[3] \in Holders /\ l = <<"line", l[2], l[3]>>
BY DEF Lines

LEMMA LineIn == \A k \in PayoutKeys, h \in Holders : <<"line", k, h>> \in Lines
BY DEF Lines

LEMMA LegIn == \A k \in TransferKeys : <<"leg", k>> \in Legs
BY DEF Legs

LEMMA LegShape == ASSUME NEW l \in Legs PROVE \E k \in TransferKeys : l = <<"leg", k>>
BY DEF Legs

LEMMA KindsApart ==
  /\ Notes \cap Lines = {} /\ Notes \cap Legs = {} /\ Lines \cap Legs = {}
  /\ Notes \subseteq Books /\ Lines \subseteq Books /\ Legs \subseteq Books
<1>1. \A m \in Notes : m[1] = "entry"  BY DEF Notes
<1>2. \A m \in Legs : m[1] = "leg"  BY DEF Legs
<1>3. \A m \in Lines : m[1] = "line"  BY DEF Lines
<1> QED  BY <1>1, <1>2, <1>3 DEF Books

LEMMA IdleType == Idle \in Requests
BY BoundsAssumption DEF Idle, Requests

-----------------------------------------------------------------------------
(* Type correctness.                                                        *)

LEMMA DeskBalanceType ==
  ASSUME TypeOK, NEW d \in Desks PROVE DeskBalance(d) \in Int
<1> DEFINE f == [m \in Books |-> book[m].amount]
           S == MovementsOf(d)
<1>1. IsFiniteSet(S)  BY FiniteAssumption, FS_Subset DEF MovementsOf
<1>2. \A m \in S : f[m] \in Int  BY BoundsAssumption DEF TypeOK, BookRows, MovementsOf
<1>3. desk[d].opening \in Int  BY DEF TypeOK, DeskRows
<1>4. SumFunctionOnSet(f, S) \in Int
  <2> HIDE DEF f, S
  <2> QED  BY <1>1, <1>2, SumType
<1> QED  BY <1>3, <1>4 DEF DeskBalance

LEMMA BalanceType ==
  ASSUME TypeOK, NEW x \in Registers
  PROVE  Balance(x) \in Int
<1>1. CASE x = CASH
  <2> DEFINE f == [d \in Desks |-> DeskBalance(d)]
  <2>1. IsFiniteSet(OpenDesks)  BY FiniteAssumption, FS_Subset DEF OpenDesks
  <2>2. \A d \in OpenDesks : f[d] \in Int  BY DeskBalanceType DEF OpenDesks
  <2>3. SumFunctionOnSet(f, OpenDesks) \in Int
    <3> HIDE DEF f
    <3> QED  BY <2>1, <2>2, SumType
  <2> QED  BY <1>1, <2>3 DEF Balance
<1>2. CASE x # CASH
  <2>1. x \in Accounts  BY <1>2 DEF Registers
  <2>2. account[x].transfers \in Int /\ account[x].others \in Int  BY <2>1 DEF TypeOK, AccountRows
  <2> QED  BY <1>2, <2>2 DEF Balance, AccountBalance
<1> QED  BY <1>1, <1>2

LEMMA LockingType ==
  ASSUME TypeOK, NEW r \in Requests, r.stage < 3,
         r.op = "transfer" => r.key \in TransferKeys /\ Asked(r) \in Transfers,
         r.op = "payout" => r.key \in PayoutKeys,
         r.op = "payoutTrash" => r.id \in Lines,
         r.op = "bookTrash" => r.id \in Books
  PROVE  Locking(r) \in SUBSET RowLocks
<1>1. CASE r.op = "transfer"
  <2>1. \A x \in Registers : RowOf(x) \subseteq RowLocks
    BY DEF RowOf, RowLocks, Registers, OpenDesks
  <2>2. Asked(r).from \in Registers /\ Asked(r).to \in Registers  BY <1>1, TransfersAssumption
  <2>3. <<"key", r.key>> \in RowLocks /\ <<"number", 0>> \in RowLocks  BY <1>1 DEF RowLocks
  <2> QED  BY <1>1, <2>1, <2>2, <2>3 DEF Locking, TransferRows
<1>2. CASE r.op = "payout"  BY <1>2 DEF Locking, RowLocks
<1>3. \A l \in Lines : PayoutRows(l) \subseteq RowLocks  BY LineShape DEF PayoutRows, RowLocks
<1>4. \A m \in Books : <<"movement", m>> \in RowLocks  BY DEF RowLocks
<1>5. Lines \subseteq Books  BY KindsApart
<1>6. CASE r.op = "payoutTrash"  BY <1>3, <1>4, <1>5, <1>6 DEF Locking
<1>7. CASE r.op = "bookTrash"  BY <1>3, <1>4, <1>7 DEF Locking
<1>8. CASE r.op \notin {"transfer", "payout", "payoutTrash", "bookTrash"}  BY <1>8 DEF Locking
<1> QED  BY <1>1, <1>2, <1>6, <1>7, <1>8

-----------------------------------------------------------------------------
(* The inductive invariant.                                                 *)

(* No row is locked twice.                                                  *)
Exclusion == \A s, t \in Sessions : s # t => req[s].held \cap req[t].held = {}

(* A request that has looked its key up holds the key, so that what it did  *)
(* not find is still not there.                                             *)
TransferOK(r) ==
  r.op = "transfer" =>
    /\ r.key \in TransferKeys /\ \E t \in Transfers : r.transfer = {t}
    /\ r.stage >= 1 => <<"key", r.key>> \in r.held
    /\ r.stage >= 2 => r.key \notin transferred

PayoutOK(r) ==
  r.op = "payout" =>
    /\ r.key \in PayoutKeys /\ r.shares # {}
    /\ r.stage >= 1 => <<"key", r.key>> \in r.held
    /\ r.stage >= 2 => batch[r.key].state = "none" /\ r.target \in Desks

MovementOK(r) ==
  /\ r.op \in EntryKinds => r.id \in Notes
  /\ r.op = "bookTrash" => r.id \in Books
  /\ r.op = "payoutTrash" => r.id \in Lines

(* The removal of a line of a payout is a stage ahead when it does not      *)
(* start from the cash book.                                                *)
Lead(r) == IF r.op = "payoutTrash" THEN r.stage + 1 ELSE r.stage

(* Such a removal holds the line and its batch from the moment it finds the *)
(* line live, so that the line stays live and the batch keeps its lines.    *)
RemovalOK(r) ==
  (r.op \in {"payoutTrash", "bookTrash"} /\ r.id \in Lines) =>
    /\ line[r.id] # "none"
    /\ Lead(r) >= 2 => PayoutRows(r.id) \subseteq r.held
    /\ Lead(r) >= 3 => line[r.id] = "live"
    /\ r.stage >= 3 => r.counted = LiveLines(r.id[2]) \ {r.id[3]}

RequestOK(r) == TransferOK(r) /\ PayoutOK(r) /\ MovementOK(r) /\ RemovalOK(r)

(* The movements that transfers and payouts made, and nobody else.          *)
RowsOK ==
  /\ \A k \in TransferKeys :
       /\ k \notin transferred => book[<<"leg", k>>].state = "none"
       /\ book[<<"leg", k>>].state # "none" =>
            book[<<"leg", k>>].state = "live" /\ book[<<"leg", k>>].kind = "transfer"
  /\ \A l \in Lines : line[l] # "none" => batch[l[2]].state # "none"

IInv ==
  /\ TypeOK /\ Exclusion /\ RowsOK /\ PayoutIsItsMovements
  /\ \A s \in Sessions : RequestOK(req[s])

-----------------------------------------------------------------------------
(* Steps that change one request and nothing else.                          *)

LEMMA OneRequest ==
  ASSUME IInv, NEW s \in Sessions, NEW n \in Requests, RequestOK(n),
         \A t \in Sessions \ {s} : n.held \cap req[t].held = {},
         req' = [req EXCEPT ![s] = n],
         UNCHANGED <<desk, book, account, transferred, batch, line>>
  PROVE  IInv'
<1>1. \A t \in Sessions : req'[t] = IF t = s THEN n ELSE req[t]
  BY DEF IInv, TypeOK
<1>2. TypeOK'  BY DEF IInv, TypeOK
<1>3. Exclusion'  BY <1>1 DEF IInv, Exclusion
<1>4. RowsOK'  BY DEF IInv, RowsOK
<1>5. PayoutIsItsMovements'
  BY DEF IInv, PayoutIsItsMovements, BatchIsItsLines, LinesFollowCash, LiveLines
<1>6. ASSUME NEW t \in Sessions PROVE RequestOK(req[t])'
  <2>1. RequestOK(req'[t])  BY <1>1 DEF IInv
  <2> QED  BY <2>1 DEF RequestOK, TransferOK, PayoutOK, MovementOK, RemovalOK, LiveLines
<1> QED  BY <1>2, <1>3, <1>4, <1>5, <1>6 DEF IInv

LEMMA BackToIdle ==
  ASSUME IInv, NEW s \in Sessions, req' = [req EXCEPT ![s] = Idle],
         UNCHANGED <<desk, book, account, transferred, batch, line>>
  PROVE  IInv'
<1>1. RequestOK(Idle)
  BY DEF Idle, RequestOK, TransferOK, PayoutOK, MovementOK, RemovalOK, EntryKinds
<1>2. Idle.held = {}  BY DEF Idle
<1> QED  BY <1>1, <1>2, IdleType, OneRequest

(* What is locked now was held by nobody.                                   *)
LEMMA Granted ==
  ASSUME IInv, NEW s \in Sessions, Blockers(s) = {}
  PROVE  \A t \in Sessions \ {s} :
           (req[s].held \cup Locking(req[s])) \cap req[t].held = {}
BY DEF Blockers, Wanted, IInv, Exclusion

(* A request that goes on, with what it has locked and read.                *)
LEMMA GoesOn ==
  ASSUME IInv, NEW s \in Sessions, Blockers(s) = {}, req[s].stage < 3,
         NEW n \in Requests, n.held \subseteq req[s].held \cup Locking(req[s]),
         RequestOK([n EXCEPT !.stage = @ + 1]), n.stage = req[s].stage,
         Advance(s, n)
  PROVE  IInv'
<1> DEFINE m == [n EXCEPT !.stage = @ + 1]
<1>1. m \in Requests /\ m.held = n.held
  <2>1. req[s].stage \in 0..4  BY DEF IInv, TypeOK, Requests
  <2> QED  BY <2>1 DEF Requests
<1>2. \A t \in Sessions \ {s} : m.held \cap req[t].held = {}
  BY <1>1, Granted
<1>3. RequestOK(m) /\ req' = [req EXCEPT ![s] = m]  BY DEF Advance
<1>4. UNCHANGED <<desk, book, account, transferred, batch, line>>  BY DEF Advance
<1> HIDE DEF m
<1> QED  BY <1>1, <1>2, <1>3, <1>4, OneRequest

(* What the transaction of a request may assume.                            *)
LEMMA Requested ==
  ASSUME IInv, NEW s \in Sessions
  PROVE  /\ req[s] \in Requests /\ RequestOK(req[s])
         /\ req[s].stage < 3 => Locking(req[s]) \subseteq RowLocks
<1>1. req[s] \in Requests /\ RequestOK(req[s])  BY DEF IInv, TypeOK
<1>2. ASSUME req[s].stage < 3 PROVE Locking(req[s]) \in SUBSET RowLocks
  <2>1. req[s].op = "transfer" => req[s].key \in TransferKeys /\ Asked(req[s]) \in Transfers
    BY <1>1 DEF RequestOK, TransferOK, Asked
  <2> QED  BY <1>1, <1>2, <2>1, LockingType DEF RequestOK, PayoutOK, MovementOK, IInv
<1> QED  BY <1>1, <1>2 DEF Requests

-----------------------------------------------------------------------------
(* The steps of a request before its last.                                  *)

LEMMA AcquireKeeps ==
  ASSUME IInv, NEW s \in Sessions, Acquire(s) PROVE IInv'
<1> DEFINE r == req[s]
           locked == [r EXCEPT !.held = @ \cup Locking(r)]
<1>0. r \in Requests /\ RequestOK(r) /\ (r.stage < 3 => Locking(r) \subseteq RowLocks)
  BY Requested
<1>1. r.stage < 3 => locked \in Requests  BY <1>0 DEF Requests
<1>2. \A e \in EntryKinds : e \notin {"transfer", "payout", "payoutTrash", "bookTrash"}
  BY DEF EntryKinds
<1>3. ASSUME NEW stage \in 0..2, Runs(s, "transfer", stage),
             NEW n \in Requests, n = locked \/ \E v \in Int : n = [locked EXCEPT !.seen = v],
             Advance(s, n)
      PROVE  IInv'
  <2>1. r.op = "transfer" /\ r.stage = stage /\ Blockers(s) = {} /\ ~Answered(r)
    BY <1>3 DEF Runs, Refused
  <2>2. n.op = r.op /\ n.stage = r.stage /\ n.key = r.key /\ n.transfer = r.transfer
        /\ n.held = r.held \cup Locking(r)
    BY <1>0, <1>3 DEF Requests
  <2>3. r.stage = 0 => <<"key", r.key>> \in Locking(r)
    BY <2>1 DEF Locking, TransferRows
  <2>4. r.stage = 1 => r.key \notin transferred  BY <2>1 DEF Answered
  <2> DEFINE m == [n EXCEPT !.stage = @ + 1]
  <2>5. m.op = "transfer" /\ m.stage = r.stage + 1 /\ m.key = r.key
        /\ m.transfer = r.transfer /\ m.held = r.held \cup Locking(r)
    BY <2>1, <2>2 DEF Requests
  <2>6. TransferOK(m)
    BY <1>0, <2>1, <2>3, <2>4, <2>5 DEF RequestOK, TransferOK
  <2>7. RequestOK(m)
    BY <1>2, <2>5, <2>6 DEF RequestOK, PayoutOK, MovementOK, RemovalOK
  <2> HIDE DEF m, locked
  <2>8. RequestOK([n EXCEPT !.stage = @ + 1])  BY <2>7 DEF m
  <2>9. Advance(s, n) /\ n \in Requests  BY <1>3
  <2>10. req[s].stage < 3 /\ n.stage = req[s].stage /\ n.held \subseteq req[s].held \cup Locking(req[s])
    BY <2>1, <2>2
  <2> QED  BY <2>1, <2>8, <2>9, <2>10, GoesOn
<1>4. ASSUME NEW stage \in 0..2, Runs(s, "transfer", stage),
             Advance(s, IF stage = 1 THEN [locked EXCEPT !.seen = Balance(Asked(r).from)]
                        ELSE locked)
      PROVE  IInv'
  <2>1. r.op = "transfer" /\ r.stage = stage  BY <1>4 DEF Runs
  <2>2. Asked(r).from \in Registers
    BY <1>0, <2>1, TransfersAssumption DEF RequestOK, TransferOK, Asked
  <2>3. Balance(Asked(r).from) \in Int  BY <2>2, BalanceType DEF IInv
  <2>4. locked \in Requests  BY <1>1, <2>1
  <2>5. [locked EXCEPT !.seen = Balance(Asked(r).from)] \in Requests
    BY <2>3, <2>4 DEF Requests
  <2> HIDE DEF locked
  <2> QED  BY <1>3, <1>4, <2>3, <2>4, <2>5
<1>5. ASSUME Runs(s, "payout", 0), Advance(s, locked) PROVE IInv'
  <2>1. r.op = "payout" /\ r.stage = 0 /\ Blockers(s) = {}  BY <1>5 DEF Runs
  <2>2. <<"key", r.key>> \in Locking(r)  BY <2>1 DEF Locking
  <2> DEFINE m == [locked EXCEPT !.stage = @ + 1]
  <2>3. m.op = "payout" /\ m.stage = 1 /\ m.key = r.key /\ m.shares = r.shares
        /\ m.held = r.held \cup Locking(r)
    BY <1>0, <2>1 DEF Requests
  <2>4. RequestOK(m)
    BY <1>0, <1>2, <2>1, <2>2, <2>3 DEF RequestOK, TransferOK, PayoutOK, MovementOK, RemovalOK
  <2>5. locked.held = r.held \cup Locking(r) /\ locked.stage = r.stage  BY <1>0 DEF Requests
  <2> HIDE DEF locked
  <2> QED  BY <1>1, <1>5, <2>1, <2>4, <2>5, GoesOn
<1>6. ASSUME NEW stage \in 0..1, NEW op \in {"payoutTrash", "bookTrash"}, Runs(s, op, stage),
             op = "bookTrash" /\ stage = 1 => r.id \in Lines, Advance(s, locked)
      PROVE  IInv'
  <2>1. r.op = op /\ r.stage = stage /\ Blockers(s) = {} /\ ~NothingToRemove(r)
    BY <1>6 DEF Runs, Refused
  <2>2. r.id \in Lines /\ Lead(r) = 1 => PayoutRows(r.id) \subseteq Locking(r)
    BY <2>1 DEF Locking, Lead
  <2>3. r.id \in Lines /\ Lead(r) = 2 => line[r.id] = "live"
    BY <2>1 DEF NothingToRemove, Lead
  <2> DEFINE m == [locked EXCEPT !.stage = @ + 1]
  <2>4. m.op = r.op /\ m.stage = r.stage + 1 /\ m.id = r.id
        /\ m.held = r.held \cup Locking(r)
    BY <1>0, <2>1 DEF Requests
  <2>5. RemovalOK(m)
    BY <1>0, <2>1, <2>2, <2>3, <2>4 DEF RequestOK, RemovalOK, Lead
  <2>6. RequestOK(m)
    BY <1>0, <1>2, <2>1, <2>4, <2>5 DEF RequestOK, TransferOK, PayoutOK, MovementOK
  <2>7. locked.held = r.held \cup Locking(r) /\ locked.stage = r.stage  BY <1>0 DEF Requests
  <2> HIDE DEF locked
  <2> QED  BY <1>1, <1>6, <2>1, <2>6, <2>7, GoesOn
<1> HIDE DEF locked
<1>7. \/ \E stage \in 0..2 :
           /\ Runs(s, "transfer", stage)
           /\ Advance(s, IF stage = 1 THEN [locked EXCEPT !.seen = Balance(Asked(r).from)]
                         ELSE locked)
      \/ Runs(s, "payout", 0) /\ Advance(s, locked)
      \/ \E stage \in 0..1 : Runs(s, "payoutTrash", stage) /\ Advance(s, locked)
      \/ \E stage \in 0..1 :
           /\ Runs(s, "bookTrash", stage)
           /\ stage = 1 => r.id \in Lines
           /\ Advance(s, locked)
  BY DEF Acquire, locked
<1> QED  BY <1>4, <1>5, <1>6, <1>7

LEMMA FindDeskKeeps ==
  ASSUME IInv, NEW s \in Sessions, FindDesk(s) PROVE IInv'
<1> DEFINE r == req[s]
<1>0. r \in Requests /\ RequestOK(r)  BY Requested
<1>1. PICK d \in OpenDesks : Advance(s, [r EXCEPT !.target = d])  BY DEF FindDesk
<1> DEFINE n == [r EXCEPT !.target = d]
           m == [n EXCEPT !.stage = @ + 1]
<1>2. d \in Desks  BY DEF OpenDesks
<1>3. n \in Requests /\ n.stage = r.stage /\ n.held = r.held  BY <1>0, <1>2 DEF Requests
<1>4. /\ \/ r.op \in EntryKinds \cup {"close"} /\ r.stage = 0
         \/ r.op = "payout" /\ r.stage = 1
      /\ Blockers(s) = {} /\ ~Answered(r)
  <2>1. CASE \E op \in EntryKinds \cup {"close"} : Runs(s, op, 0)  BY <2>1 DEF Runs, Refused
  <2>2. CASE Runs(s, "payout", 1)  BY <2>2 DEF Runs, Refused
  <2> QED  BY <2>1, <2>2 DEF FindDesk
<1>5. m.op = r.op /\ m.stage = r.stage + 1 /\ m.key = r.key /\ m.shares = r.shares
      /\ m.held = r.held /\ m.id = r.id /\ m.target = d
  BY <1>0, <1>4 DEF Requests
<1>6. RequestOK(m)
  BY <1>0, <1>2, <1>4, <1>5
  DEF RequestOK, TransferOK, PayoutOK, MovementOK, RemovalOK, EntryKinds, Answered
<1> HIDE DEF m
<1>7. RequestOK([n EXCEPT !.stage = @ + 1])  BY <1>6 DEF m
<1> HIDE DEF n
<1>8. Advance(s, n)  BY <1>1 DEF n
<1> QED  BY <1>3, <1>4, <1>7, <1>8, GoesOn

LEMMA SumDeskKeeps ==
  ASSUME IInv, NEW s \in Sessions, SumDesk(s) PROVE IInv'
<1> DEFINE r == req[s]
<1>0. r \in Requests /\ RequestOK(r)  BY Requested
<1>1. CASE Runs(s, "close", 1) /\ Advance(s, [r EXCEPT !.read = Content(r.target)])
  <2> DEFINE n == [r EXCEPT !.read = Content(r.target)]
             m == [n EXCEPT !.stage = @ + 1]
  <2>1. r.op = "close" /\ r.stage = 1 /\ Blockers(s) = {}  BY <1>1 DEF Runs
  <2>2. \A x \in MovementsOf(r.target) : <<x, book[x].amount>> \in Books \X Int
    BY BoundsAssumption DEF MovementsOf, IInv, TypeOK, BookRows
  <2>3. Content(r.target) \subseteq Books \X Int  BY <2>2 DEF Content
  <2>4. n \in Requests /\ n.stage = r.stage /\ n.held = r.held  BY <1>0, <2>3 DEF Requests
  <2>5. m.op = "close"  BY <1>0, <2>1 DEF Requests
  <2>6. RequestOK(m)
    BY <2>5 DEF RequestOK, TransferOK, PayoutOK, MovementOK, RemovalOK, EntryKinds
  <2> HIDE DEF m
  <2>7. RequestOK([n EXCEPT !.stage = @ + 1])  BY <2>6 DEF m
  <2>8. Advance(s, n)  BY <1>1
  <2> HIDE DEF n
  <2> QED  BY <2>1, <2>4, <2>7, <2>8, GoesOn
<1>2. CASE Runs(s, "payout", 2) /\ Advance(s, [r EXCEPT !.seen = DeskBalance(r.target)])
  <2> DEFINE n == [r EXCEPT !.seen = DeskBalance(r.target)]
             m == [n EXCEPT !.stage = @ + 1]
  <2>1. r.op = "payout" /\ r.stage = 2 /\ Blockers(s) = {}  BY <1>2 DEF Runs
  <2>2. r.target \in Desks  BY <1>0, <2>1 DEF RequestOK, PayoutOK
  <2>3. DeskBalance(r.target) \in Int  BY <2>2, DeskBalanceType DEF IInv
  <2>4. n \in Requests /\ n.stage = r.stage /\ n.held = r.held  BY <1>0, <2>3 DEF Requests
  <2>5. m.op = "payout" /\ m.stage = r.stage + 1 /\ m.key = r.key /\ m.shares = r.shares
        /\ m.held = r.held /\ m.target = r.target
    BY <1>0, <2>1 DEF Requests
  <2>6. RequestOK(m)
    BY <1>0, <2>1, <2>5 DEF RequestOK, TransferOK, PayoutOK, MovementOK, RemovalOK, EntryKinds
  <2> HIDE DEF m
  <2>7. RequestOK([n EXCEPT !.stage = @ + 1])  BY <2>6 DEF m
  <2>8. Advance(s, n)  BY <1>2
  <2> HIDE DEF n
  <2> QED  BY <2>1, <2>4, <2>7, <2>8, GoesOn
<1> QED  BY <1>1, <1>2 DEF SumDesk

LEMMA CountLinesKeeps ==
  ASSUME IInv, NEW s \in Sessions, CountLines(s) PROVE IInv'
<1> DEFINE r == req[s]
           n == [r EXCEPT !.counted = LiveLines(r.id[2]) \ {r.id[3]}]
           m == [n EXCEPT !.stage = @ + 1]
<1>0. r \in Requests /\ RequestOK(r)  BY Requested
<1>1. /\ r.op \in {"payoutTrash", "bookTrash"} /\ r.id \in Lines /\ r.stage = 2
      /\ Blockers(s) = {} /\ ~NothingToRemove(r)
  <2>1. CASE Runs(s, "payoutTrash", 2)
    BY <1>0, <2>1 DEF Runs, Refused, RequestOK, MovementOK
  <2>2. CASE r.id \in Lines /\ Runs(s, "bookTrash", 2)  BY <2>2 DEF Runs, Refused
  <2> QED  BY <2>1, <2>2 DEF CountLines
<1>2. n \in Requests /\ n.stage = r.stage /\ n.held = r.held
  BY <1>0 DEF Requests, LiveLines
<1>3. m.op = r.op /\ m.stage = r.stage + 1 /\ m.id = r.id /\ m.held = r.held
      /\ m.counted = LiveLines(r.id[2]) \ {r.id[3]}
  BY <1>0, <1>1 DEF Requests
<1>4. line[r.id] = "live" /\ PayoutRows(r.id) \subseteq r.held
  BY <1>0, <1>1 DEF RequestOK, RemovalOK, NothingToRemove, Lead
<1>5. RequestOK(m)
  BY <1>0, <1>1, <1>3, <1>4
  DEF RequestOK, TransferOK, PayoutOK, MovementOK, RemovalOK, EntryKinds
<1> HIDE DEF m
<1>6. RequestOK([n EXCEPT !.stage = @ + 1])  BY <1>5 DEF m
<1>7. Advance(s, n)  BY DEF CountLines
<1> HIDE DEF n
<1> QED  BY <1>1, <1>2, <1>6, <1>7, GoesOn

LEMMA BeginKeeps ==
  ASSUME IInv, NEW s \in Sessions, NEW n \in Requests, RequestOK(n), n.held = {}, Begin(s, n)
  PROVE  IInv'
<1>1. req' = [req EXCEPT ![s] = n]
      /\ UNCHANGED <<desk, book, account, transferred, batch, line>>
  BY DEF Begin
<1>2. \A t \in Sessions \ {s} : n.held \cap req[t].held = {}  OBVIOUS
<1> QED  BY <1>1, <1>2, OneRequest

LEMMA RequestKeeps ==
  ASSUME IInv, NEW s \in Sessions, Request(s) PROVE IInv'
<1> USE DEF RequestOK, TransferOK, PayoutOK, MovementOK, RemovalOK, EntryKinds
<1>1. CASE Begin(s, [Idle EXCEPT !.op = "close"])
  <2> DEFINE n == [Idle EXCEPT !.op = "close"]
  <2>1. n \in Requests /\ n.held = {} /\ RequestOK(n)
    BY IdleType DEF Idle, Requests, AllEndpoints
  <2> HIDE DEF n
  <2>2. Begin(s, n)  BY <1>1 DEF n
  <2> QED  BY <2>1, <2>2, BeginKeeps
<1>2. ASSUME NEW kind \in EntryKinds, NEW m \in Notes, NEW a \in Amounts,
             Begin(s, [Idle EXCEPT !.op = kind, !.id = m, !.amount = a])
      PROVE  IInv'
  <2> DEFINE n == [Idle EXCEPT !.op = kind, !.id = m, !.amount = a]
  <2>1. m \in Books /\ a \in 0..MaxAmount  BY KindsApart, BoundsAssumption DEF Amounts
  <2>2. n \in Requests /\ n.held = {} /\ RequestOK(n)
    BY <2>1, IdleType DEF Idle, Requests, AllEndpoints
  <2> HIDE DEF n
  <2>3. Begin(s, n)  BY <1>2 DEF n
  <2> QED  BY <2>2, <2>3, BeginKeeps
<1>3. ASSUME NEW m \in Books, book[m].state # "none",
             Begin(s, [Idle EXCEPT !.op = "bookTrash", !.id = m])
      PROVE  IInv'
  <2> DEFINE n == [Idle EXCEPT !.op = "bookTrash", !.id = m]
  <2>1. m \in Lines => line[m] # "none"
    BY <1>3 DEF IInv, PayoutIsItsMovements, LinesFollowCash
  <2>2. n \in Requests /\ n.held = {} /\ n.stage = 0 /\ n.op = "bookTrash" /\ n.id = m
    BY IdleType DEF Idle, Requests, AllEndpoints
  <2> HIDE DEF n
  <2>3. RequestOK(n)  BY <2>1, <2>2 DEF Lead
  <2>4. Begin(s, n)  BY <1>3 DEF n
  <2> QED  BY <2>2, <2>3, <2>4, BeginKeeps
<1>4. ASSUME NEW k \in TransferKeys, NEW t \in Transfers,
             Begin(s, [Idle EXCEPT !.op = "transfer", !.key = k, !.transfer = {t}])
      PROVE  IInv'
  <2> DEFINE n == [Idle EXCEPT !.op = "transfer", !.key = k, !.transfer = {t}]
  <2>1. {t} \in SUBSET Transfers  OBVIOUS
  <2>2. n \in Requests /\ n.held = {} /\ n.stage = 0 /\ n.op = "transfer" /\ n.key = k
        /\ n.transfer = {t}
    BY <2>1, IdleType DEF Idle, Requests, AllEndpoints
  <2> HIDE DEF n
  <2>3. RequestOK(n)  BY <2>2
  <2>4. Begin(s, n)  BY <1>4 DEF n
  <2> QED  BY <2>2, <2>3, <2>4, BeginKeeps
<1>5. ASSUME NEW k \in PayoutKeys, NEW shares \in (SUBSET Holders) \ {{}}, NEW a \in Amounts,
             Begin(s, [Idle EXCEPT !.op = "payout", !.key = k, !.shares = shares, !.amount = a])
      PROVE  IInv'
  <2> DEFINE n == [Idle EXCEPT !.op = "payout", !.key = k, !.shares = shares, !.amount = a]
  <2>1. a \in 0..MaxAmount /\ shares # {}  BY BoundsAssumption DEF Amounts
  <2>2. n \in Requests /\ n.held = {} /\ n.stage = 0 /\ n.op = "payout" /\ n.key = k
        /\ n.shares = shares
    BY <2>1, IdleType DEF Idle, Requests, AllEndpoints
  <2> HIDE DEF n
  <2>3. RequestOK(n)  BY <2>1, <2>2
  <2>4. Begin(s, n)  BY <1>5 DEF n
  <2> QED  BY <2>2, <2>3, <2>4, BeginKeeps
<1>6. ASSUME NEW l \in Lines, line[l] # "none",
             Begin(s, [Idle EXCEPT !.op = "payoutTrash", !.id = l])
      PROVE  IInv'
  <2> DEFINE n == [Idle EXCEPT !.op = "payoutTrash", !.id = l]
  <2>1. n \in Requests /\ n.held = {} /\ n.stage = 0 /\ n.op = "payoutTrash" /\ n.id = l
    BY KindsApart, IdleType DEF Idle, Requests, AllEndpoints
  <2> HIDE DEF n
  <2>2. RequestOK(n)  BY <1>6, <2>1 DEF Lead
  <2>3. Begin(s, n)  BY <1>6 DEF n
  <2> QED  BY <2>1, <2>2, <2>3, BeginKeeps
<1> QED  BY <1>1, <1>2, <1>3, <1>4, <1>5, <1>6 DEF Request

-----------------------------------------------------------------------------
(* The last step of a request, and what users do at once.                   *)

LEMMA AfterCommit ==
  ASSUME IInv, NEW s \in Sessions, req' = [req EXCEPT ![s] = Idle]
  PROVE  /\ req' \in [Sessions -> Requests] /\ Exclusion' /\ RequestOK(req[s])'
         /\ \A t \in Sessions \ {s} : req'[t] = req[t]
<1>1. \A t \in Sessions : req'[t] = IF t = s THEN Idle ELSE req[t]
  BY DEF IInv, TypeOK
<1>2. req' \in [Sessions -> Requests]  BY IdleType DEF IInv, TypeOK
<1>3. Idle.held = {} /\ Idle.op = "none"  BY DEF Idle
<1>4. Exclusion'  BY <1>1, <1>3 DEF IInv, Exclusion
<1>5. RequestOK(req[s])'
  BY <1>1, <1>3 DEF RequestOK, TransferOK, PayoutOK, MovementOK, RemovalOK, EntryKinds
<1> QED  BY <1>1, <1>2, <1>4, <1>5

(* What others may do to the rows while a request is at work.               *)
LEMMA OthersKeep ==
  ASSUME IInv, NEW t \in Sessions, req'[t] = req[t],
         \A k \in TransferKeys :
           <<"key", k>> \in req[t].held => (k \in transferred' <=> k \in transferred),
         \A k \in PayoutKeys :
           (<<"key", k>> \in req[t].held /\ batch[k].state = "none") => batch'[k].state = "none",
         \A l \in Lines : line[l] # "none" => line'[l] # "none",
         \A l \in Lines : (line[l] # "none" /\ PayoutRows(l) \subseteq req[t].held) =>
           \A h \in Holders : line'[<<"line", l[2], h>>] = line[<<"line", l[2], h>>]
  PROVE  RequestOK(req[t])'
<1> DEFINE r == req[t]
<1>0. r \in Requests /\ RequestOK(r)  BY Requested
<1>a. r.stage >= 2 => r.stage >= 1  BY <1>0 DEF Requests
<1>1. TransferOK(r)'  BY <1>0, <1>a DEF RequestOK, TransferOK
<1>2. PayoutOK(r)'  BY <1>0, <1>a DEF RequestOK, PayoutOK
<1>3. MovementOK(r)'  BY <1>0 DEF RequestOK, MovementOK
<1>4. RemovalOK(r)'
  <2> SUFFICES ASSUME r.op \in {"payoutTrash", "bookTrash"}, r.id \in Lines
               PROVE  /\ line'[r.id] # "none"
                      /\ Lead(r) >= 2 => PayoutRows(r.id) \subseteq r.held
                      /\ Lead(r) >= 3 => line'[r.id] = "live"
                      /\ r.stage >= 3 => r.counted = LiveLines(r.id[2])' \ {r.id[3]}
    BY DEF RemovalOK, Lead, PayoutRows
  <2>1. /\ line[r.id] # "none"
        /\ Lead(r) >= 2 => PayoutRows(r.id) \subseteq r.held
        /\ Lead(r) >= 3 => line[r.id] = "live"
        /\ r.stage >= 3 => r.counted = LiveLines(r.id[2]) \ {r.id[3]}
    BY <1>0 DEF RequestOK, RemovalOK
  <2>2. (Lead(r) >= 3 => Lead(r) >= 2) /\ (r.stage >= 3 => Lead(r) >= 2)
    BY <1>0 DEF Requests, Lead
  <2>3. Lead(r) >= 2 =>
          \A h \in Holders : line'[<<"line", r.id[2], h>>] = line[<<"line", r.id[2], h>>]
    BY <2>1
  <2>4. Lead(r) >= 2 => line'[r.id] = line[r.id]  BY <2>3, LineShape
  <2>5. Lead(r) >= 2 => LiveLines(r.id[2])' = LiveLines(r.id[2])  BY <2>3 DEF LiveLines
  <2> QED  BY <2>1, <2>2, <2>4, <2>5
<1> QED  BY <1>1, <1>2, <1>3, <1>4 DEF RequestOK

(* Steps that leave the payouts and the used keys alone.                    *)
LEMMA CashOnly ==
  ASSUME IInv, UNCHANGED <<transferred, batch, line>>, TypeOK', Exclusion',
         \A t \in Sessions : req'[t] = req[t] \/ RequestOK(req[t])',
         \A m \in Legs : book'[m] = book[m], \A m \in Lines : book'[m].state = book[m].state
  PROVE  IInv'
<1>1. ASSUME NEW t \in Sessions PROVE RequestOK(req[t])'
  BY <1>1, OthersKeep
<1>2. RowsOK'  BY LegIn DEF IInv, RowsOK
<1>3. PayoutIsItsMovements'
  BY DEF IInv, PayoutIsItsMovements, BatchIsItsLines, LinesFollowCash, LiveLines
<1> QED  BY <1>1, <1>2, <1>3 DEF IInv

LEMMA OpenCashKeeps ==
  ASSUME IInv, NEW d \in Desks, NEW opening \in Openings, OpenCash(d, opening) PROVE IInv'
<1>1. TypeOK'  BY BoundsAssumption DEF OpenCash, IInv, TypeOK, DeskRows
<1>2. Exclusion'  BY DEF OpenCash, IInv, Exclusion
<1> QED  BY <1>1, <1>2, CashOnly DEF OpenCash

LEMMA CloseCashKeeps ==
  ASSUME IInv, NEW s \in Sessions, CloseCash(s) PROVE IInv'
<1> DEFINE d == req[s].target
<1>1. req' = [req EXCEPT ![s] = Idle] /\ UNCHANGED <<book, account, transferred, batch, line>>
      /\ desk' = [desk EXCEPT ![d] = [@ EXCEPT !.state = "closed", !.counted = req[s].read]]
  BY DEF CloseCash, Commits
<1>2. req' \in [Sessions -> Requests] /\ Exclusion' /\ RequestOK(req[s])'
      /\ \A t \in Sessions \ {s} : req'[t] = req[t]
  BY <1>1, AfterCommit
<1>3. req[s].read \in SUBSET (Books \X Int)  BY DEF IInv, TypeOK, Requests
<1>4. desk' \in [Desks -> DeskRows]
  <2>1. desk \in [Desks -> DeskRows]  BY DEF IInv, TypeOK
  <2>2. \A e \in Desks : [desk[e] EXCEPT !.state = "closed", !.counted = req[s].read] \in DeskRows
    BY <1>3, <2>1 DEF DeskRows
  <2> QED  BY <1>1, <2>1, <2>2
<1>5. TypeOK'  BY <1>1, <1>2, <1>4 DEF IInv, TypeOK
<1> QED  BY <1>1, <1>2, <1>5, CashOnly

LEMMA EntryApart ==
  ASSUME IInv, NEW m \in Notes, NEW written \in BookRows, book' = [book EXCEPT ![m] = written]
  PROVE  /\ book' \in [Books -> BookRows]
         /\ \A n \in Legs \cup Lines : book'[n] = book[n]
<1>1. m \in Books /\ m \notin Legs \cup Lines /\ Legs \cup Lines \subseteq Books  BY KindsApart
<1>2. book \in [Books -> BookRows]  BY DEF IInv, TypeOK
<1> QED  BY <1>1, <1>2

LEMMA RecordMovementKeeps ==
  ASSUME IInv, NEW s \in Sessions, RecordMovement(s) PROVE IInv'
<1> DEFINE r == req[s]
           signed == IF r.op = "expense" THEN -r.amount ELSE r.amount
           written == NewRow(r.target, r.op, signed)
<1>1. req' = [req EXCEPT ![s] = Idle] /\ UNCHANGED <<desk, account, transferred, batch, line>>
      /\ book' = [book EXCEPT ![r.id] = written] /\ r.op \in EntryKinds
  BY DEF RecordMovement, Commits, Runs
<1>2. req' \in [Sessions -> Requests] /\ Exclusion' /\ RequestOK(req[s])'
      /\ \A t \in Sessions \ {s} : req'[t] = req[t]
  BY <1>1, AfterCommit
<1>3. r.id \in Notes  BY <1>1, Requested DEF RequestOK, MovementOK
<1>4. written \in BookRows
  <2>1. r.target \in Desks \cup {0} /\ r.amount \in 0..MaxAmount  BY Requested DEF Requests
  <2>2. signed \in -MaxAmount..MaxAmount  BY <2>1, BoundsAssumption
  <2> QED  BY <1>1, <2>1, <2>2 DEF NewRow, BookRows
<1>5. book' \in [Books -> BookRows] /\ \A n \in Legs \cup Lines : book'[n] = book[n]
  BY <1>1, <1>3, <1>4, EntryApart
<1>6. TypeOK'  BY <1>1, <1>2, <1>5 DEF IInv, TypeOK
<1> QED  BY <1>1, <1>2, <1>5, <1>6, CashOnly

LEMMA UpdateCashMovementKeeps ==
  ASSUME IInv, NEW m \in Notes, NEW a \in Amounts, UpdateCashMovement(m, a) PROVE IInv'
<1> DEFINE written == [book[m] EXCEPT !.amount = IF book[m].kind = "expense" THEN -a ELSE a]
<1>1. book' = [book EXCEPT ![m] = written]
      /\ UNCHANGED <<desk, account, transferred, batch, line, req>>
  BY DEF UpdateCashMovement
<1>2. written \in BookRows
  <2>1. -a \in -MaxAmount..MaxAmount /\ a \in -MaxAmount..MaxAmount
    BY BoundsAssumption DEF Amounts
  <2>2. book[m] \in BookRows  BY KindsApart DEF IInv, TypeOK
  <2> QED  BY <2>1, <2>2 DEF BookRows
<1>3. book' \in [Books -> BookRows] /\ \A n \in Legs \cup Lines : book'[n] = book[n]
  BY <1>1, <1>2, EntryApart
<1>4. TypeOK' /\ Exclusion'  BY <1>1, <1>3 DEF IInv, TypeOK, Exclusion
<1> QED  BY <1>1, <1>3, <1>4, CashOnly

LEMMA TrashMovementKeeps ==
  ASSUME IInv, NEW s \in Sessions, TrashMovement(s) PROVE IInv'
<1> DEFINE r == req[s]
           written == [book[r.id] EXCEPT !.state = "trashed"]
<1>1. req' = [req EXCEPT ![s] = Idle] /\ UNCHANGED <<desk, account, transferred, batch, line>>
      /\ book' = [book EXCEPT ![r.id] = written] /\ r.op = "bookTrash" /\ r.stage = 1
      /\ r.id \notin Lines /\ book[r.id].state = "live" /\ Removable(r.id)
  BY DEF TrashMovement, Commits, Runs, Refused, NothingToRemove
<1>2. req' \in [Sessions -> Requests] /\ Exclusion' /\ RequestOK(req[s])'
      /\ \A t \in Sessions \ {s} : req'[t] = req[t]
  BY <1>1, AfterCommit
<1>3. r.id \in Notes
  <2>1. r.id \in Books  BY <1>1, Requested DEF RequestOK, MovementOK
  <2>2. r.id \notin Legs
    BY <1>1, LegShape DEF Removable, IInv, RowsOK
  <2> QED  BY <1>1, <2>1, <2>2 DEF Books
<1>4. written \in BookRows  BY <1>3, KindsApart DEF IInv, TypeOK, BookRows
<1>5. book' \in [Books -> BookRows] /\ \A n \in Legs \cup Lines : book'[n] = book[n]
  BY <1>1, <1>3, <1>4, EntryApart
<1>6. TypeOK'  BY <1>1, <1>2, <1>5 DEF IInv, TypeOK
<1> QED  BY <1>1, <1>2, <1>5, <1>6, CashOnly

(* A transfer that is about to be made holds its key, and is the first.     *)
LEMMA TransferKnown ==
  ASSUME IInv, NEW s \in Sessions, TreasuryTransfer(s)
  PROVE  /\ req[s].op = "transfer" /\ req[s].key \in TransferKeys
         /\ req[s].key \notin transferred /\ Asked(req[s]) \in Transfers
         /\ \A t \in Sessions \ {s} : <<"key", req[s].key>> \notin req[t].held
<1> DEFINE r == req[s]
<1>1. r.op = "transfer" /\ r.stage = 3  BY DEF TreasuryTransfer, Commits, Runs
<1>2. RequestOK(r)  BY Requested
<1>3. r.key \in TransferKeys /\ r.key \notin transferred /\ <<"key", r.key>> \in r.held
      /\ \E t \in Transfers : r.transfer = {t}
  BY <1>1, <1>2 DEF RequestOK, TransferOK
<1> QED  BY <1>1, <1>3 DEF Asked, IInv, Exclusion

LEMMA Posted ==
  ASSUME NEW f \in [Accounts -> AccountRows], NEW a \in Accounts, NEW n \in Int
  PROVE  /\ [f EXCEPT ![a].transfers = @ + n] \in [Accounts -> AccountRows]
         /\ [f EXCEPT ![a].transfers = @ - n] \in [Accounts -> AccountRows]
<1>1. f[a].transfers \in Int  BY DEF AccountRows
<1>2. [f[a] EXCEPT !.transfers = @ + n] \in AccountRows
      /\ [f[a] EXCEPT !.transfers = @ - n] \in AccountRows
  BY <1>1 DEF AccountRows
<1> QED  BY <1>2

LEMMA TreasuryTransferKeeps ==
  ASSUME IInv, NEW s \in Sessions, TreasuryTransfer(s) PROVE IInv'
<1> DEFINE r == req[s]
           t == Asked(r)
           x == <<"leg", r.key>>
           leg == IF t.from = CASH THEN -t.amount ELSE t.amount
<1>1. req' = [req EXCEPT ![s] = Idle] /\ UNCHANGED <<desk, batch, line>>
      /\ transferred' = transferred \cup {r.key}
  BY DEF TreasuryTransfer, Commits
<1>2. req' \in [Sessions -> Requests] /\ Exclusion' /\ RequestOK(req[s])'
      /\ \A u \in Sessions \ {s} : req'[u] = req[u]
  BY <1>1, AfterCommit
<1>3. r.key \in TransferKeys /\ t \in Transfers
      /\ \A u \in Sessions \ {s} : <<"key", r.key>> \notin req[u].held
  BY TransferKnown
<1>4. t.amount \in Int /\ t.from \in Registers /\ t.to \in Registers /\ leg \in -MaxAmount..MaxAmount
  BY <1>3, TransfersAssumption, BoundsAssumption DEF Amounts
<1>5. account' \in [Accounts -> AccountRows]
  <2> DEFINE given == IF t.from = CASH THEN account
                      ELSE [account EXCEPT ![t.from].transfers = @ - t.amount]
  <2>1. given \in [Accounts -> AccountRows]
    BY <1>4, Posted DEF IInv, TypeOK, Registers
  <2>2. account' = IF t.to = CASH THEN given ELSE [given EXCEPT ![t.to].transfers = @ + t.amount]
    BY DEF TreasuryTransfer
  <2> HIDE DEF given
  <2> QED  BY <1>4, <2>1, <2>2, Posted DEF Registers
<1>6. /\ x \in Books
      /\ book' = book \/ \E d \in Desks : book' = [book EXCEPT ![x] = NewRow(d, "transfer", leg)]
  BY <1>3, LegIn, KindsApart DEF TreasuryTransfer, OpenDesks
<1>7. book' \in [Books -> BookRows] /\ \A m \in Books \ {x} : book'[m] = book[m]
  <2>1. \A d \in Desks : NewRow(d, "transfer", leg) \in BookRows
    BY <1>4 DEF NewRow, BookRows
  <2>2. book \in [Books -> BookRows]  BY DEF IInv, TypeOK
  <2> QED  BY <1>6, <2>1, <2>2
<1>8. book'[x] = book[x] \/ (book'[x].state = "live" /\ book'[x].kind = "transfer")
  <2>1. book \in [Books -> BookRows]  BY DEF IInv, TypeOK
  <2>2. ASSUME NEW d \in Desks, book' = [book EXCEPT ![x] = NewRow(d, "transfer", leg)]
        PROVE  book'[x].state = "live" /\ book'[x].kind = "transfer"
    <3>1. book'[x] = NewRow(d, "transfer", leg)  BY <1>6, <2>1, <2>2
    <3> QED  BY <3>1 DEF NewRow
  <2> QED  BY <1>6, <2>2
<1> HIDE DEF t, leg
<1>9. TypeOK'  BY <1>1, <1>2, <1>3, <1>5, <1>7 DEF IInv, TypeOK
<1>10. RowsOK'
  <2>1. ASSUME NEW k \in TransferKeys, k # r.key
        PROVE  <<"leg", k>> \in Books \ {x}
    BY <2>1, LegIn, KindsApart
  <2> QED  BY <1>1, <1>3, <1>7, <1>8, <2>1 DEF IInv, RowsOK
<1>11. PayoutIsItsMovements'
  <2>1. \A l \in Lines : book'[l] = book[l]
    BY <1>3, <1>7, LegIn, KindsApart
  <2> QED  BY <1>1, <2>1 DEF IInv, PayoutIsItsMovements, BatchIsItsLines, LinesFollowCash, LiveLines
<1>12. ASSUME NEW u \in Sessions PROVE RequestOK(req[u])'
  <2> SUFFICES ASSUME u # s PROVE RequestOK(req[u])'  BY <1>2
  <2> QED  BY <1>1, <1>2, <1>3, OthersKeep
<1> QED  BY <1>2, <1>9, <1>10, <1>11, <1>12 DEF IInv

LEMMA PostBankTransactionKeeps ==
  ASSUME IInv, NEW a \in Accounts, NEW n \in {-1, 1}, PostBankTransaction(a, n) PROVE IInv'
<1>1. account' \in [Accounts -> AccountRows]
  BY DEF PostBankTransaction, IInv, TypeOK, AccountRows
<1>2. UNCHANGED <<desk, book, transferred, batch, line, req>>  BY DEF PostBankTransaction
<1>3. TypeOK' /\ Exclusion'  BY <1>1, <1>2 DEF IInv, TypeOK, Exclusion
<1> QED  BY <1>2, <1>3, CashOnly

(* No line of a batch that is not there yet.                                *)
LEMMA NoLines ==
  ASSUME IInv, NEW k \in PayoutKeys, batch[k].state = "none"
  PROVE  \A h \in Holders : line[<<"line", k, h>>] = "none"
<1>1. ASSUME NEW h \in Holders PROVE line[<<"line", k, h>>] = "none"
  <2>1. <<"line", k, h>> \in Lines  BY LineIn
  <2> QED  BY <2>1 DEF IInv, RowsOK
<1> QED  BY <1>1

LEMMA ShareholderPayoutKeeps ==
  ASSUME IInv, NEW s \in Sessions, ShareholderPayout(s) PROVE IInv'
<1> DEFINE r == req[s]
           made == {"line"} \X {r.key} \X r.shares
           written == NewRow(r.target, "payout", -r.amount)
<1>1. req' = [req EXCEPT ![s] = Idle] /\ UNCHANGED <<desk, account, transferred>>
      /\ batch' = [batch EXCEPT ![r.key] = [state |-> "live", counted |-> r.shares]]
      /\ line' = [l \in Lines |-> IF l \in made THEN "live" ELSE line[l]]
      /\ book' = [m \in Books |-> IF m \in made THEN written ELSE book[m]]
      /\ r.op = "payout" /\ r.stage = 3
  BY DEF ShareholderPayout, Commits, Runs
<1>2. req' \in [Sessions -> Requests] /\ Exclusion' /\ RequestOK(req[s])'
      /\ \A u \in Sessions \ {s} : req'[u] = req[u]
  BY <1>1, AfterCommit
<1>3. r \in Requests /\ r.key \in PayoutKeys /\ r.shares # {} /\ r.shares \subseteq Holders
      /\ batch[r.key].state = "none" /\ r.target \in Desks /\ <<"key", r.key>> \in r.held
  BY SMTT(30), <1>1, Requested DEF RequestOK, PayoutOK, Requests
<1>4. \A h \in Holders : line[<<"line", r.key, h>>] = "none"  BY <1>3, NoLines
<1>5. written \in BookRows /\ written.state = "live"
  <2>1. r.amount \in 0..MaxAmount  BY <1>3 DEF Requests
  <2>2. -r.amount \in -MaxAmount..MaxAmount  BY <2>1, BoundsAssumption
  <2> QED  BY <1>3, <2>2 DEF NewRow, BookRows
<1>6. \A l \in made : l \in Lines /\ l[2] = r.key /\ l[3] \in r.shares /\ line[l] = "none"
  BY <1>3, <1>4 DEF Lines
<1>7. \A h : <<"line", r.key, h>> \in made <=> h \in r.shares  OBVIOUS
<1>8. \A k, h : <<"line", k, h>> \in made => k = r.key  OBVIOUS
<1> HIDE DEF made, written
<1>9. TypeOK'
  <2>1. book' \in [Books -> BookRows]  BY <1>1, <1>5 DEF IInv, TypeOK
  <2>2. line' \in [Lines -> LineStates]  BY <1>1 DEF IInv, TypeOK, LineStates
  <2>3. batch' \in [PayoutKeys -> BatchRows]  BY <1>1, <1>3 DEF IInv, TypeOK, BatchRows
  <2> QED  BY <1>1, <1>2, <2>1, <2>2, <2>3 DEF IInv, TypeOK
<1>10. \A m \in Books \ Lines : book'[m] = book[m]  BY <1>1, <1>6
<1>11. batch'[r.key] = [state |-> "live", counted |-> r.shares]
       /\ \A k \in PayoutKeys \ {r.key} : batch'[k] = batch[k]
  BY <1>1, <1>3 DEF IInv, TypeOK
<1>12. RowsOK'
  <2>1. ASSUME NEW k \in TransferKeys PROVE book'[<<"leg", k>>] = book[<<"leg", k>>]
    BY <1>10, LegIn, KindsApart
  <2>2. ASSUME NEW l \in Lines, line'[l] # "none" PROVE batch'[l[2]].state # "none"
    <3>1. CASE l[2] = r.key  BY <1>11, <3>1
    <3>2. CASE l[2] # r.key
      <4>1. line'[l] = line[l]  BY <1>1, <1>6, <3>2
      <4>2. batch'[l[2]] = batch[l[2]]  BY <1>11, <3>2, LineShape
      <4> QED  BY <2>2, <4>1, <4>2 DEF IInv, RowsOK
    <3> QED  BY <3>1, <3>2
  <2> QED  BY <1>1, <2>1, <2>2 DEF IInv, RowsOK
<1>13. ASSUME NEW k \in PayoutKeys
       PROVE  /\ batch'[k].counted = LiveLines(k)'
              /\ (batch'[k].state = "live") = (LiveLines(k)' # {})
  <2>1. CASE k = r.key
    <3>1. \A h \in Holders : line'[<<"line", k, h>>] = IF h \in r.shares THEN "live" ELSE "none"
      BY <1>1, <1>4, <1>7, <2>1, LineIn
    <3>2. LiveLines(k)' = r.shares  BY <1>3, <3>1 DEF LiveLines
    <3> QED  BY <1>3, <1>11, <2>1, <3>2
  <2>2. CASE k # r.key
    <3>1. \A h \in Holders : line'[<<"line", k, h>>] = line[<<"line", k, h>>]
      BY <1>1, <1>8, <2>2, LineIn
    <3>2. LiveLines(k)' = LiveLines(k)  BY <3>1 DEF LiveLines
    <3> QED  BY <1>11, <2>2, <3>2 DEF IInv, PayoutIsItsMovements, BatchIsItsLines
  <2> QED  BY <2>1, <2>2
<1>14. \A l \in Lines : line'[l] = book'[l].state
  BY <1>1, <1>5, KindsApart DEF IInv, PayoutIsItsMovements, LinesFollowCash
<1>15. PayoutIsItsMovements'
  BY <1>13, <1>14 DEF PayoutIsItsMovements, BatchIsItsLines, LinesFollowCash
<1>16. ASSUME NEW u \in Sessions PROVE RequestOK(req[u])'
  <2> SUFFICES ASSUME u # s PROVE RequestOK(req[u])'  BY <1>2
  <2>1. req'[u] = req[u] /\ <<"key", r.key>> \notin req[u].held
    BY <1>2, <1>3 DEF IInv, Exclusion
  <2>2. \A k \in PayoutKeys :
          (<<"key", k>> \in req[u].held /\ batch[k].state = "none") => batch'[k].state = "none"
    BY <1>11, <2>1
  <2>3. \A l \in Lines : line[l] # "none" => line'[l] # "none"
    BY <1>1
  <2>4. ASSUME NEW l \in Lines, line[l] # "none", NEW h \in Holders
        PROVE  line'[<<"line", l[2], h>>] = line[<<"line", l[2], h>>]
    <3>1. l[2] # r.key  BY <1>3, <2>4 DEF IInv, RowsOK
    <3>2. <<"line", l[2], h>> \in Lines  BY LineShape, LineIn
    <3> QED  BY <1>1, <1>8, <3>1, <3>2
  <2> QED  BY <1>1, <2>1, <2>2, <2>3, <2>4, OthersKeep
<1> QED  BY <1>2, <1>9, <1>12, <1>15, <1>16 DEF IInv

LEMMA TrashPayoutKeeps ==
  ASSUME IInv, NEW s \in Sessions, TrashPayout(s) PROVE IInv'
<1> DEFINE r == req[s]
           l == r.id
           k0 == l[2]
           h0 == l[3]
           state == IF r.counted = {} THEN "trashed" ELSE "live"
<1>1. /\ req' = [req EXCEPT ![s] = Idle] /\ UNCHANGED <<desk, account, transferred>>
      /\ line' = [line EXCEPT ![l] = "trashed"]
      /\ book' = [book EXCEPT ![l].state = "trashed"]
      /\ batch' = [batch EXCEPT ![k0] = [state |-> state, counted |-> r.counted]]
      /\ r.op \in {"payoutTrash", "bookTrash"} /\ r.stage = 3 /\ l \in Lines
  BY DEF TrashPayout, Commits, Runs
<1>2. req' \in [Sessions -> Requests] /\ Exclusion' /\ RequestOK(req[s])'
      /\ \A u \in Sessions \ {s} : req'[u] = req[u]
  BY <1>1, AfterCommit
<1>3. r \in Requests /\ PayoutRows(l) \subseteq r.held /\ line[l] = "live"
      /\ r.counted = LiveLines(k0) \ {h0} /\ r.counted \subseteq Holders
  BY <1>1, Requested DEF RequestOK, RemovalOK, Requests, Lead
<1>4. l \in Lines /\ k0 \in PayoutKeys /\ h0 \in Holders /\ l = <<"line", k0, h0>> /\ l \in Books
  BY <1>1, LineShape, KindsApart
<1>5. line'[l] = "trashed" /\ \A m \in Lines \ {l} : line'[m] = line[m]
  BY <1>1 DEF IInv, TypeOK
<1>6. book'[l].state = "trashed" /\ \A m \in Books \ {l} : book'[m] = book[m]
  BY <1>1, <1>4 DEF IInv, TypeOK, BookRows
<1>7. batch'[k0] = [state |-> state, counted |-> r.counted]
      /\ \A k \in PayoutKeys \ {k0} : batch'[k] = batch[k]
  BY <1>1, <1>4 DEF IInv, TypeOK
<1>8. TypeOK'
  <2>1. book' \in [Books -> BookRows]  BY ZenonT(60), <1>1 DEF IInv, TypeOK, BookRows
  <2>2. line' \in [Lines -> LineStates]  BY <1>1 DEF IInv, TypeOK, LineStates
  <2>3. batch' \in [PayoutKeys -> BatchRows]  BY <1>1, <1>3 DEF IInv, TypeOK, BatchRows
  <2> QED  BY <1>1, <1>2, <2>1, <2>2, <2>3 DEF IInv, TypeOK
<1> HIDE DEF l, k0, h0
<1>9. RowsOK'
  <2>1. ASSUME NEW k \in TransferKeys PROVE book'[<<"leg", k>>] = book[<<"leg", k>>]
    <3>1. <<"leg", k>> \in Books \ {l}  BY <1>4, LegIn, KindsApart
    <3> QED  BY <1>6, <3>1
  <2>2. ASSUME NEW m \in Lines, line'[m] # "none" PROVE batch'[m[2]].state # "none"
    <3>1. line[m] # "none"  BY <1>3, <1>5, <2>2
    <3>2. batch[m[2]].state # "none" /\ m[2] \in PayoutKeys
      BY <3>1, LineShape DEF IInv, RowsOK
    <3> QED  BY <1>7, <3>2
  <2> QED  BY <1>1, <2>1, <2>2 DEF IInv, RowsOK
<1>10. ASSUME NEW k \in PayoutKeys
       PROVE  /\ batch'[k].counted = LiveLines(k)'
              /\ (batch'[k].state = "live") = (LiveLines(k)' # {})
  <2>1. CASE k = k0
    <3>1. \A h \in Holders :
            line'[<<"line", k, h>>] = IF h = h0 THEN "trashed" ELSE line[<<"line", k, h>>]
      <4>1. ASSUME NEW h \in Holders, h # h0 PROVE <<"line", k, h>> \in Lines \ {l}
        BY <1>4, <4>1, LineIn
      <4> QED  BY <1>4, <1>5, <2>1, <4>1
    <3>2. LiveLines(k)' = LiveLines(k) \ {h0}  BY <3>1 DEF LiveLines
    <3> QED  BY <1>3, <1>7, <2>1, <3>2
  <2>2. CASE k # k0
    <3>1. \A h \in Holders : <<"line", k, h>> \in Lines \ {l}
      BY <1>4, <2>2, LineIn
    <3>2. LiveLines(k)' = LiveLines(k)  BY <1>5, <3>1 DEF LiveLines
    <3> QED  BY <1>7, <2>2, <3>2 DEF IInv, PayoutIsItsMovements, BatchIsItsLines
  <2> QED  BY <2>1, <2>2
<1>11. \A m \in Lines : line'[m] = book'[m].state
  BY <1>5, <1>6, KindsApart DEF IInv, PayoutIsItsMovements, LinesFollowCash
<1>12. PayoutIsItsMovements'
  BY <1>10, <1>11 DEF PayoutIsItsMovements, BatchIsItsLines, LinesFollowCash
<1>13. ASSUME NEW u \in Sessions PROVE RequestOK(req[u])'
  <2> SUFFICES ASSUME u # s PROVE RequestOK(req[u])'  BY <1>2
  <2>1. req'[u] = req[u] /\ <<"batch", k0>> \notin req[u].held
    BY <1>2, <1>3, <1>4 DEF IInv, Exclusion, PayoutRows, k0
  <2>2. \A k \in PayoutKeys :
          (<<"key", k>> \in req[u].held /\ batch[k].state = "none") => batch'[k].state = "none"
    <3>1. batch[k0].state # "none"  BY <1>3, <1>4 DEF IInv, RowsOK, k0
    <3> QED  BY <1>7, <3>1
  <2>3. \A m \in Lines : line[m] # "none" => line'[m] # "none"
    BY <1>5
  <2>4. ASSUME NEW m \in Lines, PayoutRows(m) \subseteq req[u].held, NEW h \in Holders
        PROVE  line'[<<"line", m[2], h>>] = line[<<"line", m[2], h>>]
    <3>1. m[2] # k0  BY <2>1, <2>4 DEF PayoutRows
    <3>2. <<"line", m[2], h>> \in Lines \ {l}  BY <1>4, <3>1, LineShape, LineIn
    <3> QED  BY <1>5, <3>2
  <2> QED  BY <1>1, <2>1, <2>2, <2>3, <2>4, OthersKeep
<1> QED  BY <1>2, <1>8, <1>9, <1>12, <1>13 DEF IInv

-----------------------------------------------------------------------------
(* The invariant is inductive.                                              *)

LEMMA InitHolds == Init => IInv
<1> SUFFICES ASSUME Init PROVE IInv  OBVIOUS
<1> USE DEF Init
<1>1. Idle \in Requests /\ Idle.held = {} /\ Idle.op = "none"  BY IdleType DEF Idle
<1>2. TypeOK
  <2>1. book \in [Books -> BookRows]  BY BoundsAssumption DEF BookRows, EntryKinds
  <2>2. account \in [Accounts -> AccountRows] /\ desk \in [Desks -> DeskRows]
    BY DEF AccountRows, DeskRows
  <2>3. batch \in [PayoutKeys -> BatchRows] /\ line \in [Lines -> LineStates]
    BY DEF BatchRows, LineStates
  <2> QED  BY <1>1, <2>1, <2>2, <2>3 DEF TypeOK
<1>3. Exclusion  BY <1>1 DEF Exclusion
<1>4. RowsOK  BY LegIn, KindsApart DEF RowsOK
<1>5. PayoutIsItsMovements
  <2>1. \A k \in PayoutKeys : LiveLines(k) = {}  BY LineIn DEF LiveLines
  <2>2. BatchIsItsLines  BY <2>1 DEF BatchIsItsLines
  <2>3. LinesFollowCash  BY KindsApart DEF LinesFollowCash
  <2> QED  BY <2>2, <2>3 DEF PayoutIsItsMovements
<1>6. \A s \in Sessions : RequestOK(req[s])
  BY <1>1 DEF RequestOK, TransferOK, PayoutOK, MovementOK, RemovalOK, EntryKinds
<1> QED  BY <1>2, <1>3, <1>4, <1>5, <1>6 DEF IInv

LEMMA NextKeeps == IInv /\ [Next]_vars => IInv'
<1> SUFFICES ASSUME IInv, [Next]_vars PROVE IInv'  OBVIOUS
<1>1. ASSUME NEW s \in Sessions, Step(s) PROVE IInv'
  <2>1. ASSUME Refuse(s) PROVE IInv'  BY <2>1, BackToIdle DEF Refuse
  <2> QED
    BY <1>1, <2>1, AcquireKeeps, FindDeskKeeps, SumDeskKeeps, CountLinesKeeps, CloseCashKeeps,
       RecordMovementKeeps, TreasuryTransferKeeps, ShareholderPayoutKeeps, TrashMovementKeeps,
       TrashPayoutKeeps DEF Step
<1>2. ASSUME NEW s \in Sessions, Rollback(s) \/ DeadlockVictim(s) PROVE IInv'
  BY <1>2, BackToIdle DEF Rollback, DeadlockVictim
<1>3. ASSUME UNCHANGED vars PROVE IInv'
  <2>1. TypeOK' /\ Exclusion'  BY <1>3 DEF vars, IInv, TypeOK, Exclusion
  <2> QED  BY <1>3, <2>1, CashOnly DEF vars
<1> QED
  BY <1>1, <1>2, <1>3, RequestKeeps, OpenCashKeeps, UpdateCashMovementKeeps,
     PostBankTransactionKeeps DEF Next

THEOREM Invariance == Spec => []IInv
BY InitHolds, NextKeeps, PTL DEF Spec

(* Every variable keeps its type: what the requests of the cash desk and    *)
(* the treasury write are rows of their tables.                             *)
THEOREM TypeCorrect == Spec => []TypeOK
<1>1. IInv => TypeOK  BY DEF IInv
<1> QED  BY <1>1, Invariance, PTL

(* Payouts agree with the cash book and with their lines, whichever screen  *)
(* a line is removed from and however many requests remove lines of one     *)
(* batch at once (createShareholderPayoutInTransaction,                     *)
(* trashShareholderPayoutInTransaction).                                    *)
THEOREM PayoutsAreTheirMovements == Spec => []PayoutIsItsMovements
<1>1. IInv => PayoutIsItsMovements  BY DEF IInv
<1> QED  BY <1>1, Invariance, PTL

-----------------------------------------------------------------------------
(* Transfers move money: the accounts and the legs add up to 0.             *)

OnAccounts == [a \in Accounts |-> account[a].transfers]
OnLegs == [k \in Legs |-> IF book[k].state = "live" THEN book[k].amount ELSE 0]
AccountsSum == SumFunctionOnSet(OnAccounts, Accounts)
LegsSum == SumFunctionOnSet(OnLegs, Legs)

LEMMA BalanceSums == TransfersBalance <=> AccountsSum + LegsSum = 0
BY DEF TransfersBalance, AccountsSum, LegsSum, OnAccounts, OnLegs

LEMMA LegsFinite == IsFiniteSet(Accounts) /\ IsFiniteSet(Legs)
BY FiniteAssumption, KindsApart, FS_Subset

LEMMA TermsType ==
  ASSUME TypeOK
  PROVE  (\A a \in Accounts : OnAccounts[a] \in Int) /\ (\A k \in Legs : OnLegs[k] \in Int)
<1>1. \A k \in Legs : book[k].amount \in Int
  BY KindsApart, BoundsAssumption DEF TypeOK, BookRows
<1> QED  BY <1>1 DEF OnAccounts, OnLegs, TypeOK, AccountRows

LEMMA SidesType ==
  ASSUME TypeOK PROVE AccountsSum \in Int /\ LegsSum \in Int
BY TermsType, LegsFinite, SumType DEF AccountsSum, LegsSum

(* One account or leg changes: so does its sum.                             *)
LEMMA AccountMoves ==
  ASSUME TypeOK, TypeOK', NEW x \in Accounts, NEW n \in Int,
         account'[x].transfers = account[x].transfers + n,
         \A a \in Accounts \ {x} : account'[a].transfers = account[a].transfers
  PROVE  AccountsSum' = AccountsSum + n
<1> DEFINE f == OnAccounts
           h == OnAccounts'
<1>1. \A a \in Accounts : f[a] \in Int /\ h[a] \in Int
  BY DEF OnAccounts, TypeOK, AccountRows
<1>2. \A a \in Accounts \ {x} : h[a] = f[a]  BY DEF OnAccounts
<1>3. h[x] = f[x] + n  BY DEF OnAccounts
<1>4. AccountsSum = SumFunctionOnSet(f, Accounts) /\ AccountsSum' = SumFunctionOnSet(h, Accounts)
  BY DEF AccountsSum
<1>5. AccountsSum \in Int  BY SidesType
<1> HIDE DEF f, h
<1>6. SumFunctionOnSet(h, Accounts) = SumFunctionOnSet(f, Accounts) + (h[x] - f[x])
  BY <1>1, <1>2, LegsFinite, SumChangeOne
<1>7. f[x] \in Int  BY <1>1
<1> QED  BY <1>3, <1>4, <1>5, <1>6, <1>7

LEMMA LegMoves ==
  ASSUME TypeOK, TypeOK', NEW x \in Legs, NEW n \in Int, OnLegs'[x] = OnLegs[x] + n,
         \A k \in Legs \ {x} : book'[k] = book[k]
  PROVE  LegsSum' = LegsSum + n
<1> DEFINE f == OnLegs
           h == OnLegs'
<1>1. \A k \in Legs : f[k] \in Int /\ h[k] \in Int
  <2>1. \A k \in Legs : book[k].amount \in Int /\ book'[k].amount \in Int
    BY KindsApart, BoundsAssumption DEF TypeOK, BookRows
  <2> QED  BY <2>1 DEF OnLegs
<1>2. \A k \in Legs \ {x} : h[k] = f[k]  BY DEF OnLegs
<1>3. h[x] = f[x] + n  OBVIOUS
<1>4. LegsSum = SumFunctionOnSet(f, Legs) /\ LegsSum' = SumFunctionOnSet(h, Legs)
  BY DEF LegsSum
<1>5. LegsSum \in Int  BY SidesType
<1> HIDE DEF f, h
<1>6. SumFunctionOnSet(h, Legs) = SumFunctionOnSet(f, Legs) + (h[x] - f[x])
  BY <1>1, <1>2, LegsFinite, SumChangeOne
<1>7. f[x] \in Int  BY <1>1
<1> QED  BY <1>3, <1>4, <1>5, <1>6, <1>7

LEMMA SumsStay ==
  ASSUME TypeOK
  PROVE  /\ (\A a \in Accounts : account'[a].transfers = account[a].transfers)
              => AccountsSum' = AccountsSum
         /\ (\A k \in Legs : book'[k] = book[k]) => LegsSum' = LegsSum
<1>1. ASSUME \A a \in Accounts : account'[a].transfers = account[a].transfers
      PROVE  AccountsSum' = AccountsSum
  <2>1. OnAccounts' = OnAccounts  BY <1>1 DEF OnAccounts
  <2> QED  BY <2>1 DEF AccountsSum
<1>2. ASSUME \A k \in Legs : book'[k] = book[k]
      PROVE  LegsSum' = LegsSum
  <2>1. OnLegs' = OnLegs  BY <1>2 DEF OnLegs
  <2> QED  BY <2>1 DEF LegsSum
<1> QED  BY <1>1, <1>2

(* One account gives what another gets.                                     *)
LEMMA TwoAccounts ==
  ASSUME TypeOK, NEW x \in Accounts, NEW y \in Accounts, x # y, NEW n \in Int, TypeOK',
         account'[x].transfers = account[x].transfers - n,
         account'[y].transfers = account[y].transfers + n,
         \A a \in Accounts \ {x, y} : account'[a].transfers = account[a].transfers
  PROVE  AccountsSum' = AccountsSum
<1> DEFINE f == OnAccounts
           g == [f EXCEPT ![x] = @ - n]
           h == OnAccounts'
<1>1. \A a \in Accounts : f[a] \in Int /\ h[a] \in Int
  BY DEF OnAccounts, TypeOK, AccountRows
<1>2. f = [a \in Accounts |-> f[a]]  BY DEF OnAccounts
<1>3. \A a \in Accounts \ {x, y} : h[a] = f[a]  BY DEF OnAccounts
<1>4. h[x] = f[x] - n /\ h[y] = f[y] + n  BY DEF OnAccounts
<1>5. AccountsSum = SumFunctionOnSet(f, Accounts) /\ AccountsSum' = SumFunctionOnSet(h, Accounts)
  BY DEF AccountsSum
<1>6. AccountsSum \in Int  BY SidesType
<1> HIDE DEF f, h
<1>7. (\A a \in Accounts : g[a] \in Int) /\ g[x] = f[x] - n
      /\ \A a \in Accounts \ {x} : g[a] = f[a]
  BY <1>1, <1>2
<1>8. \A a \in Accounts \ {y} : h[a] = g[a]  BY <1>3, <1>4, <1>7
<1>9. g[y] = f[y] /\ f[x] \in Int /\ f[y] \in Int  BY <1>1, <1>7
<1> HIDE DEF g
<1>10. SumFunctionOnSet(g, Accounts) = SumFunctionOnSet(f, Accounts) + (g[x] - f[x])
  BY <1>1, <1>7, LegsFinite, SumChangeOne
<1>11. SumFunctionOnSet(h, Accounts) = SumFunctionOnSet(g, Accounts) + (h[y] - g[y])
  BY <1>1, <1>7, <1>8, LegsFinite, SumChangeOne
<1> QED  BY <1>4, <1>5, <1>6, <1>7, <1>9, <1>10, <1>11

(* What a transfer takes from one side it puts on the other.                *)
LEMMA TransferBalances ==
  ASSUME IInv, IInv', TransfersBalance, NEW s \in Sessions, TreasuryTransfer(s)
  PROVE  TransfersBalance'
<1> DEFINE r == req[s]
           t == Asked(r)
           x == <<"leg", r.key>>
           leg == IF t.from = CASH THEN -t.amount ELSE t.amount
           given == IF t.from = CASH THEN account
                    ELSE [account EXCEPT ![t.from].transfers = @ - t.amount]
<1>1. r.key \in TransferKeys /\ r.key \notin transferred /\ t \in Transfers
  BY TransferKnown
<1>2. t.from \in Registers /\ t.to \in Registers /\ t.from # t.to /\ t.amount \in Int
  BY <1>1, TransfersAssumption, BoundsAssumption DEF Amounts
<1>3. TypeOK /\ TypeOK' /\ account \in [Accounts -> AccountRows]
      /\ (\A a \in Accounts : account[a].transfers \in Int)
      /\ book \in [Books -> BookRows]
  BY DEF IInv, TypeOK, AccountRows
<1>4. x \in Legs /\ x \in Books /\ book[x].state = "none"
  BY <1>1, LegIn, KindsApart DEF IInv, RowsOK
<1>5. given \in [Accounts -> AccountRows]
      /\ \A a \in Accounts :
           given[a].transfers = IF a = t.from THEN account[a].transfers - t.amount
                                ELSE account[a].transfers
  <2>1. CASE t.from = CASH  BY <1>3, <2>1, CashAssumption
  <2>2. CASE t.from # CASH
    <3>1. t.from \in Accounts  BY <1>2, <2>2 DEF Registers
    <3>2. given = [account EXCEPT ![t.from].transfers = @ - t.amount]  BY <2>2
    <3>3. given \in [Accounts -> AccountRows]  BY <1>2, <1>3, <3>1, <3>2, Posted
    <3>4. account[t.from] \in AccountRows  BY <1>3, <3>1
    <3> QED  BY <1>3, <3>1, <3>2, <3>3, <3>4 DEF AccountRows
  <2> QED  BY <2>1, <2>2
<1>6. account' = IF t.to = CASH THEN given ELSE [given EXCEPT ![t.to].transfers = @ + t.amount]
  BY DEF TreasuryTransfer
<1>7. IF IsWire(t) THEN book' = book
      ELSE \E d \in OpenDesks : book' = [book EXCEPT ![x] = NewRow(d, "transfer", leg)]
  BY DEF TreasuryTransfer
<1>8. \A d : NewRow(d, "transfer", leg).state = "live" /\ NewRow(d, "transfer", leg).amount = leg
  BY DEF NewRow
<1>9. AccountsSum \in Int /\ LegsSum \in Int /\ AccountsSum + LegsSum = 0
  BY <1>3, SidesType, BalanceSums
<1>a. TransfersBalance' <=> AccountsSum' + LegsSum' = 0
  BY DEF TransfersBalance, AccountsSum, LegsSum, OnAccounts, OnLegs
<1> HIDE DEF t, given
<1>10. \A a \in Accounts :
         account'[a].transfers = IF t.to # CASH /\ a = t.to THEN given[a].transfers + t.amount
                                 ELSE given[a].transfers
  <2>1. CASE t.to = CASH  BY <1>6, <2>1
  <2>2. CASE t.to # CASH
    <3>1. t.to \in Accounts  BY <1>2, <2>2 DEF Registers
    <3>2. given[t.to] \in AccountRows  BY <1>5, <3>1
    <3> QED  BY <1>5, <1>6, <2>2, <3>1, <3>2 DEF AccountRows
  <2> QED  BY <2>1, <2>2
<1>11. CASE IsWire(t)
  <2>1. t.from \in Accounts /\ t.to \in Accounts  BY <1>2, <1>11 DEF IsWire, Registers
  <2>2. LegsSum' = LegsSum  BY <1>3, <1>7, <1>11, SumsStay
  <2>3. AccountsSum' = AccountsSum
    BY <1>2, <1>3, <1>5, <1>10, <1>11, <2>1, TwoAccounts DEF IsWire
  <2> QED  BY <1>9, <1>a, <2>2, <2>3
<1>12. CASE ~IsWire(t)
  <2>1. PICK d \in OpenDesks : book' = [book EXCEPT ![x] = NewRow(d, "transfer", leg)]
    BY <1>7, <1>12
  <2>2. OnLegs[x] = 0 /\ OnLegs'[x] = leg  BY <1>3, <1>4, <1>8, <2>1 DEF OnLegs
  <2>3. \A k \in Legs \ {x} : book'[k] = book[k]  BY <1>3, <2>1, KindsApart
  <2>4. leg \in Int  BY <1>2
  <2>5. LegsSum' = LegsSum + leg
    <3> HIDE DEF leg, x
    <3>1. OnLegs'[x] = OnLegs[x] + leg  BY <2>2, <2>4
    <3> QED  BY <1>3, <1>4, <2>3, <2>4, <3>1, LegMoves
  <2>6. CASE t.from = CASH
    <3>1. t.to \in Accounts /\ t.to # CASH /\ leg = -t.amount
      BY <1>2, <2>6 DEF Registers
    <3>2. AccountsSum' = AccountsSum + t.amount
      BY <1>2, <1>3, <1>5, <1>10, <2>6, <3>1, CashAssumption, AccountMoves
    <3> QED  BY <1>2, <1>9, <1>a, <2>5, <3>1, <3>2
  <2>7. CASE t.from # CASH
    <3>1. t.from \in Accounts /\ t.to = CASH /\ leg = t.amount
      BY <1>2, <1>12, <2>7 DEF Registers, IsWire
    <3>2. AccountsSum' = AccountsSum + (-t.amount)
      <4>1. -t.amount \in Int  BY <1>2
      <4>2. account'[t.from].transfers = account[t.from].transfers + (-t.amount)
        BY <1>2, <1>3, <1>5, <1>10, <3>1
      <4>3. \A a \in Accounts \ {t.from} : account'[a].transfers = account[a].transfers
        BY <1>5, <1>10, <3>1
      <4> QED  BY <1>3, <3>1, <4>1, <4>2, <4>3, AccountMoves
    <3> QED  BY <1>2, <1>9, <1>a, <2>5, <3>1, <3>2
  <2> QED  BY <2>6, <2>7
<1> QED  BY <1>11, <1>12

(* The accounts and the legs stay as they are in every other step.          *)
SidesStay ==
  /\ \A a \in Accounts : account'[a].transfers = account[a].transfers
  /\ \A k \in Legs : book'[k] = book[k]

LEMMA OthersLeaveSides ==
  ASSUME IInv, [Next]_vars, \A s \in Sessions : ~TreasuryTransfer(s)
  PROVE  SidesStay
<1>1. ASSUME UNCHANGED <<account, book>> PROVE SidesStay  BY <1>1 DEF SidesStay
<1>2. account \in [Accounts -> AccountRows] /\ book \in [Books -> BookRows]  BY DEF IInv, TypeOK
<1>3. ASSUME NEW m \in Books \ Legs, NEW written, book' = [book EXCEPT ![m] = written], account' = account
      PROVE  SidesStay
  BY <1>2, <1>3, KindsApart DEF SidesStay
<1>4. ASSUME NEW m \in Notes, NEW a \in Amounts, UpdateCashMovement(m, a) PROVE SidesStay
  <2>1. m \in Books \ Legs  BY KindsApart
  <2> QED  BY <1>2, <1>4, <2>1, KindsApart DEF UpdateCashMovement, SidesStay
<1>5. ASSUME NEW a \in Accounts, NEW n \in {-1, 1}, PostBankTransaction(a, n) PROVE SidesStay
  BY <1>2, <1>5 DEF PostBankTransaction, SidesStay, AccountRows
<1>6. ASSUME NEW s \in Sessions, Step(s) PROVE SidesStay
  <2> DEFINE r == req[s]
  <2>0. r \in Requests /\ RequestOK(r)  BY Requested
  <2>1. CASE Acquire(s) \/ FindDesk(s) \/ SumDesk(s) \/ CountLines(s) \/ Refuse(s)
    BY <1>1, <2>1 DEF Acquire, FindDesk, SumDesk, CountLines, Refuse, Advance
  <2>2. CASE CloseCash(s)  BY <1>1, <2>2 DEF CloseCash
  <2>3. CASE RecordMovement(s)
    <3>1. r.id \in Notes  BY <2>0, <2>3 DEF RecordMovement, Commits, Runs, RequestOK, MovementOK
    <3> QED  BY <1>3, <2>3, <3>1, KindsApart DEF RecordMovement
  <2>4. CASE ShareholderPayout(s)
    <3>1. r.key \in PayoutKeys /\ r.shares \subseteq Holders
      BY <2>0, <2>4 DEF ShareholderPayout, Commits, Runs, RequestOK, PayoutOK, Requests
    <3>2. {"line"} \X {r.key} \X r.shares \subseteq Lines  BY <3>1 DEF Lines
    <3> QED  BY <1>2, <2>4, <3>2, KindsApart DEF ShareholderPayout, SidesStay
  <2>5. CASE TrashMovement(s)
    <3>1. r.op = "bookTrash" /\ r.stage = 1 /\ r.id \notin Lines /\ Removable(r.id)
          /\ book[r.id].state = "live"
      BY <2>5 DEF TrashMovement, Commits, Runs, Refused, NothingToRemove
    <3>2. r.id \in Notes
      BY <2>0, <3>1, LegShape DEF RequestOK, MovementOK, Removable, IInv, RowsOK, Books
    <3> QED  BY <1>2, <2>5, <3>2, KindsApart DEF TrashMovement, SidesStay
  <2>6. CASE TrashPayout(s)
    <3>1. r.id \in Lines  BY <2>6 DEF TrashPayout
    <3> QED  BY <1>2, <2>6, <3>1, KindsApart DEF TrashPayout, SidesStay
  <2>7. ~TreasuryTransfer(s)  OBVIOUS
  <2> QED  BY <1>6, <2>1, <2>2, <2>3, <2>4, <2>5, <2>6, <2>7 DEF Step
<1>7. ASSUME NEW s \in Sessions, Request(s) \/ Rollback(s) \/ DeadlockVictim(s) PROVE SidesStay
  BY <1>1, <1>7 DEF Request, Begin, Rollback, DeadlockVictim
<1>8. ASSUME NEW d \in Desks, NEW o \in Openings, OpenCash(d, o) PROVE SidesStay
  BY <1>1, <1>8 DEF OpenCash
<1>9. ASSUME UNCHANGED vars PROVE SidesStay  BY <1>1, <1>9 DEF vars
<1> QED  BY <1>4, <1>5, <1>6, <1>7, <1>8, <1>9 DEF Next

LEMMA BalanceKept ==
  IInv /\ IInv' /\ TransfersBalance /\ [Next]_vars => TransfersBalance'
<1> SUFFICES ASSUME IInv, IInv', TransfersBalance, [Next]_vars PROVE TransfersBalance'
  OBVIOUS
<1>1. CASE \E s \in Sessions : TreasuryTransfer(s)  BY <1>1, TransferBalances
<1>2. CASE \A s \in Sessions : ~TreasuryTransfer(s)
  <2>1. SidesStay  BY <1>2, OthersLeaveSides
  <2>2. AccountsSum' = AccountsSum /\ LegsSum' = LegsSum  BY <2>1, SumsStay DEF IInv, SidesStay
  <2>3. TransfersBalance' <=> AccountsSum' + LegsSum' = 0
    BY DEF TransfersBalance, AccountsSum, LegsSum, OnAccounts, OnLegs
  <2> QED  BY <2>2, <2>3, BalanceSums
<1> QED  BY <1>1, <1>2

LEMMA BalanceStarts == Init => TransfersBalance
<1> SUFFICES ASSUME Init PROVE TransfersBalance  OBVIOUS
<1>1. \A a \in Accounts : OnAccounts[a] = 0  BY DEF Init, OnAccounts
<1>2. \A k \in Legs : OnLegs[k] = 0  BY KindsApart DEF Init, OnLegs
<1>3. AccountsSum = 0 /\ LegsSum = 0
  BY <1>1, <1>2, LegsFinite, SumZero DEF AccountsSum, LegsSum
<1> QED  BY <1>3, BalanceSums

(* Transfers move money and never make or lose any, whoever edits, removes  *)
(* or posts what at the same time (createTreasuryTransferInTransaction).    *)
THEOREM TransfersKeepMoney == Spec => []TransfersBalance
BY Invariance, BalanceStarts, BalanceKept, PTL DEF Spec

-----------------------------------------------------------------------------
(* A transfer takes no more than its source holds.                          *)

(* Removing a payment takes money out of the desk, by a request that does   *)
(* not lock the session (trashPaymentInTransaction): not while a transfer   *)
(* is under way.                                                            *)
PaymentsStay ==
  \A s, t \in Sessions :
    (req[s].op = "bookTrash" /\ req[t].op = "transfer") => book[req[s].id].kind # "payment"

(* What is taken out of the cash book is not money that came in.            *)
Outgoing ==
  \A m \in Books :
    (book[m].state = "live" /\ (book[m].kind \in {"expense", "payout"} \/ m \in Lines))
      => book[m].amount <= 0

(* A transfer that has read the balance of its source holds the numbering   *)
(* and the source, which has not lost anything since.                       *)
SourceOK(r) ==
  (r.op = "transfer" /\ r.stage >= 2) =>
    /\ <<"number", 0>> \in r.held /\ RowOf(Asked(r).from) \subseteq r.held
    /\ Asked(r).from = CASH => OpenDesks # {}
    /\ r.seen <= Balance(Asked(r).from)
    /\ r.stage >= 3 /\ ~IsWire(Asked(r)) => Asked(r).amount <= r.seen

SourcesKept == Outgoing /\ \A s \in Sessions : SourceOK(req[s])

LEMMA BalancesTyped == TypeOK => \A x \in Registers : Balance(x) \in Int
BY BalanceType

LEMMA BalancesTypedNext == TypeOK' => \A x \in Registers : Balance(x)' \in Int
<1>1. (TypeOK => \A x \in Registers : Balance(x) \in Int)'  BY BalancesTyped, PTL
<1> QED  BY <1>1

LEMMA DesksTypedNext == TypeOK' => \A d \in Desks : DeskBalance(d)' \in Int
<1>1. TypeOK => \A d \in Desks : DeskBalance(d) \in Int  BY DeskBalanceType
<1>2. (TypeOK => \A d \in Desks : DeskBalance(d) \in Int)'  BY <1>1, PTL
<1> QED  BY <1>2

(* What a movement adds to the balance of a session.                        *)
Inside(written, d) ==
  IF written.state = "live" /\ written.desk = d THEN written.amount ELSE 0

Cash(rows, d) ==
  SumFunctionOnSet([m \in Books |-> rows[m].amount],
                   {m \in Books : rows[m].state = "live" /\ rows[m].desk = d})

LEMMA InsideType == \A written \in BookRows : \A d : Inside(written, d) \in Int
BY BoundsAssumption DEF BookRows, Inside

LEMMA CashIsInside ==
  ASSUME NEW rows \in [Books -> BookRows], NEW d
  PROVE  Cash(rows, d) = SumFunctionOnSet([m \in Books |-> Inside(rows[m], d)], Books)
<1> DEFINE f == [m \in Books |-> rows[m].amount]
           h == [m \in Books |-> Inside(rows[m], d)]
           A == {m \in Books : rows[m].state = "live" /\ rows[m].desk = d}
<1>1. \A m \in Books : f[m] \in Int  BY BoundsAssumption DEF BookRows
<1>2. \A m \in Books : h[m] \in Int  BY InsideType
<1>3. (\A m \in A : h[m] = f[m]) /\ (\A m \in Books \ A : h[m] = 0)  BY DEF Inside
<1>4. A \in SUBSET Books /\ IsFiniteSet(A) /\ IsFiniteSet(Books)  BY FiniteAssumption, FS_Subset
<1>5. Cash(rows, d) = SumFunctionOnSet(f, A)  BY DEF Cash
<1> HIDE DEF f, h, A
<1>6. SumFunctionOnSet(h, Books) = SumFunctionOnSet(h, A)  BY <1>2, <1>3, <1>4, SumOfSupport
<1>7. SumFunctionOnSet(h, A) = SumFunctionOnSet(f, A)
  <2>1. \A m \in A : f[m] \in Int /\ h[m] = f[m]  BY <1>1, <1>3, <1>4
  <2> QED  BY <1>4, <2>1, SumEqual
<1>8. SumFunctionOnSet(h, Books) = Cash(rows, d)  BY <1>5, <1>6, <1>7
<1> QED  BY <1>8 DEF h

LEMMA CashGrows ==
  ASSUME NEW rows \in [Books -> BookRows], NEW later \in [Books -> BookRows], NEW d,
         \A m \in Books : Inside(rows[m], d) <= Inside(later[m], d)
  PROVE  Cash(rows, d) <= Cash(later, d)
<1> DEFINE f == [m \in Books |-> Inside(rows[m], d)]
           h == [m \in Books |-> Inside(later[m], d)]
<1>1. \A m \in Books : f[m] \in Int /\ h[m] \in Int /\ f[m] <= h[m]  BY InsideType
<1>2. Cash(rows, d) = SumFunctionOnSet(f, Books) /\ Cash(later, d) = SumFunctionOnSet(h, Books)
  BY CashIsInside
<1> HIDE DEF f, h
<1> QED  BY <1>1, <1>2, FiniteAssumption, SumAtMost

LEMMA DeskGrows ==
  ASSUME TypeOK, TypeOK', NEW d \in Desks, desk'[d].opening = desk[d].opening,
         \A m \in Books : Inside(book[m], d) <= Inside(book'[m], d)
  PROVE  DeskBalance(d) <= DeskBalance(d)'
<1>1. DeskBalance(d) = desk[d].opening + Cash(book, d)  BY DEF DeskBalance, Cash, MovementsOf
<1>2. DeskBalance(d)' = desk'[d].opening + Cash(book', d)  BY DEF DeskBalance, Cash, MovementsOf
<1>3. book \in [Books -> BookRows] /\ book' \in [Books -> BookRows]  BY DEF TypeOK
<1>4. Cash(book, d) <= Cash(book', d)  BY <1>3, CashGrows
<1>5. Cash(book, d) \in Int /\ Cash(book', d) \in Int
  <2>1. ASSUME NEW rows \in [Books -> BookRows] PROVE Cash(rows, d) \in Int
    <3> DEFINE h == [m \in Books |-> Inside(rows[m], d)]
    <3>1. \A m \in Books : h[m] \in Int  BY InsideType
    <3>2. Cash(rows, d) = SumFunctionOnSet(h, Books)  BY CashIsInside
    <3> HIDE DEF h
    <3> QED  BY <3>1, <3>2, FiniteAssumption, SumType
  <2> QED  BY <1>3, <2>1
<1>6. desk[d].opening \in Int  BY DEF TypeOK, DeskRows
<1> QED  BY <1>1, <1>2, <1>4, <1>5, <1>6

LEMMA DesksGrow ==
  ASSUME TypeOK, TypeOK', OpenDesks' = OpenDesks,
         \A d \in OpenDesks : desk'[d].opening = desk[d].opening,
         \A m \in Books, d \in OpenDesks : Inside(book[m], d) <= Inside(book'[m], d)
  PROVE  Balance(CASH) <= Balance(CASH)'
<1> DEFINE f == [d \in Desks |-> DeskBalance(d)]
           h == [d \in Desks |-> DeskBalance(d)']
<1>1. OpenDesks \subseteq Desks /\ IsFiniteSet(OpenDesks)
  BY FiniteAssumption, FS_Subset DEF OpenDesks
<1>2. \A d \in OpenDesks : f[d] \in Int /\ h[d] \in Int /\ f[d] <= h[d]
  BY <1>1, DeskBalanceType, DesksTypedNext, DeskGrows
<1>3. Balance(CASH) = SumFunctionOnSet(f, OpenDesks)  BY DEF Balance
<1>4. Balance(CASH)' = SumFunctionOnSet(h, OpenDesks')  BY DEF Balance
<1> HIDE DEF f, h
<1> QED  BY <1>1, <1>2, <1>3, <1>4, SumAtMost

(* What a step of another request leaves of the source of a transfer.       *)
SourceStays(x) ==
  /\ x = CASH => OpenDesks' = OpenDesks
  /\ Balance(x) <= Balance(x)'

LEMMA SourceUntouched ==
  ASSUME IInv, IInv', NEW x \in Registers,
         x = CASH => /\ OpenDesks' = OpenDesks
                     /\ \A d \in OpenDesks : desk'[d].opening = desk[d].opening
                     /\ \A m \in Books, d \in OpenDesks : Inside(book[m], d) <= Inside(book'[m], d),
         x # CASH => account'[x] = account[x]
  PROVE  SourceStays(x)
<1>0. TypeOK /\ TypeOK'  BY DEF IInv
<1>1. CASE x = CASH  BY <1>0, <1>1, DesksGrow DEF SourceStays
<1>2. CASE x # CASH
  <2>1. Balance(x) = AccountBalance(x) /\ Balance(x)' = AccountBalance(x)'  BY <1>2 DEF Balance
  <2>2. Balance(x)' = Balance(x)  BY <1>2, <2>1 DEF AccountBalance
  <2>3. Balance(x) \in Int  BY <1>0, BalanceType
  <2> QED  BY <1>2, <2>2, <2>3 DEF SourceStays
<1> QED  BY <1>1, <1>2

LEMMA SameRows ==
  ASSUME IInv, NEW m \in Books, NEW d, book'[m] = book[m]
  PROVE  Inside(book[m], d) <= Inside(book'[m], d)
<1>1. book[m] \in BookRows  BY DEF IInv, TypeOK
<1>2. Inside(book[m], d) \in Int  BY <1>1, InsideType
<1> QED  BY <1>2

LEMMA NothingMoved ==
  ASSUME IInv, IInv', NEW x \in Registers, UNCHANGED <<desk, book, account>>
  PROVE  SourceStays(x)
<1>1. OpenDesks' = OpenDesks  BY DEF OpenDesks
<1>2. \A m \in Books, d \in OpenDesks : Inside(book[m], d) <= Inside(book'[m], d)  BY SameRows
<1> QED  BY <1>1, <1>2, SourceUntouched

(* A transfer under way has read its source x.                              *)
UnderWay(t, x) ==
  /\ t \in Sessions /\ req[t].op = "transfer" /\ req[t].stage >= 2 /\ SourceOK(req[t])
  /\ x = Asked(req[t]).from

(* What it holds, a statement that runs does not touch.                     *)
LEMMA SourceHeld ==
  ASSUME IInv, NEW t, NEW x, UnderWay(t, x)
  PROVE  /\ t \in Sessions /\ x \in Registers
         /\ x = CASH => OpenDesks # {} /\ \A d \in OpenDesks : <<"desk", d>> \in req[t].held
         /\ x # CASH => <<"account", x>> \in req[t].held
         /\ <<"number", 0>> \in req[t].held
<1>1. t \in Sessions /\ req[t].op = "transfer"  BY DEF UnderWay
<1>2. Asked(req[t]) \in Transfers  BY <1>1, Requested DEF RequestOK, TransferOK, Asked
<1>3. x \in Registers  BY <1>2, TransfersAssumption DEF UnderWay
<1> QED  BY <1>1, <1>3 DEF UnderWay, SourceOK, RowOf

LEMMA Untouched ==
  ASSUME NEW s \in Sessions, NEW t \in Sessions \ {s}, Blockers(s) = {}
  PROVE  req[t].held \cap Touched(req[s]) = {}
BY DEF Blockers, Wanted

(* A transfer that stays as it is keeps what it knows of its source.        *)
LEMMA TransferStays ==
  ASSUME IInv, IInv', NEW t \in Sessions, SourceOK(req[t]), req'[t] = req[t],
         \A x : UnderWay(t, x) => SourceStays(x)
  PROVE  SourceOK(req[t])'
<1> SUFFICES ASSUME req[t].op = "transfer", req[t].stage >= 2 PROVE SourceOK(req[t])'
  BY DEF SourceOK
<1>0. PICK x : x = Asked(req[t]).from  OBVIOUS
<1>1. UnderWay(t, x) /\ SourceStays(x)  BY <1>0 DEF UnderWay
<1>2. x \in Registers  BY <1>1, SourceHeld
<1>3. req[t].seen \in Int  BY Requested DEF Requests
<1>4. Balance(x) \in Int /\ Balance(x)' \in Int
  BY <1>2, BalanceType, BalancesTypedNext DEF IInv
<1>5. req[t].seen <= Balance(x) /\ Balance(x) <= Balance(x)'
  BY <1>0, <1>1 DEF SourceOK, UnderWay, SourceStays
<1>6. req[t].seen <= Balance(x)'  BY <1>3, <1>4, <1>5
<1>7. RowOf(x)' = RowOf(x) /\ (x = CASH => OpenDesks' = OpenDesks)
  BY <1>1 DEF RowOf, SourceStays
<1>8. Asked(req'[t]) = Asked(req[t]) /\ x = Asked(req'[t]).from  BY <1>0
<1>9. /\ <<"number", 0>> \in req[t].held /\ RowOf(x) \subseteq req[t].held
      /\ x = CASH => OpenDesks # {}
      /\ req[t].stage >= 3 /\ ~IsWire(Asked(req[t])) => Asked(req[t]).amount <= req[t].seen
  BY <1>0 DEF SourceOK
<1> QED  BY <1>6, <1>7, <1>8, <1>9 DEF SourceOK

(* The steps of others: those of users, of the cash book, of the sessions.  *)
LEMMA UsersLeaveSource ==
  ASSUME IInv, IInv', NEW t, NEW x, UnderWay(t, x),
         \/ \E d \in Desks, opening \in Openings : OpenCash(d, opening)
         \/ \E m \in Notes, a \in Amounts : UpdateCashMovement(m, a)
         \/ \E a \in Accounts, n \in {-1, 1} : PostBankTransaction(a, n)
  PROVE  SourceStays(x)
<1>0. t \in Sessions /\ x \in Registers
      /\ (x = CASH => OpenDesks # {} /\ \A d \in OpenDesks : <<"desk", d>> \in req[t].held)
      /\ (x # CASH => <<"account", x>> \in req[t].held)
  BY SourceHeld
<1>1. ASSUME NEW d \in Desks, NEW opening \in Openings, OpenCash(d, opening)
      PROVE  SourceStays(x)
  <2>1. OpenDesks = {} /\ UNCHANGED <<book, account>>  BY <1>1 DEF OpenCash
  <2> QED  BY <1>0, <2>1, SourceUntouched
<1>2. ASSUME NEW m \in Notes, NEW a \in Amounts, UpdateCashMovement(m, a) PROVE SourceStays(x)
  <2>1. UNCHANGED <<desk, account>> /\ NotHeld({<<"movement", m>>, <<"desk", book[m].desk>>})
        /\ book' = [book EXCEPT ![m].amount = IF book[m].kind = "expense" THEN -a ELSE a]
    BY <1>2 DEF UpdateCashMovement
  <2>2. OpenDesks' = OpenDesks  BY <2>1 DEF OpenDesks
  <2>3. book \in [Books -> BookRows] /\ m \in Books  BY KindsApart DEF IInv, TypeOK
  <2>4. (\A n \in Books \ {m} : book'[n] = book[n]) /\ book'[m].desk = book[m].desk
        /\ book'[m].state = book[m].state
    BY <2>1, <2>3 DEF BookRows
  <2>5. ASSUME x = CASH, NEW n \in Books, NEW d \in OpenDesks
        PROVE  Inside(book[n], d) <= Inside(book'[n], d)
    <3>1. CASE n # m  BY <2>4, <3>1, SameRows
    <3>2. CASE n = m
      <4>1. <<"desk", book[m].desk>> \notin req[t].held  BY <1>0, <2>1 DEF NotHeld
      <4>2. book[m].desk # d  BY <1>0, <2>5, <4>1
      <4>3. Inside(book[m], d) = 0 /\ Inside(book'[m], d) = 0  BY <2>4, <4>2 DEF Inside
      <4> QED  BY <3>2, <4>3
    <3> QED  BY <3>1, <3>2
  <2> QED  BY <1>0, <2>1, <2>2, <2>5, SourceUntouched
<1>3. ASSUME NEW a \in Accounts, NEW n \in {-1, 1}, PostBankTransaction(a, n) PROVE SourceStays(x)
  <2>1. UNCHANGED <<desk, book>> /\ NotHeld({<<"account", a>>})
        /\ account' = [account EXCEPT ![a].others = @ + n]
    BY <1>3 DEF PostBankTransaction
  <2>2. OpenDesks' = OpenDesks  BY <2>1 DEF OpenDesks
  <2>3. x # CASH => account'[x] = account[x]
    <3>1. x # a \/ x = CASH  BY <1>0, <2>1 DEF NotHeld
    <3> QED  BY <1>0, <2>1, <3>1 DEF IInv, TypeOK, Registers
  <2>4. \A m \in Books, d \in OpenDesks : Inside(book[m], d) <= Inside(book'[m], d)
    BY <2>1, SameRows
  <2> QED  BY <1>0, <2>1, <2>2, <2>3, <2>4, SourceUntouched
<1> QED  BY <1>1, <1>2, <1>3

(* A session that is closed or written to is not one that a transfer reads. *)
LEMMA DeskWritten ==
  ASSUME IInv, NEW s \in Sessions, NEW t, NEW x, UnderWay(t, x), t # s, Blockers(s) = {},
         <<"desk", req[s].target>> \in Touched(req[s]), x = CASH
  PROVE  req[s].target \notin OpenDesks
<1>1. t \in Sessions \ {s} /\ \A d \in OpenDesks : <<"desk", d>> \in req[t].held
  BY SourceHeld
<1>2. req[t].held \cap Touched(req[s]) = {}  BY <1>1, Untouched
<1> QED  BY <1>1, <1>2

LEMMA CashLeavesSource ==
  ASSUME IInv, IInv', NEW s \in Sessions, NEW t, NEW x, UnderWay(t, x), t # s,
         CloseCash(s) \/ RecordMovement(s) \/ ShareholderPayout(s)
  PROVE  SourceStays(x)
<1> DEFINE r == req[s]
           d0 == r.target
<1>0. t \in Sessions /\ x \in Registers  BY SourceHeld
<1>1. Blockers(s) = {} /\ <<"desk", d0>> \in Touched(r) /\ UNCHANGED account
  BY DEF CloseCash, RecordMovement, ShareholderPayout, Commits, Runs, Touched, EntryKinds
<1>2. x = CASH => d0 \notin OpenDesks  BY <1>1, DeskWritten
<1>3. book \in [Books -> BookRows] /\ desk \in [Desks -> DeskRows]  BY DEF IInv, TypeOK
<1>4. CASE CloseCash(s)
  <2>1. desk' = [desk EXCEPT ![d0] = [@ EXCEPT !.state = "closed", !.counted = r.read]] /\ book' = book
    BY <1>4 DEF CloseCash
  <2>2. ASSUME x = CASH
        PROVE  OpenDesks' = OpenDesks /\ \A d \in OpenDesks : desk'[d].opening = desk[d].opening
    <3>1. \A d \in Desks : desk'[d] = desk[d] \/ (d = d0 /\ desk'[d].state = "closed")
      BY <1>3, <2>1 DEF DeskRows
    <3>2. \A d \in OpenDesks : desk'[d] = desk[d]  BY <1>2, <1>3, <2>1, <2>2 DEF OpenDesks
    <3> QED  BY <1>2, <2>2, <3>1, <3>2 DEF OpenDesks
  <2>3. \A m \in Books, d \in OpenDesks : Inside(book[m], d) <= Inside(book'[m], d)
    BY <2>1, SameRows
  <2> QED  BY <1>0, <1>1, <2>2, <2>3, SourceUntouched
<1>5. ASSUME UNCHANGED desk, NEW made, NEW kind, NEW n,
             \A m \in Books \ made : book'[m] = book[m],
             \A m \in made : book[m].state = "none" /\ book'[m] = NewRow(d0, kind, n)
      PROVE  SourceStays(x)
  <2>1. OpenDesks' = OpenDesks  BY <1>5 DEF OpenDesks
  <2>2. ASSUME x = CASH, NEW m \in Books, NEW d \in OpenDesks
        PROVE  Inside(book[m], d) <= Inside(book'[m], d)
    <3>1. CASE m \notin made  BY <1>5, <3>1, SameRows
    <3>2. CASE m \in made
      <4>1. d # d0 /\ book'[m].desk = d0  BY <1>2, <1>5, <2>2, <3>2 DEF NewRow
      <4>2. Inside(book[m], d) = 0 /\ Inside(book'[m], d) = 0  BY <1>5, <3>2, <4>1 DEF Inside
      <4> QED  BY <4>2
    <3> QED  BY <3>1, <3>2
  <2> QED  BY <1>0, <1>1, <1>5, <2>1, <2>2, SourceUntouched
<1>6. CASE RecordMovement(s)
  <2> DEFINE signed == IF r.op = "expense" THEN -r.amount ELSE r.amount
             made == {r.id}
  <2>1. UNCHANGED desk /\ book[r.id].state = "none" /\ r.op \in EntryKinds
        /\ book' = [book EXCEPT ![r.id] = NewRow(d0, r.op, signed)]
    BY <1>6 DEF RecordMovement, Commits, Runs
  <2>2. r.id \in Books  BY <2>1, Requested, KindsApart DEF RequestOK, MovementOK
  <2> HIDE DEF signed
  <2>3. (\A m \in Books \ {r.id} : book'[m] = book[m]) /\ book'[r.id] = NewRow(d0, r.op, signed)
    BY <1>3, <2>1, <2>2
  <2>4. \A m \in made : book[m].state = "none" /\ book'[m] = NewRow(d0, r.op, signed)
    BY <2>1, <2>3
  <2>5. \A m \in Books \ made : book'[m] = book[m]  BY <2>3
  <2> HIDE DEF r, d0, made
  <2> QED  BY <1>5, <2>1, <2>4, <2>5
<1>7. CASE ShareholderPayout(s)
  <2> DEFINE made == {"line"} \X {r.key} \X r.shares
  <2>1. UNCHANGED desk /\ r.op = "payout" /\ r.stage = 3
        /\ book' = [m \in Books |-> IF m \in made THEN NewRow(d0, "payout", -r.amount) ELSE book[m]]
    BY <1>7 DEF ShareholderPayout, Commits, Runs
  <2>2. r.key \in PayoutKeys /\ batch[r.key].state = "none" /\ r.shares \subseteq Holders
    <3>1. r \in Requests /\ PayoutOK(r)  BY Requested DEF RequestOK
    <3>2. r.stage >= 2  BY <2>1
    <3> HIDE DEF r
    <3> QED  BY <2>1, <3>1, <3>2 DEF PayoutOK, Requests
  <2>3. \A h \in Holders : line[<<"line", r.key, h>>] = "none"  BY <2>2, NoLines
  <2>4. ASSUME NEW m \in made PROVE m \in Books /\ book[m].state = "none"
    <3>1. PICK h \in Holders : m = <<"line", r.key, h>>  BY <2>2
    <3>2. m \in Lines /\ line[m] = "none"  BY <2>2, <2>3, <3>1, LineIn
    <3> QED  BY <3>2, KindsApart DEF IInv, PayoutIsItsMovements, LinesFollowCash
  <2> HIDE DEF made, r, d0
  <2>5. \A m \in Books \ made : book'[m] = book[m]  BY <2>1
  <2>6. \A m \in made : book[m].state = "none" /\ book'[m] = NewRow(d0, "payout", -r.amount)
    BY <2>1, <2>4
  <2> QED  BY <1>5, <2>1, <2>5, <2>6
<1> QED  BY <1>4, <1>6, <1>7

(* What is removed from the cash book is money that went out.               *)
LEMMA TrashLeavesSource ==
  ASSUME IInv, IInv', PaymentsStay, Outgoing, NEW s \in Sessions, NEW t, NEW x, UnderWay(t, x),
         TrashMovement(s) \/ TrashPayout(s)
  PROVE  SourceStays(x)
<1> DEFINE m == req[s].id
<1>0. t \in Sessions /\ req[t].op = "transfer" /\ x \in Registers  BY SourceHeld DEF UnderWay
<1>1. UNCHANGED <<desk, account>> /\ book' = [book EXCEPT ![m].state = "trashed"]
  BY DEF TrashMovement, TrashPayout
<1>2. m \in Books /\ (book[m].state = "live" => book[m].amount <= 0)
  <2>1. CASE TrashMovement(s)
    <3>1. req[s].op = "bookTrash" /\ req[s].stage = 1 /\ Removable(m)
      BY <2>1 DEF TrashMovement, Commits, Runs, Refused, NothingToRemove
    <3>2. m \in Books  BY <3>1, Requested DEF RequestOK, MovementOK
    <3>3. book[m].kind # "payment"  BY <1>0, <3>1 DEF PaymentsStay
    <3>4. book[m].kind \in {"expense", "payout"}  BY <3>1, <3>3 DEF Removable
    <3> QED  BY <3>2, <3>4 DEF Outgoing
  <2>2. CASE TrashPayout(s)
    <3>1. m \in Lines /\ m \in Books  BY <2>2, KindsApart DEF TrashPayout
    <3> QED  BY <3>1 DEF Outgoing
  <2> QED  BY <2>1, <2>2
<1>3. book \in [Books -> BookRows]  BY DEF IInv, TypeOK
<1>4. (\A n \in Books \ {m} : book'[n] = book[n]) /\ book'[m].state = "trashed"
  BY <1>1, <1>2, <1>3 DEF BookRows
<1>5. OpenDesks' = OpenDesks  BY <1>1 DEF OpenDesks
<1> HIDE DEF m
<1>6. ASSUME NEW n \in Books, NEW d \in OpenDesks
      PROVE  Inside(book[n], d) <= Inside(book'[n], d)
  <2>1. CASE n # m  BY <1>4, <2>1, SameRows
  <2>2. CASE n = m
    <3>1. Inside(book'[m], d) = 0  BY <1>4 DEF Inside
    <3>2. Inside(book[m], d) <= 0  BY <1>2 DEF Inside
    <3> QED  BY <2>2, <3>1, <3>2
  <2> QED  BY <2>1, <2>2
<1> QED  BY <1>0, <1>1, <1>5, <1>6, SourceUntouched

(* Transfers that have read a balance wait for one another.                 *)
LEMMA OneTransfer ==
  ASSUME IInv, NEW s \in Sessions, SourceOK(req[s]), NEW t, NEW x, UnderWay(t, x), t # s,
         TreasuryTransfer(s)
  PROVE  FALSE
<1>1. req[s].op = "transfer" /\ req[s].stage = 3  BY DEF TreasuryTransfer, Commits, Runs
<1>2. UnderWay(s, Asked(req[s]).from)  BY <1>1 DEF UnderWay
<1>3. <<"number", 0>> \in req[s].held /\ <<"number", 0>> \in req[t].held
  BY <1>2, SourceHeld
<1> QED  BY <1>3 DEF UnderWay, IInv, Exclusion

(* Whoever steps, a transfer of another request keeps its source.           *)
LEMMA OthersLeaveSource ==
  ASSUME IInv, IInv', PaymentsStay, SourcesKept, [Next]_vars, NEW t, NEW x, UnderWay(t, x), req'[t] = req[t]
  PROVE  SourceStays(x)
<1>0. t \in Sessions /\ x \in Registers /\ req[t].op = "transfer"
  BY SourceHeld DEF UnderWay
<1>1. ASSUME UNCHANGED <<desk, book, account>> PROVE SourceStays(x)
  BY <1>0, <1>1, NothingMoved
<1>2. ASSUME NEW s \in Sessions, Step(s) PROVE SourceStays(x)
  <2>1. CASE Acquire(s) \/ FindDesk(s) \/ SumDesk(s) \/ CountLines(s) \/ Refuse(s)
    BY <1>1, <2>1 DEF Acquire, FindDesk, SumDesk, CountLines, Refuse, Advance
  <2>2. CASE CloseCash(s) \/ RecordMovement(s) \/ ShareholderPayout(s)
    <3>1. req[s].op # "transfer"
      BY <2>2 DEF CloseCash, RecordMovement, ShareholderPayout, Commits, Runs, EntryKinds
    <3>2. t # s  BY <1>0, <3>1
    <3> QED  BY <2>2, <3>2, CashLeavesSource
  <2>3. CASE TreasuryTransfer(s)
    <3>1. req' = [req EXCEPT ![s] = Idle]  BY <2>3 DEF TreasuryTransfer, Commits
    <3>2. req'[s].op = "none"  BY <3>1 DEF IInv, TypeOK, Idle
    <3>3. t # s  BY <1>0, <3>2
    <3> QED  BY <2>3, <3>3, OneTransfer DEF SourcesKept
  <2>4. CASE TrashMovement(s) \/ TrashPayout(s)  BY <2>4, TrashLeavesSource DEF SourcesKept
  <2> QED  BY <1>2, <2>1, <2>2, <2>3, <2>4 DEF Step
<1>3. ASSUME NEW s \in Sessions, Request(s) \/ Rollback(s) \/ DeadlockVictim(s)
      PROVE  SourceStays(x)
  BY <1>1, <1>3 DEF Request, Begin, Rollback, DeadlockVictim
<1>4. ASSUME UNCHANGED vars PROVE SourceStays(x)  BY <1>1, <1>4 DEF vars
<1> QED  BY <1>2, <1>3, <1>4, UsersLeaveSource DEF Next

(* The steps of a transfer itself.                                          *)
LEMMA SameBalance ==
  ASSUME NEW x, UNCHANGED <<desk, book, account>>
  PROVE  Balance(x)' = Balance(x) /\ RowOf(x)' = RowOf(x)
BY DEF Balance, DeskBalance, AccountBalance, MovementsOf, OpenDesks, RowOf

LEMMA ReadsSource ==
  ASSUME IInv, NEW s \in Sessions, SourceOK(req[s]), Acquire(s)
  PROVE  SourceOK(req[s])'
<1> DEFINE r == req[s]
           locked == [r EXCEPT !.held = @ \cup Locking(r)]
<1>0. r \in Requests  BY Requested
<1>a. PICK x : x = Asked(r).from  OBVIOUS
<1>1. UNCHANGED <<desk, book, account>>  BY DEF Acquire, Advance
<1>2. ASSUME NEW n, Advance(s, n), n.op # "transfer", n = locked PROVE SourceOK(req[s])'
  <2>1. req'[s] = [n EXCEPT !.stage = @ + 1]  BY <1>2 DEF Advance, IInv, TypeOK
  <2>2. req'[s].op # "transfer"  BY <1>0, <1>2, <2>1 DEF Requests
  <2> QED  BY <2>2 DEF SourceOK
<1>3. ASSUME NEW stage \in 0..2, Runs(s, "transfer", stage),
             NEW n, Advance(s, n), n = IF stage = 1 THEN [locked EXCEPT !.seen = Balance(x)] ELSE locked
      PROVE  SourceOK(req[s])'
  <2>1. r.op = "transfer" /\ r.stage = stage /\ ~NoDesk(r) /\ ~TooMuch(r)
    BY <1>3 DEF Runs, Refused
  <2>2. req'[s] = [n EXCEPT !.stage = @ + 1]  BY <1>3 DEF Advance, IInv, TypeOK
  <2>3. /\ req'[s].op = "transfer" /\ req'[s].stage = stage + 1 /\ req'[s].transfer = r.transfer
        /\ req'[s].held = r.held \cup Locking(r)
        /\ req'[s].seen = IF stage = 1 THEN Balance(x) ELSE r.seen
    BY <1>0, <1>3, <2>1, <2>2 DEF Requests
  <2>4. Asked(req'[s]) = Asked(r)  BY <2>3 DEF Asked
  <2>5. x \in Registers /\ Asked(r).amount \in Int
    <3>1. Asked(r) \in Transfers  BY <2>1, Requested DEF RequestOK, TransferOK, Asked
    <3>2. Asked(r).from \in Registers /\ Asked(r).amount \in Amounts  BY <3>1, TransfersAssumption
    <3> QED  BY <1>a, <3>2, BoundsAssumption DEF Amounts
  <2>6. Balance(x) \in Int /\ r.seen \in Int
    BY <1>0, <2>5, BalanceType DEF IInv, Requests
  <2>7. Balance(x)' = Balance(x) /\ RowOf(x)' = RowOf(x) /\ OpenDesks' = OpenDesks
    <3>1. OpenDesks' = OpenDesks  BY <1>1 DEF OpenDesks
    <3> QED  BY <1>1, <3>1, SameBalance
  <2>8. CASE stage = 0  BY <2>3, <2>8 DEF SourceOK
  <2>9. CASE stage = 1
    <3>1. Locking(r) = {<<"number", 0>>} \cup RowOf(x)
      BY <1>a, <2>1, <2>9 DEF Locking, TransferRows
    <3>2. x = CASH => OpenDesks # {}  BY <1>a, <2>1, <2>9 DEF NoDesk
    <3>3. req'[s].seen <= Balance(x)'  BY <2>3, <2>6, <2>7, <2>9
    <3> QED  BY <1>a, <2>3, <2>4, <2>7, <2>9, <3>1, <3>2, <3>3 DEF SourceOK
  <2>10. CASE stage = 2
    <3>1. /\ <<"number", 0>> \in r.held /\ RowOf(x) \subseteq r.held
          /\ x = CASH => OpenDesks # {}
          /\ r.seen <= Balance(x)
      BY <1>a, <2>1, <2>10 DEF SourceOK
    <3>2. ~IsWire(Asked(r)) => Asked(r).amount <= r.seen
      BY <2>1, <2>5, <2>6, <2>10 DEF TooMuch
    <3> QED  BY <1>a, <2>3, <2>4, <2>7, <2>10, <3>1, <3>2 DEF SourceOK
  <2> QED  BY <2>8, <2>9, <2>10
<1>4. \/ \E stage \in 0..2 :
           /\ Runs(s, "transfer", stage)
           /\ Advance(s, IF stage = 1 THEN [locked EXCEPT !.seen = Balance(x)] ELSE locked)
      \/ r.op # "transfer" /\ Advance(s, locked)
  BY <1>a DEF Acquire, Runs
<1>5. locked.op = r.op  BY <1>0 DEF Requests
<1> HIDE DEF locked
<1> QED  BY <1>2, <1>3, <1>4, <1>5

(* Every other step leaves a request that does not look at a source yet.    *)
LEMMA OwnStep ==
  ASSUME IInv, NEW s \in Sessions, SourceOK(req[s]),
         Request(s) \/ Step(s) \/ Rollback(s) \/ DeadlockVictim(s)
  PROVE  /\ SourceOK(req[s])'
         /\ \A t \in Sessions \ {s} : req'[t] = req[t]
<1>1. Idle.op = "none"  BY DEF Idle
<1>2. ASSUME NEW n, req' = [req EXCEPT ![s] = n], n.op # "transfer" \/ ~(n.stage >= 2)
      PROVE  SourceOK(req[s])' /\ \A t \in Sessions \ {s} : req'[t] = req[t]
  <2>1. req'[s] = n /\ \A t \in Sessions \ {s} : req'[t] = req[t]
    BY <1>2 DEF IInv, TypeOK
  <2> QED  BY <1>2, <2>1 DEF SourceOK
<1>3. ASSUME NEW n, Begin(s, n), n.stage = 0
      PROVE  SourceOK(req[s])' /\ \A t \in Sessions \ {s} : req'[t] = req[t]
  <2>1. req' = [req EXCEPT ![s] = n]  BY <1>3 DEF Begin
  <2>2. ~(n.stage >= 2)  BY <1>3
  <2> QED  BY <1>2, <2>1, <2>2
<1>4. ASSUME req' = [req EXCEPT ![s] = Idle]
      PROVE  SourceOK(req[s])' /\ \A t \in Sessions \ {s} : req'[t] = req[t]
  BY <1>1, <1>2, <1>4
<1>5. CASE Request(s)
  <2> DEFINE Others == SourceOK(req[s])' /\ \A t \in Sessions \ {s} : req'[t] = req[t]
  <2>1. ASSUME Begin(s, [Idle EXCEPT !.op = "close"]) PROVE Others
    <3> DEFINE n == [Idle EXCEPT !.op = "close"]
    <3>1. n.stage = 0  BY DEF Idle
    <3> HIDE DEF n
    <3>2. Begin(s, n)  BY <2>1 DEF n
    <3> QED  BY <1>3, <3>1, <3>2
  <2>2. ASSUME NEW kind, NEW m, NEW a, Begin(s, [Idle EXCEPT !.op = kind, !.id = m, !.amount = a])
        PROVE  Others
    <3> DEFINE n == [Idle EXCEPT !.op = kind, !.id = m, !.amount = a]
    <3>1. n.stage = 0  BY DEF Idle
    <3> HIDE DEF n
    <3>2. Begin(s, n)  BY <2>2 DEF n
    <3> QED  BY <1>3, <3>1, <3>2
  <2>3. ASSUME NEW op, NEW m, Begin(s, [Idle EXCEPT !.op = op, !.id = m]) PROVE Others
    <3> DEFINE n == [Idle EXCEPT !.op = op, !.id = m]
    <3>1. n.stage = 0  BY DEF Idle
    <3> HIDE DEF n
    <3>2. Begin(s, n)  BY <2>3 DEF n
    <3> QED  BY <1>3, <3>1, <3>2
  <2>4. ASSUME NEW k, NEW v, Begin(s, [Idle EXCEPT !.op = "transfer", !.key = k, !.transfer = v])
        PROVE  Others
    <3> DEFINE n == [Idle EXCEPT !.op = "transfer", !.key = k, !.transfer = v]
    <3>1. n.stage = 0  BY DEF Idle
    <3> HIDE DEF n
    <3>2. Begin(s, n)  BY <2>4 DEF n
    <3> QED  BY <1>3, <3>1, <3>2
  <2>5. ASSUME NEW k, NEW shares, NEW a,
               Begin(s, [Idle EXCEPT !.op = "payout", !.key = k, !.shares = shares, !.amount = a])
        PROVE  Others
    <3> DEFINE n == [Idle EXCEPT !.op = "payout", !.key = k, !.shares = shares, !.amount = a]
    <3>1. n.stage = 0  BY DEF Idle
    <3> HIDE DEF n
    <3>2. Begin(s, n)  BY <2>5 DEF n
    <3> QED  BY <1>3, <3>1, <3>2
  <2> HIDE DEF Others
  <2>6. Others  BY <1>5, <2>1, <2>2, <2>3, <2>4, <2>5 DEF Request
  <2> QED  BY <2>6 DEF Others
<1>6. CASE Rollback(s) \/ DeadlockVictim(s)  BY <1>4, <1>6 DEF Rollback, DeadlockVictim
<1>7. CASE Step(s)
  <2>1. CASE Acquire(s)
    <3>1. \E n : req' = [req EXCEPT ![s] = n]  BY <2>1 DEF Acquire, Advance
    <3>2. \A t \in Sessions \ {s} : req'[t] = req[t]  BY <3>1 DEF IInv, TypeOK
    <3> QED  BY <2>1, <3>2, ReadsSource
  <2>2. CASE FindDesk(s) \/ SumDesk(s) \/ CountLines(s)
    <3>0. req[s] \in Requests  BY Requested
    <3>1. req[s].op # "transfer"  BY <2>2 DEF FindDesk, SumDesk, CountLines, Runs, EntryKinds
    <3>2. \E n : req' = [req EXCEPT ![s] = n] /\ n.op = req[s].op
      BY <2>2, <3>0 DEF FindDesk, SumDesk, CountLines, Advance, Requests
    <3> QED  BY <1>2, <3>1, <3>2
  <2>3. CASE ~Acquire(s) /\ ~(FindDesk(s) \/ SumDesk(s) \/ CountLines(s))
    <3>1. req' = [req EXCEPT ![s] = Idle]
      BY <1>7, <2>3 DEF Step, Refuse, CloseCash, RecordMovement, TreasuryTransfer,
                        ShareholderPayout, TrashMovement, TrashPayout, Commits
    <3> QED  BY <1>4, <3>1
  <2> QED  BY <2>1, <2>2, <2>3
<1> QED  BY <1>5, <1>6, <1>7

(* Nothing that is written as going out brings money in.                    *)
LEMMA OutgoingKept ==
  ASSUME IInv, Outgoing, [Next]_vars PROVE Outgoing'
<1>0. book \in [Books -> BookRows]  BY DEF IInv, TypeOK
<1>1. ASSUME NEW made, \A m \in Books \ made : book'[m] = book[m],
             \A m \in Books \cap made : \/ book'[m].state # "live"
                                        \/ book'[m].amount <= 0
                                        \/ book'[m].kind \notin {"expense", "payout"} /\ m \notin Lines
      PROVE  Outgoing'
  BY <1>1 DEF Outgoing
<1>2. ASSUME UNCHANGED book PROVE Outgoing'  BY <1>2 DEF Outgoing
<1>3. ASSUME NEW x \in Books, \A m \in Books \ {x} : book'[m] = book[m],
             \/ book'[x].state # "live"
             \/ book'[x].amount <= 0
             \/ book'[x].kind \notin {"expense", "payout"} /\ x \notin Lines
      PROVE  Outgoing'
  BY <1>3 DEF Outgoing
<1>4. ASSUME NEW m \in Notes, NEW a \in Amounts, UpdateCashMovement(m, a) PROVE Outgoing'
  <2> DEFINE n == IF book[m].kind = "expense" THEN -a ELSE a
  <2>1. book' = [book EXCEPT ![m].amount = n] /\ book[m].kind \in {"income", "expense"}
    BY <1>4 DEF UpdateCashMovement
  <2>2. m \in Books /\ m \notin Lines  BY KindsApart
  <2>3. a \in Int /\ -a <= 0  BY BoundsAssumption DEF Amounts
  <2>4. book'[m].kind = book[m].kind /\ book'[m].amount = n /\ \A k \in Books \ {m} : book'[k] = book[k]
    BY <1>0, <2>1, <2>2 DEF BookRows
  <2>5. book'[m].kind = "expense" => book'[m].amount <= 0  BY <2>3, <2>4
  <2> HIDE DEF n
  <2> QED  BY <1>3, <2>1, <2>2, <2>4, <2>5
<1>5. ASSUME NEW s \in Sessions, Step(s) PROVE Outgoing'
  <2> DEFINE r == req[s]
  <2>0. r \in Requests /\ RequestOK(r) /\ r.amount \in Nat
    BY Requested, BoundsAssumption DEF Requests
  <2>1. CASE Acquire(s) \/ FindDesk(s) \/ SumDesk(s) \/ CountLines(s) \/ Refuse(s) \/ CloseCash(s)
    BY <1>2, <2>1 DEF Acquire, FindDesk, SumDesk, CountLines, Refuse, Advance, CloseCash
  <2>2. CASE RecordMovement(s)
    <3> DEFINE signed == IF r.op = "expense" THEN -r.amount ELSE r.amount
    <3>1. r.op \in EntryKinds /\ book' = [book EXCEPT ![r.id] = NewRow(r.target, r.op, signed)]
      BY <2>2 DEF RecordMovement, Commits, Runs
    <3>2. r.id \in Books /\ r.id \notin Lines  BY <2>0, <3>1, KindsApart DEF RequestOK, MovementOK
    <3>3. book'[r.id] = NewRow(r.target, r.op, signed) /\ \A k \in Books \ {r.id} : book'[k] = book[k]
      BY <1>0, <3>1, <3>2
    <3>4. book'[r.id].kind = r.op /\ book'[r.id].amount = signed  BY <3>3 DEF NewRow
    <3>5. r.op = "expense" => signed <= 0  BY <2>0
    <3>6. r.op # "payout"  BY <3>1 DEF EntryKinds
    <3> HIDE DEF r, signed
    <3> QED  BY <1>3, <3>2, <3>3, <3>4, <3>5, <3>6
  <2>3. CASE TreasuryTransfer(s)
    <3> DEFINE t == Asked(r)
               leg == IF t.from = CASH THEN -t.amount ELSE t.amount
               x == <<"leg", r.key>>
    <3>1. book' = book \/ \E d \in OpenDesks : book' = [book EXCEPT ![x] = NewRow(d, "transfer", leg)]
      BY <2>3 DEF TreasuryTransfer
    <3>2. x \in Books /\ x \notin Lines  BY <2>3, TransferKnown, LegIn, KindsApart
    <3> HIDE DEF leg, x, t
    <3>3. ASSUME NEW d, book' = [book EXCEPT ![x] = NewRow(d, "transfer", leg)] PROVE Outgoing'
      <4>1. book'[x] = NewRow(d, "transfer", leg) /\ \A k \in Books \ {x} : book'[k] = book[k]
        BY <1>0, <3>2, <3>3
      <4>2. book'[x].kind = "transfer"  BY <4>1 DEF NewRow
      <4> QED  BY <1>3, <3>2, <4>1, <4>2
    <3> QED  BY <1>2, <3>1, <3>3
  <2>4. CASE ShareholderPayout(s)
    <3> DEFINE made == {"line"} \X {r.key} \X r.shares
    <3>1. book' = [m \in Books |-> IF m \in made THEN NewRow(r.target, "payout", -r.amount) ELSE book[m]]
      BY <2>4 DEF ShareholderPayout
    <3>2. -r.amount <= 0  BY <2>0
    <3> HIDE DEF made, r
    <3>3. \A m \in Books \cap made : book'[m].amount <= 0  BY <3>1, <3>2 DEF NewRow
    <3>4. \A m \in Books \ made : book'[m] = book[m]  BY <3>1
    <3> QED  BY <1>1, <3>3, <3>4
  <2>5. CASE TrashMovement(s) \/ TrashPayout(s)
    <3>1. book' = [book EXCEPT ![r.id].state = "trashed"]  BY <2>5 DEF TrashMovement, TrashPayout
    <3>2. r.id \in Books
      BY <2>0, <2>5, KindsApart DEF TrashMovement, TrashPayout, Commits, Runs, RequestOK, MovementOK
    <3>3. book'[r.id].state = "trashed" /\ \A k \in Books \ {r.id} : book'[k] = book[k]
      BY <1>0, <3>1, <3>2 DEF BookRows
    <3> HIDE DEF r
    <3> QED  BY <1>3, <3>2, <3>3
  <2> QED  BY <1>5, <2>1, <2>2, <2>3, <2>4, <2>5 DEF Step
<1>6. ASSUME NEW s \in Sessions, Request(s) \/ Rollback(s) \/ DeadlockVictim(s) PROVE Outgoing'
  BY <1>2, <1>6 DEF Request, Begin, Rollback, DeadlockVictim
<1>7. ASSUME NEW d \in Desks, NEW o \in Openings, OpenCash(d, o) PROVE Outgoing'
  BY <1>2, <1>7 DEF OpenCash
<1>8. ASSUME NEW a \in Accounts, NEW n \in {-1, 1}, PostBankTransaction(a, n) PROVE Outgoing'
  BY <1>2, <1>8 DEF PostBankTransaction
<1>9. ASSUME UNCHANGED vars PROVE Outgoing'  BY <1>2, <1>9 DEF vars
<1> QED  BY <1>4, <1>5, <1>6, <1>7, <1>8, <1>9 DEF Next

LEMMA SourcesStart == Init => SourcesKept
<1> SUFFICES ASSUME Init PROVE SourcesKept  OBVIOUS
<1>1. Outgoing  BY DEF Init, Outgoing
<1>2. \A s \in Sessions : SourceOK(req[s])  BY DEF Init, SourceOK, Idle
<1> QED  BY <1>1, <1>2 DEF SourcesKept

LEMMA SourcesStayKept ==
  IInv /\ IInv' /\ PaymentsStay /\ SourcesKept /\ [Next]_vars => SourcesKept'
<1> SUFFICES ASSUME IInv, IInv', PaymentsStay, SourcesKept, [Next]_vars PROVE SourcesKept'
  OBVIOUS
<1>1. Outgoing'  BY OutgoingKept DEF SourcesKept
<1>2. ASSUME NEW t \in Sessions, req'[t] = req[t] PROVE SourceOK(req[t])'
  <2>1. SourceOK(req[t])  BY DEF SourcesKept
  <2>2. \A x : UnderWay(t, x) => SourceStays(x)  BY <1>2, OthersLeaveSource
  <2> QED  BY <1>2, <2>1, <2>2, TransferStays
<1>3. ASSUME NEW s \in Sessions, Request(s) \/ Step(s) \/ Rollback(s) \/ DeadlockVictim(s),
             NEW t \in Sessions
      PROVE  SourceOK(req[t])'
  <2>1. SourceOK(req[s])  BY DEF SourcesKept
  <2>2. SourceOK(req[s])' /\ \A u \in Sessions \ {s} : req'[u] = req[u]  BY <1>3, <2>1, OwnStep
  <2>3. CASE t = s  BY <2>2, <2>3
  <2>4. CASE t # s  BY <1>2, <2>2, <2>4
  <2> QED  BY <2>3, <2>4
<1>4. ASSUME UNCHANGED req, NEW t \in Sessions PROVE SourceOK(req[t])'  BY <1>2, <1>4
<1>5. \A t \in Sessions : SourceOK(req[t])'
  BY <1>3, <1>4 DEF Next, OpenCash, UpdateCashMovement, PostBankTransaction, vars
<1> QED  BY <1>1, <1>5 DEF SourcesKept

(* A transfer that is made takes no more than was read, or still is there.  *)
LEMMA WithinBalance ==
  ASSUME IInv, SourcesKept, [Next]_vars, NEW s \in Sessions, req[s].op = "transfer",
         req[s].key \in transferred' \ transferred, req'[s] = Idle
  PROVE  Asked(req[s]).amount <= Balance(Asked(req[s]).from)
<1>1. PICK u \in Sessions : TreasuryTransfer(u)
  <2>1. transferred' # transferred  OBVIOUS
  <2>2. ~(UNCHANGED transferred)  BY <2>1
  <2>3. ASSUME NEW u \in Sessions, Step(u) PROVE TreasuryTransfer(u)
    BY <2>2, <2>3 DEF Step, Acquire, FindDesk, SumDesk, CountLines, Refuse, Advance, CloseCash,
      RecordMovement, ShareholderPayout, TrashMovement, TrashPayout
  <2>4. ASSUME NEW u \in Sessions, Request(u) \/ Rollback(u) \/ DeadlockVictim(u) PROVE FALSE
    BY <2>2, <2>4 DEF Request, Begin, Rollback, DeadlockVictim
  <2> QED
    BY <2>2, <2>3, <2>4 DEF Next, OpenCash, UpdateCashMovement, PostBankTransaction, vars
<1>2. req' = [req EXCEPT ![u] = Idle] /\ req[u].stage = 3 /\ ~TooMuch(req[u])
  BY <1>1 DEF TreasuryTransfer, Commits, Runs, Refused
<1>3. u = s
  <2>1. Idle.op # "transfer"  BY DEF Idle
  <2>2. u # s => req'[s] = req[s]  BY <1>2 DEF IInv, TypeOK
  <2> QED  BY <2>1, <2>2
<1> DEFINE t == Asked(req[s])
<1>4. SourceOK(req[s]) /\ req[s].seen \in Int  BY Requested DEF SourcesKept, Requests
<1>5. t \in Transfers  BY Requested DEF RequestOK, TransferOK, Asked
<1>6. t.from \in Registers /\ t.amount \in Int
  <2> HIDE DEF t
  <2> QED  BY <1>5, TransfersAssumption, BoundsAssumption DEF Amounts
<1>7. Balance(t.from) \in Int  BY <1>6, BalanceType DEF IInv
<1>8. req[s].seen <= Balance(t.from)  BY <1>2, <1>3, <1>4 DEF SourceOK
<1>9. t.amount <= req[s].seen
  <2>1. CASE IsWire(t)  BY <1>2, <1>3, <1>4, <1>6, <2>1 DEF TooMuch
  <2>2. CASE ~IsWire(t)  BY <1>2, <1>3, <1>4, <2>2 DEF SourceOK
  <2> QED  BY <2>1, <2>2
<1> HIDE DEF t
<1>10. t.amount <= Balance(t.from)  BY <1>4, <1>6, <1>7, <1>8, <1>9
<1> QED  BY <1>10 DEF t

(* A transfer takes no more than its source holds when it is committed,     *)
(* whatever movements, payouts, closings and postings go on meanwhile       *)
(* (createTreasuryTransferInTransaction), unless the movement of a payment  *)
(* is removed at that time: the removal does not lock the session.          *)
THEOREM TransfersWithinBalance == Spec /\ []PaymentsStay => TransferWithinBalance
<1> DEFINE Taken ==
      \A s \in Sessions :
        (req[s].op = "transfer" /\ req[s].key \in transferred' \ transferred /\ req'[s] = Idle)
          => Asked(req[s]).amount <= Balance(Asked(req[s]).from)
<1>1. IInv /\ SourcesKept /\ [Next]_vars => Taken  BY WithinBalance
<1>2. Spec /\ []PaymentsStay => [][Taken]_vars
  <2> HIDE DEF Taken
  <2> QED  BY <1>1, InitHolds, NextKeeps, SourcesStart, SourcesStayKept, PTL DEF Spec
<1> QED  BY <1>2 DEF TransferWithinBalance

-----------------------------------------------------------------------------
(* The guarantee of a lease, as an instance beside the treasury.             *)

CONSTANT GuaranteeEndpoints   \* which endpoints of guarantees the clients call
VARIABLE gReq                 \* the transaction about the guarantee that each session runs

G == INSTANCE Guarantee WITH req <- gReq, Endpoints <- GuaranteeEndpoints

LEMMA OneGuarantee ==
  /\ G!Rows = Rows /\ G!Statuses = Statuses /\ G!RowRecords = RowRecords
  /\ G!RowsTypeOK <=> RowsTypeOK
  /\ \A rows, records : G!Total(rows, records) = Total(rows, records)
<1>1. G!Rows = Rows /\ G!Statuses = Statuses /\ G!RowRecords = RowRecords
  BY DEF G!Rows, Rows, G!Statuses, Statuses, G!RowRecords, RowRecords
<1>2. G!RowsTypeOK <=> RowsTypeOK  BY <1>1 DEF G!RowsTypeOK, RowsTypeOK
<1>3. \A f : G!SumFunction(f) = SumFunction(f)
  BY DEF G!SumFunction, SumFunction, G!SumFunctionOnSet, SumFunctionOnSet,
         G!FoldFunctionOnSet, FoldFunctionOnSet, G!MapThenFoldSet, MapThenFoldSet
<1>4. \A rows, records : G!Total(rows, records) = Total(rows, records)
  BY <1>3 DEF G!Total, Total
<1> QED  BY <1>1, <1>2, <1>4

(* What a row adds to the total of its kind.                                *)
Counted(record) == IF record.state = "live" THEN record.amount ELSE 0
CountedRows(rows, records) == [i \in rows |-> Counted(records[i])]

LEMMA GuaranteeRowsFinite ==
  /\ IsFiniteSet(Receipts) /\ IsFiniteSet(Refunds) /\ Receipts \cap Refunds = {}
  /\ Receipts \subseteq Rows /\ Refunds \subseteq Rows
BY GuaranteeAssumption DEF Rows

LEMMA CountedIsNat == \A record \in RowRecords : Counted(record) \in Nat
BY DEF RowRecords, Counted

LEMMA GuaranteeTotals ==
  ASSUME NEW rows, rows \subseteq Rows, IsFiniteSet(rows), NEW records \in [Rows -> RowRecords]
  PROVE  /\ \A i \in rows : CountedRows(rows, records)[i] = Counted(records[i])
         /\ \A i \in rows : CountedRows(rows, records)[i] \in Nat
         /\ Total(rows, records) = SumFunctionOnSet(CountedRows(rows, records), rows)
         /\ Total(rows, records) \in Nat
<1>1. \A i \in rows : CountedRows(rows, records)[i] = Counted(records[i])  BY DEF CountedRows
<1>2. \A i \in rows : CountedRows(rows, records)[i] \in Nat  BY <1>1, CountedIsNat
<1>3. DOMAIN CountedRows(rows, records) = rows  BY DEF CountedRows
<1>4. Total(rows, records) = SumFunction(CountedRows(rows, records))
  BY DEF Total, CountedRows, Counted
<1>5. Total(rows, records) = SumFunctionOnSet(CountedRows(rows, records), rows)
  BY <1>3, <1>4 DEF SumFunction
<1>6. SumFunctionOnSet(CountedRows(rows, records), rows) \in Nat  BY <1>2, SumNat
<1> QED  BY <1>1, <1>2, <1>5, <1>6

(* One row written changes the total of its kind by what it adds.           *)
LEMMA OneRowWritten ==
  ASSUME NEW rows, rows \subseteq Rows, IsFiniteSet(rows),
         NEW records \in [Rows -> RowRecords], NEW other \in [Rows -> RowRecords],
         NEW i \in Rows, \A j \in Rows \ {i} : other[j] = records[j]
  PROVE  /\ i \in rows =>
              Total(rows, other) = Total(rows, records) + (Counted(other[i]) - Counted(records[i]))
         /\ i \notin rows => Total(rows, other) = Total(rows, records)
<1> DEFINE f == CountedRows(rows, records)
           h == CountedRows(rows, other)
<1>2. /\ \A j \in rows : f[j] = Counted(records[j]) /\ f[j] \in Nat
      /\ Total(rows, records) = SumFunctionOnSet(f, rows)
  BY GuaranteeTotals
<1>3. /\ \A j \in rows : h[j] = Counted(other[j]) /\ h[j] \in Nat
      /\ Total(rows, other) = SumFunctionOnSet(h, rows)
  BY GuaranteeTotals
<1>4. \A j \in rows : j # i => h[j] = f[j]  BY <1>2, <1>3
<1> HIDE DEF f, h
<1>5. \A j \in rows : f[j] \in Int /\ h[j] \in Int  BY <1>2, <1>3
<1>6. ASSUME i \in rows
      PROVE  Total(rows, other) = Total(rows, records) + (Counted(other[i]) - Counted(records[i]))
  <2>1. SumFunctionOnSet(h, rows) = SumFunctionOnSet(f, rows) + (h[i] - f[i])
    BY <1>4, <1>5, <1>6, SumChangeOne
  <2> QED  BY <1>2, <1>3, <1>6, <2>1
<1>7. ASSUME i \notin rows PROVE Total(rows, other) = Total(rows, records)
  <2>1. \A j \in rows : f[j] \in Int /\ h[j] = f[j]  BY <1>4, <1>5, <1>7
  <2>2. SumFunctionOnSet(h, rows) = SumFunctionOnSet(f, rows)  BY <2>1, SumEqual
  <2> QED  BY <1>2, <1>3, <2>2
<1> QED  BY <1>6, <1>7

-----------------------------------------------------------------------------
(* Requests that meet at the guarantee are of one kind: payments queue for  *)
(* one lock and refunds for another, and the trash for a third.             *)
OneKind ==
  \A s, t \in Sessions :
    (s # t /\ gReq[s].op # "none" /\ gReq[t].op # "none") =>
       \/ gReq[s].op \in {"pay", "refund"} /\ gReq[t].op = gReq[s].op
       \/ {gReq[s].op, gReq[t].op} \subseteq {"trash", "restore"}

(* The recalculation of the trash does not see refunds by bank.             *)
NoBankRefunds ==
  \A s \in Sessions :
    gReq[s].op \in {"trash", "restore"} => \A f \in Refunds : row[f].way = "cash"

(* A receipt does not go to the trash under the refund of it.               *)
RefundsCovered ==
  (\E p \in Receipts : row[p].state = "live" /\ row'[p].state = "trashed")
    => (Total(Receipts, row) >= Total(Refunds, row))'

(* What a request carries: the row it is about, the lock it queued for, and *)
(* from the moment it has read the amount paid, that this is still so.      *)
GuaranteeRequestOK(r) ==
  /\ r.op = "pay"     => r.id \in Receipts /\ r.amount \in Nat
  /\ r.op = "refund"  => r.id \in Refunds /\ r.amount \in Nat
  /\ r.op = "trash"   => r.id \in Rows
  /\ r.op = "restore" => r.id \in Receipts
  /\ r.op \in {"pay", "refund"} /\ r.stage > 0 => <<r.op, 0>> \in r.held
  /\ r.op \in {"pay", "refund"} /\ r.stage = 2 => r.seen = paid

GuaranteeInv ==
  /\ G!TypeOK /\ PaidIsWhatRemains
  /\ \A s \in Sessions : GuaranteeRequestOK(gReq[s])
  /\ \A s, t \in Sessions : s # t => gReq[s].held \cap gReq[t].held = {}

LEMMA GuaranteeIdle == GuaranteeRequestOK(G!Idle) /\ G!Idle.op = "none" /\ G!Idle.held = {}
BY DEF GuaranteeRequestOK, G!Idle

LEMMA IdleGuarantee == G!Idle \in G!Requests
BY BoundsAssumption DEF G!Idle, G!Requests, G!AllEndpoints

LEMMA GuaranteeStarts == G!Init => GuaranteeInv
<1> SUFFICES ASSUME G!Init PROVE GuaranteeInv  OBVIOUS
<1>1. paid = 0 /\ status = "NOT_PAID"
      /\ row = [i \in Rows |-> [state |-> "none", amount |-> 0, way |-> "cash"]]
      /\ gReq = [s \in Sessions |-> G!Idle]
  BY OneGuarantee DEF G!Init
<1>2. row \in [Rows -> RowRecords]  BY <1>1 DEF RowRecords
<1>3. RowsTypeOK  BY <1>1, <1>2 DEF RowsTypeOK, Statuses
<1>4. G!TypeOK  BY <1>1, <1>3, OneGuarantee, IdleGuarantee DEF G!TypeOK
<1>5. \A i \in Rows : Counted(row[i]) = 0  BY <1>1 DEF Counted
<1>6. Total(Receipts, row) = 0 /\ Total(Refunds, row) = 0
  <2>1. ASSUME NEW rows, rows \subseteq Rows, IsFiniteSet(rows) PROVE Total(rows, row) = 0
    <3>1. /\ \A i \in rows : CountedRows(rows, row)[i] = Counted(row[i])
          /\ Total(rows, row) = SumFunctionOnSet(CountedRows(rows, row), rows)
      BY <1>2, <2>1, GuaranteeTotals
    <3>2. \A i \in rows : CountedRows(rows, row)[i] = 0  BY <1>5, <2>1, <3>1
    <3> QED  BY <2>1, <3>1, <3>2, SumZero
  <2> QED  BY <2>1, GuaranteeRowsFinite
<1>7. PaidIsWhatRemains  BY <1>1, <1>6 DEF PaidIsWhatRemains
<1> QED  BY <1>1, <1>4, <1>7, GuaranteeIdle DEF GuaranteeInv

(* A step that rewrites one request and no row.                             *)
LEMMA GuaranteeRequestStep ==
  ASSUME GuaranteeInv, NEW s \in Sessions, NEW r \in G!Requests, GuaranteeRequestOK(r),
         gReq' = [gReq EXCEPT ![s] = r], UNCHANGED <<paid, status, row>>,
         \A t \in Sessions \ {s} : gReq[t].held \cap r.held = {}
  PROVE  GuaranteeInv'
<1>1. gReq \in [Sessions -> G!Requests]  BY DEF GuaranteeInv, G!TypeOK
<1>2. gReq' \in [Sessions -> G!Requests] /\ gReq'[s] = r
      /\ \A t \in Sessions \ {s} : gReq'[t] = gReq[t]
  BY <1>1
<1>3. G!TypeOK'  BY <1>2 DEF GuaranteeInv, G!TypeOK, G!RowsTypeOK
<1>4. PaidIsWhatRemains'  BY DEF GuaranteeInv, PaidIsWhatRemains
<1>5. ASSUME NEW t \in Sessions PROVE GuaranteeRequestOK(gReq[t])'
  BY <1>2 DEF GuaranteeInv, GuaranteeRequestOK
<1>6. \A t, u \in Sessions : t # u => gReq'[t].held \cap gReq'[u].held = {}
  BY <1>2 DEF GuaranteeInv
<1> QED  BY <1>3, <1>4, <1>5, <1>6 DEF GuaranteeInv

(* Nobody else has read the amount paid when a request writes it.           *)
LEMMA NobodyHasRead ==
  ASSUME GuaranteeInv, OneKind, NEW s \in Sessions, NEW t \in Sessions, s # t,
         gReq[s].op # "none", gReq[s].stage = 2, gReq[t].op \in {"pay", "refund"}
  PROVE  gReq[t].stage # 2
<1> SUFFICES ASSUME gReq[t].stage = 2 PROVE FALSE  OBVIOUS
<1>1. gReq[s].op \in {"pay", "refund"} /\ gReq[t].op = gReq[s].op  BY DEF OneKind
<1>2. <<gReq[s].op, 0>> \in gReq[s].held  BY <1>1 DEF GuaranteeInv, GuaranteeRequestOK
<1>3. <<gReq[t].op, 0>> \in gReq[t].held  BY <1>1 DEF GuaranteeInv, GuaranteeRequestOK
<1> QED  BY <1>1, <1>2, <1>3 DEF GuaranteeInv

(* A request that writes its row and the amount paid, and ends.             *)
LEMMA GuaranteeWriteStep ==
  ASSUME GuaranteeInv, OneKind, NEW s \in Sessions, gReq[s].op # "none", gReq[s].stage = 2,
         NEW i \in Rows, NEW record \in RowRecords, row' = [row EXCEPT ![i] = record],
         paid' \in Nat, status' \in Statuses, PaidIsWhatRemains',
         gReq' = [gReq EXCEPT ![s] = G!Idle]
  PROVE  GuaranteeInv'
<1>1. gReq \in [Sessions -> G!Requests] /\ row \in [Rows -> RowRecords]
  BY OneGuarantee DEF GuaranteeInv, G!TypeOK, RowsTypeOK
<1>2. gReq' \in [Sessions -> G!Requests] /\ gReq'[s] = G!Idle
      /\ \A t \in Sessions \ {s} : gReq'[t] = gReq[t]
  BY <1>1, IdleGuarantee
<1>3. row' \in [Rows -> RowRecords]  BY <1>1
<1>4. G!TypeOK'
  <2>1. paid' \in Nat /\ status' \in G!Statuses /\ row' \in [G!Rows -> G!RowRecords]
    BY <1>3, OneGuarantee
  <2> QED  BY <1>2, <2>1 DEF G!TypeOK, G!RowsTypeOK
<1>5. ASSUME NEW t \in Sessions PROVE GuaranteeRequestOK(gReq[t])'
  <2>1. CASE t = s  BY <1>2, <2>1, GuaranteeIdle DEF GuaranteeRequestOK
  <2>2. CASE t # s
    <3>1. gReq[t].op \in {"pay", "refund"} => gReq[t].stage # 2  BY <2>2, NobodyHasRead
    <3>2. GuaranteeRequestOK(gReq[t])  BY DEF GuaranteeInv
    <3> QED  BY <1>2, <2>2, <3>1, <3>2 DEF GuaranteeRequestOK
  <2> QED  BY <2>1, <2>2
<1>6. \A t, u \in Sessions : t # u => gReq'[t].held \cap gReq'[u].held = {}
  BY <1>2, GuaranteeIdle DEF GuaranteeInv
<1> QED  BY <1>4, <1>5, <1>6 DEF GuaranteeInv

LEMMA GuaranteeRequested ==
  ASSUME GuaranteeInv, NEW s \in Sessions
  PROVE  /\ gReq[s] \in G!Requests /\ GuaranteeRequestOK(gReq[s])
         /\ gReq \in [Sessions -> G!Requests] /\ row \in [Rows -> RowRecords]
         /\ paid \in Nat /\ status \in Statuses /\ paid = Total(Receipts, row) - Total(Refunds, row)
BY OneGuarantee DEF GuaranteeInv, G!TypeOK, RowsTypeOK, PaidIsWhatRemains

LEMMA GuaranteeAdvanced ==
  ASSUME NEW r \in G!Requests, NEW stage \in 0..2, NEW seen \in Nat, NEW held \in SUBSET G!RowLocks
  PROVE  [r EXCEPT !.stage = stage, !.seen = seen, !.held = held] \in G!Requests
BY DEF G!Requests

LEMMA GuaranteeBegins ==
  ASSUME GuaranteeInv, NEW s \in Sessions, G!Request(s)
  PROVE  GuaranteeInv' /\ UNCHANGED row
<1>1. ASSUME NEW r \in G!Requests, r.stage = 0, r.held = {}, G!Begin(s, r),
             r.op = "pay" => r.id \in Receipts /\ r.amount \in Nat,
             r.op = "refund" => r.id \in Refunds /\ r.amount \in Nat,
             r.op = "trash" => r.id \in Rows, r.op = "restore" => r.id \in Receipts
      PROVE  GuaranteeInv' /\ UNCHANGED row
  <2>1. GuaranteeRequestOK(r)  BY <1>1 DEF GuaranteeRequestOK
  <2>2. gReq' = [gReq EXCEPT ![s] = r] /\ UNCHANGED <<paid, status, row>>
    BY <1>1 DEF G!Begin
  <2> QED  BY <1>1, <2>1, <2>2, GuaranteeRequestStep
<1>2. /\ Receipts \subseteq Rows /\ Refunds \subseteq Rows /\ G!Rows = Rows
      /\ \A a \in G!Amounts : a \in Nat /\ a \in 0..MaxAmount
  BY GuaranteeRowsFinite, OneGuarantee, BoundsAssumption DEF G!Amounts
<1>3. /\ {"pay", "refund", "trash", "restore"} \subseteq G!AllEndpoints
      /\ G!Idle \in G!Requests /\ G!Idle.stage = 0 /\ G!Idle.held = {}
  BY IdleGuarantee DEF G!AllEndpoints, G!Idle
<1>4. ASSUME NEW p \in Receipts, NEW a \in G!Amounts,
             G!Begin(s, [G!Idle EXCEPT !.op = "pay", !.id = p, !.amount = a])
      PROVE  GuaranteeInv' /\ UNCHANGED row
  <2> DEFINE r == [G!Idle EXCEPT !.op = "pay", !.id = p, !.amount = a]
  <2>1. /\ r \in G!Requests /\ r.op = "pay" /\ r.id = p /\ r.amount = a
        /\ r.stage = 0 /\ r.held = {}
    BY <1>2, <1>3, OneGuarantee DEF G!Requests
  <2> HIDE DEF r
  <2> QED  BY <1>1, <1>2, <1>4, <2>1 DEF r
<1>5. ASSUME NEW f \in Refunds, NEW a \in G!Amounts, NEW way \in Ways,
             G!Begin(s, [G!Idle EXCEPT !.op = "refund", !.id = f, !.amount = a, !.way = way])
      PROVE  GuaranteeInv' /\ UNCHANGED row
  <2> DEFINE r == [G!Idle EXCEPT !.op = "refund", !.id = f, !.amount = a, !.way = way]
  <2>1. /\ r \in G!Requests /\ r.op = "refund" /\ r.id = f /\ r.amount = a
        /\ r.stage = 0 /\ r.held = {}
    BY <1>2, <1>3, GuaranteeAssumption, OneGuarantee DEF G!Requests
  <2> HIDE DEF r
  <2> QED  BY <1>1, <1>2, <1>5, <2>1 DEF r
<1>6. ASSUME NEW op \in {"trash", "restore"}, NEW i \in Rows, op = "restore" => i \in Receipts,
             G!Begin(s, [G!Idle EXCEPT !.op = op, !.id = i])
      PROVE  GuaranteeInv' /\ UNCHANGED row
  <2> DEFINE r == [G!Idle EXCEPT !.op = op, !.id = i]
  <2>1. r \in G!Requests /\ r.op = op /\ r.id = i /\ r.stage = 0 /\ r.held = {}
    BY <1>3, OneGuarantee DEF G!Requests
  <2> HIDE DEF r
  <2> QED  BY <1>1, <1>6, <2>1 DEF r
<1> QED  BY <1>2, <1>4, <1>5, <1>6 DEF G!Request, G!Unused

LEMMA GuaranteeWaits ==
  ASSUME GuaranteeInv, NEW s \in Sessions,
         G!Acquire(s) \/ G!ReadGuarantee(s) \/ G!Rollback(s)
  PROVE  GuaranteeInv' /\ UNCHANGED row
<1> DEFINE r == gReq[s]
<1>0. r \in G!Requests /\ GuaranteeRequestOK(r) /\ gReq \in [Sessions -> G!Requests]
  BY GuaranteeRequested
<1>1. CASE G!Acquire(s)
  <2> DEFINE next == [r EXCEPT !.stage = @ + 1, !.held = @ \cup G!Locking(r)]
  <2>1. /\ r.op \in {"pay", "refund", "trash", "restore"} /\ r.stage \in {0, 1}
        /\ r.op \in {"pay", "refund"} => r.stage = 0
        /\ \A t \in Sessions \ {s} : gReq[t].held \cap G!Locking(r) = {}
        /\ gReq' = [gReq EXCEPT ![s] = next] /\ UNCHANGED <<paid, status, row>>
    <3>1. /\ \/ r.op \in {"pay", "refund", "trash", "restore"} /\ r.stage = 0
             \/ r.op \in {"trash", "restore"} /\ r.stage = 1
          /\ \A t \in Sessions \ {s} : gReq[t].held \cap G!Wanted(r) = {}
          /\ UNCHANGED <<paid, status, row>>
      BY <1>1 DEF G!Acquire, G!Runs
    <3>2. G!Wanted(r) = G!Locking(r)  BY <3>1 DEF G!Wanted
    <3>3. gReq' = [gReq EXCEPT ![s] = next]  BY <1>0, <1>1 DEF G!Acquire
    <3> QED  BY <3>1, <3>2, <3>3
  <2>2. r.op \in {"pay", "refund"} => <<r.op, 0>> \in G!Locking(r)
    BY <2>1 DEF G!Locking
  <2>3. G!Locking(r) \subseteq G!RowLocks
    <3>1. r.op \in {"trash", "restore"} => r.id \in G!Rows
      BY <1>0, OneGuarantee, GuaranteeRowsFinite DEF GuaranteeRequestOK
    <3> QED  BY <2>1, <3>1 DEF G!Locking, G!RowLocks
  <2>4. next.stage = r.stage + 1 /\ next.held = r.held \cup G!Locking(r) /\ next.op = r.op
        /\ next.id = r.id /\ next.amount = r.amount
    BY <1>0 DEF G!Requests
  <2>5. next \in G!Requests
    <3> DEFINE held == r.held \cup G!Locking(r)
    <3>1. r.stage + 1 \in 0..2 /\ r.seen \in Nat /\ held \in SUBSET G!RowLocks
      BY <1>0, <2>1, <2>3 DEF G!Requests
    <3>2. next = [r EXCEPT !.stage = r.stage + 1, !.seen = r.seen, !.held = held]
      BY <1>0 DEF G!Requests
    <3> HIDE DEF next, held
    <3> QED  BY <1>0, <3>1, <3>2, GuaranteeAdvanced
  <2> HIDE DEF next
  <2>6. GuaranteeRequestOK(next)  BY <1>0, <2>1, <2>2, <2>4 DEF GuaranteeRequestOK
  <2>7. \A t \in Sessions \ {s} : gReq[t].held \cap next.held = {}
    BY <2>1, <2>4 DEF GuaranteeInv
  <2> QED  BY <2>1, <2>5, <2>6, <2>7, GuaranteeRequestStep
<1>2. CASE G!ReadGuarantee(s)
  <2> DEFINE next == [r EXCEPT !.stage = 2, !.seen = paid]
  <2>1. /\ r.op \in {"pay", "refund"} /\ r.stage = 1
        /\ gReq' = [gReq EXCEPT ![s] = next] /\ UNCHANGED <<paid, status, row>>
    BY <1>2 DEF G!ReadGuarantee, G!Runs
  <2>2. next.stage = 2 /\ next.held = r.held /\ next.op = r.op /\ next.seen = paid
        /\ next.id = r.id /\ next.amount = r.amount
    BY <1>0 DEF G!Requests
  <2>3. next \in G!Requests
    <3>1. 2 \in 0..2 /\ paid \in Nat /\ r.held \in SUBSET G!RowLocks
      BY <1>0, GuaranteeRequested DEF G!Requests
    <3>2. next = [r EXCEPT !.stage = 2, !.seen = paid, !.held = r.held]
      BY <1>0 DEF G!Requests
    <3> HIDE DEF next
    <3> QED  BY <1>0, <3>1, <3>2, GuaranteeAdvanced
  <2> HIDE DEF next
  <2>4. GuaranteeRequestOK(next)  BY <1>0, <2>1, <2>2 DEF GuaranteeRequestOK
  <2>5. \A t \in Sessions \ {s} : gReq[t].held \cap next.held = {}
    BY <2>2 DEF GuaranteeInv
  <2> QED  BY <2>1, <2>3, <2>4, <2>5, GuaranteeRequestStep
<1>3. CASE G!Rollback(s)
  <2>1. gReq' = [gReq EXCEPT ![s] = G!Idle] /\ UNCHANGED <<paid, status, row>>
    BY <1>3 DEF G!Rollback
  <2> QED  BY <2>1, IdleGuarantee, GuaranteeIdle, GuaranteeRequestStep
<1> QED  BY <1>1, <1>2, <1>3

(* A payment or a refund goes by the amount it has read, and this is the    *)
(* amount that is paid.                                                     *)
LEMMA GuaranteePaid ==
  ASSUME GuaranteeInv, OneKind, NEW s \in Sessions, G!PayGuarantee(s)
  PROVE  GuaranteeInv' /\ (Total(Receipts, row) - Total(Refunds, row))' <= Due
<1> DEFINE r == gReq[s]
           record == [state |-> "live", amount |-> r.amount, way |-> "cash"]
<1>1. /\ r.op = "pay" /\ r.stage = 2 /\ gReq' = [gReq EXCEPT ![s] = G!Idle]
      /\ r.seen + r.amount <= Due /\ row[r.id].state = "none" /\ paid' = r.seen + r.amount
      /\ status' = IF r.seen + r.amount >= Due THEN "PAID" ELSE "PARTIAL"
      /\ row' = [row EXCEPT ![r.id] = record]
  BY DEF G!PayGuarantee, G!Commits, G!Runs
<1>2. /\ r.id \in Receipts /\ r.amount \in Nat /\ r.seen = paid
      /\ paid \in Nat /\ row \in [Rows -> RowRecords]
      /\ paid = Total(Receipts, row) - Total(Refunds, row)
  BY <1>1, GuaranteeRequested DEF GuaranteeRequestOK
<1>3. record \in RowRecords /\ Counted(record) = r.amount  BY <1>2 DEF RowRecords, Counted
<1>4. Counted(row[r.id]) = 0  BY <1>1 DEF Counted
<1>5. r.id \in Rows /\ r.id \notin Refunds  BY <1>2, GuaranteeRowsFinite
<1> HIDE DEF record
<1>6. /\ Total(Receipts, row)' = Total(Receipts, row) + r.amount
      /\ Total(Refunds, row)' = Total(Refunds, row)
  <2> DEFINE rows == row'
  <2>0. /\ rows \in [Rows -> RowRecords] /\ rows[r.id] = record
        /\ \A i \in Rows \ {r.id} : rows[i] = row[i]
    BY <1>1, <1>2, <1>3, <1>5
  <2> HIDE DEF rows
  <2>1. Total(Receipts, rows) = Total(Receipts, row) + (Counted(record) - Counted(row[r.id]))
    BY <1>2, <1>5, <2>0, GuaranteeRowsFinite, OneRowWritten
  <2>2. Total(Refunds, rows) = Total(Refunds, row)
    BY <1>2, <1>5, <2>0, GuaranteeRowsFinite, OneRowWritten
  <2> QED  BY <1>2, <1>3, <1>4, <2>1, <2>2 DEF rows
<1>7. Total(Receipts, row) \in Nat /\ Total(Refunds, row) \in Nat
  BY <1>2, GuaranteeRowsFinite, GuaranteeTotals
<1>8. PaidIsWhatRemains' /\ (Total(Receipts, row) - Total(Refunds, row))' <= Due
  BY <1>1, <1>2, <1>6, <1>7, GuaranteeAssumption DEF PaidIsWhatRemains
<1>9. paid' \in Nat /\ status' \in Statuses  BY <1>1, <1>2 DEF Statuses
<1> QED  BY <1>1, <1>3, <1>5, <1>8, <1>9, GuaranteeWriteStep

LEMMA GuaranteeRefunded ==
  ASSUME GuaranteeInv, OneKind, NEW s \in Sessions, G!RefundGuarantee(s)
  PROVE  GuaranteeInv' /\ \A p \in Receipts : row'[p] = row[p]
<1> DEFINE r == gReq[s]
           record == [state |-> "live", amount |-> r.amount, way |-> r.way]
<1>0. r \in G!Requests  BY GuaranteeRequested
<1>1. /\ r.op = "refund" /\ r.stage = 2 /\ gReq' = [gReq EXCEPT ![s] = G!Idle]
      /\ r.amount <= r.seen /\ row[r.id].state = "none" /\ paid' = G!AtLeast0(r.seen - r.amount)
      /\ status' \in {"PAID", "PARTIAL", "REFUNDED"}
      /\ row' = [row EXCEPT ![r.id] = record]
  BY DEF G!RefundGuarantee, G!Commits, G!Runs
<1>2. /\ r.id \in Refunds /\ r.amount \in Nat /\ r.seen = paid
      /\ paid \in Nat /\ row \in [Rows -> RowRecords]
      /\ paid = Total(Receipts, row) - Total(Refunds, row)
  BY <1>1, GuaranteeRequested DEF GuaranteeRequestOK
<1>3. record \in RowRecords /\ Counted(record) = r.amount
  BY <1>0, <1>2 DEF RowRecords, Counted, G!Requests
<1>4. Counted(row[r.id]) = 0  BY <1>1 DEF Counted
<1>5. r.id \in Rows /\ r.id \notin Receipts  BY <1>2, GuaranteeRowsFinite
<1> HIDE DEF record
<1>6. /\ Total(Refunds, row)' = Total(Refunds, row) + r.amount
      /\ Total(Receipts, row)' = Total(Receipts, row)
  <2> DEFINE rows == row'
  <2>0. /\ rows \in [Rows -> RowRecords] /\ rows[r.id] = record
        /\ \A i \in Rows \ {r.id} : rows[i] = row[i]
    BY <1>1, <1>2, <1>3, <1>5
  <2> HIDE DEF rows
  <2>1. Total(Refunds, rows) = Total(Refunds, row) + (Counted(record) - Counted(row[r.id]))
    BY <1>2, <1>5, <2>0, GuaranteeRowsFinite, OneRowWritten
  <2>2. Total(Receipts, rows) = Total(Receipts, row)
    BY <1>2, <1>5, <2>0, GuaranteeRowsFinite, OneRowWritten
  <2> QED  BY <1>2, <1>3, <1>4, <2>1, <2>2 DEF rows
<1>7. Total(Receipts, row) \in Nat /\ Total(Refunds, row) \in Nat
  BY <1>2, GuaranteeRowsFinite, GuaranteeTotals
<1>8. paid' = paid - r.amount /\ paid' \in Nat  BY <1>1, <1>2 DEF G!AtLeast0
<1>9. PaidIsWhatRemains'  BY <1>2, <1>6, <1>7, <1>8 DEF PaidIsWhatRemains
<1>10. status' \in Statuses  BY <1>1 DEF Statuses
<1>11. \A p \in Receipts : row'[p] = row[p]  BY <1>1, <1>2, <1>5, GuaranteeRowsFinite
<1> QED  BY <1>1, <1>3, <1>5, <1>8, <1>9, <1>10, <1>11, GuaranteeWriteStep

(* The trash adds all rows up again, and sees them all.                     *)
LEMMA GuaranteeFlipped ==
  ASSUME GuaranteeInv, OneKind, NoBankRefunds, RefundsCovered \/ UNCHANGED row,
         NEW s \in Sessions, G!Trash(s) \/ G!Restore(s)
  PROVE  GuaranteeInv' /\ \A p \in Receipts : row[p].state = "none" => row'[p] = row[p]
<1> DEFINE r == gReq[s]
           from == IF G!Trash(s) THEN "live" ELSE "trashed"
           to == IF G!Trash(s) THEN "trashed" ELSE "live"
           record == [row[r.id] EXCEPT !.state = to]
<1>1. /\ r.op \in {"trash", "restore"} /\ r.stage = 2 /\ gReq' = [gReq EXCEPT ![s] = G!Idle]
      /\ r.op = "trash" => row[r.id].state = "live" /\ to = "trashed"
      /\ r.op = "restore" => row[r.id].state = "trashed" /\ to = "live"
      /\ row' = [row EXCEPT ![r.id] = record]
      /\ paid' = G!Recalculate(row') /\ status' \in {"PAID", "PARTIAL", "NOT_PAID"}
  BY DEF G!Trash, G!Restore, G!Flip, G!Commits, G!Runs
<1>2. /\ r.id \in Rows /\ (r.op = "restore" => r.id \in Receipts)
      /\ paid \in Nat /\ row \in [Rows -> RowRecords]
      /\ paid = Total(Receipts, row) - Total(Refunds, row)
  BY <1>1, GuaranteeRequested, GuaranteeRowsFinite DEF GuaranteeRequestOK
<1>3. record \in RowRecords /\ record.way = row[r.id].way /\ record.state = to
      /\ record.amount = row[r.id].amount
  BY <1>1, <1>2 DEF RowRecords
<1>4. Counted(record) \in Nat /\ Counted(row[r.id]) \in Nat
  BY <1>2, <1>3, CountedIsNat
<1>5. /\ r.op = "trash" => Counted(record) = 0
      /\ r.op = "restore" => Counted(row[r.id]) = 0
  BY <1>1, <1>3 DEF Counted
<1> HIDE DEF record, to, from
<1>6. /\ row' \in [Rows -> RowRecords] /\ row'[r.id] = record
      /\ \A i \in Rows \ {r.id} : row'[i] = row[i]
  BY <1>1, <1>2, <1>3
<1>7. \A f \in Refunds : row'[f].way = "cash"
  BY <1>1, <1>2, <1>3, <1>6, GuaranteeRowsFinite DEF NoBankRefunds
<1>8. paid' = G!AtLeast0(Total(Receipts, row') - Total(Refunds, row'))
  <2>1. {f \in Refunds : row'[f].way = "cash"} = Refunds  BY <1>7
  <2> QED  BY <1>1, <2>1, OneGuarantee DEF G!Recalculate
<1>9. /\ Total(Receipts, row) \in Nat /\ Total(Refunds, row) \in Nat
      /\ Total(Receipts, row') \in Nat /\ Total(Refunds, row') \in Nat
  BY <1>2, <1>6, GuaranteeRowsFinite, GuaranteeTotals
<1>10. Total(Receipts, row') >= Total(Refunds, row')
  <2> DEFINE rows == row'
  <2>0. /\ rows \in [Rows -> RowRecords] /\ rows[r.id] = record
        /\ \A i \in Rows \ {r.id} : rows[i] = row[i]
    BY <1>6
  <2> HIDE DEF rows
  <2>1. CASE r.id \in Refunds
    <3>1. r.op = "trash" /\ r.id \notin Receipts  BY <1>1, <1>2, <2>1, GuaranteeRowsFinite
    <3>2. Total(Refunds, rows) = Total(Refunds, row) + (Counted(record) - Counted(row[r.id]))
      BY <1>2, <2>0, <2>1, GuaranteeRowsFinite, OneRowWritten
    <3>3. Total(Receipts, rows) = Total(Receipts, row)
      BY <1>2, <2>0, <3>1, GuaranteeRowsFinite, OneRowWritten
    <3> QED  BY <1>2, <1>4, <1>5, <1>9, <3>1, <3>2, <3>3 DEF rows
  <2>2. CASE r.id \in Receipts /\ r.op = "trash"
    <3>1. row[r.id].state = "live" /\ row'[r.id].state = "trashed"  BY <1>1, <1>3, <1>6, <2>2
    <3>2. RefundsCovered  BY <3>1
    <3> QED  BY <2>2, <3>1, <3>2 DEF RefundsCovered
  <2>3. CASE r.id \in Receipts /\ r.op = "restore"
    <3>1. r.id \notin Refunds  BY <2>3, GuaranteeRowsFinite
    <3>2. Total(Receipts, rows) = Total(Receipts, row) + (Counted(record) - Counted(row[r.id]))
      BY <1>2, <2>0, <2>3, GuaranteeRowsFinite, OneRowWritten
    <3>3. Total(Refunds, rows) = Total(Refunds, row)
      BY <1>2, <2>0, <3>1, GuaranteeRowsFinite, OneRowWritten
    <3> QED  BY <1>2, <1>4, <1>5, <1>9, <2>3, <3>2, <3>3 DEF rows
  <2> QED  BY <1>1, <1>2, <2>1, <2>2, <2>3 DEF Rows
<1>11. paid' \in Nat /\ PaidIsWhatRemains'
  BY <1>8, <1>9, <1>10 DEF G!AtLeast0, PaidIsWhatRemains
<1>12. status' \in Statuses  BY <1>1 DEF Statuses
<1>13. \A p \in Receipts : row[p].state = "none" => row'[p] = row[p]
  BY <1>1, <1>6, GuaranteeRowsFinite
<1> QED  BY <1>1, <1>2, <1>3, <1>11, <1>12, <1>13, GuaranteeWriteStep

LEMMA GuaranteeNext ==
  ASSUME GuaranteeInv, OneKind, NoBankRefunds, RefundsCovered \/ UNCHANGED row,
         [G!Next]_G!vars
  PROVE  /\ GuaranteeInv'
         /\ \A p \in Receipts :
              (row[p].state = "none" /\ row'[p].state = "live")
                => (Total(Receipts, row) - Total(Refunds, row))' <= Due
<1>1. CASE UNCHANGED G!vars
  <2>1. UNCHANGED <<paid, status, row, gReq>>  BY <1>1 DEF G!vars
  <2>2. GuaranteeInv'
    BY <2>1 DEF GuaranteeInv, G!TypeOK, G!RowsTypeOK, PaidIsWhatRemains, GuaranteeRequestOK
  <2> QED  BY <2>1, <2>2
<1>2. ASSUME NEW s \in Sessions, G!Request(s) PROVE GuaranteeInv' /\ UNCHANGED row
  BY <1>2, GuaranteeBegins
<1>3. ASSUME NEW s \in Sessions, G!Acquire(s) \/ G!ReadGuarantee(s) \/ G!Rollback(s)
      PROVE  GuaranteeInv' /\ UNCHANGED row
  BY <1>3, GuaranteeWaits
<1>4. ASSUME NEW s \in Sessions, G!PayGuarantee(s)
      PROVE  GuaranteeInv' /\ (Total(Receipts, row) - Total(Refunds, row))' <= Due
  BY <1>4, GuaranteePaid
<1>5. ASSUME NEW s \in Sessions, G!RefundGuarantee(s)
      PROVE  GuaranteeInv' /\ \A p \in Receipts : row'[p] = row[p]
  BY <1>5, GuaranteeRefunded
<1>6. ASSUME NEW s \in Sessions, G!Trash(s) \/ G!Restore(s)
      PROVE  GuaranteeInv' /\ \A p \in Receipts : row[p].state = "none" => row'[p] = row[p]
  BY <1>6, GuaranteeFlipped
<1> QED  BY <1>1, <1>2, <1>3, <1>4, <1>5, <1>6 DEF G!Next

(* The amount shown as paid is what the receipts and the refunds leave, and *)
(* payments made at once never exceed what is due: for any rows, amounts    *)
(* and sessions, as long as the requests that meet are of one kind and the  *)
(* trash finds no refund by bank and takes no receipt under its refund      *)
(* (payLeaseGuarantee, refundLeaseGuarantee,                                *)
(* recalculateLeaseGuaranteeFromActiveRows).                                *)
THEOREM GuaranteeIsKept ==
  G!Spec /\ [](OneKind /\ NoBankRefunds) /\ [][RefundsCovered]_row => GuaranteeFollows
<1>1. G!Init => GuaranteeInv  BY GuaranteeStarts
<1>2. GuaranteeInv /\ OneKind /\ NoBankRefunds /\ [RefundsCovered]_row /\ [G!Next]_G!vars
        => GuaranteeInv'
  BY GuaranteeNext
<1>3. GuaranteeInv /\ OneKind /\ NoBankRefunds /\ [RefundsCovered]_row /\ [G!Next]_G!vars
        => [\A p \in Receipts :
              (row[p].state = "none" /\ row'[p].state = "live")
                => (Total(Receipts, row) - Total(Refunds, row))' <= Due]_<<paid, status, row>>
  BY GuaranteeNext
<1>4. GuaranteeInv => RowsTypeOK /\ PaidIsWhatRemains
  BY OneGuarantee DEF GuaranteeInv, G!TypeOK
<1> QED  BY <1>1, <1>2, <1>3, <1>4, PTL DEF G!Spec, GuaranteeFollows, PaymentsWithinDue
===============================================================================

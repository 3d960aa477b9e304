------------------------------- MODULE Treasury -------------------------------
(***************************************************************************)
(* The cash desk and the treasury of saas.service.ts: cash sessions that   *)
(* open and close, the movements of the cash book, transfers between the   *)
(* desk and bank accounts, payouts to shareholders, and the removal of     *)
(* movements and payouts to the trash.                                     *)
(*                                                                         *)
(* Every request is a READ COMMITTED transaction.  A SELECT ... FOR UPDATE *)
(* takes rows to COMMIT; an INSERT that refers to a row waits for those    *)
(* who hold it, but two INSERTs do not wait for each other.  What a        *)
(* request has read, and acts on later, is kept in the request.            *)
(***************************************************************************)
EXTENDS Integers, FiniteSets, Functions

CONSTANTS
  Sessions,      \* concurrent requests
  Desks,         \* cash_sessions, numbered from 1
  Accounts,      \* bank accounts, all active and in one currency
  Entries,       \* movements written by hand or for a payment
  TransferKeys,  \* idempotency keys of transfers
  PayoutKeys,    \* idempotency keys of payouts
  Holders,       \* shareholders
  Transfers,     \* bound: the transfers asked for, [from, to, amount]
  Openings,      \* bound: the opening balances
  MaxAmount,     \* bound: the largest movement or share of a payout
  MaxPosted,     \* bound: other postings on an account
  Endpoints      \* which endpoints the clients call

AllEndpoints ==
  {"open", "close", "income", "expense", "payment", "edit", "bookTrash", "paymentTrash",
   "transfer", "post", "payout", "payoutTrash"}

CASH == "cash"
Amounts == 1..MaxAmount
Lines == {"line"} \X PayoutKeys \X Holders
Legs == {"leg"} \X TransferKeys
Notes == {"entry"} \X Entries
Books == Notes \cup Legs \cup Lines
Registers == Accounts \cup {CASH}
EntryKinds == {"income", "expense", "payment"}

ASSUME DesksAssumption     == Desks \subseteq Nat \ {0}
ASSUME BoundsAssumption    == MaxAmount \in Nat \ {0} /\ MaxPosted \in Nat /\ Openings \subseteq Nat
ASSUME CashAssumption      == CASH \notin Accounts
ASSUME FiniteAssumption    == IsFiniteSet(Desks) /\ IsFiniteSet(Accounts) /\ IsFiniteSet(Books)
(* A transfer to where the money is is refused ("Le compte source et le     *)
(* compte destination doivent etre differents").                            *)
ASSUME TransfersAssumption ==
  \A t \in Transfers :
    /\ t.from \in Registers /\ t.to \in Registers /\ t.from # t.to
    /\ t.amount \in Amounts
ASSUME EndpointsAssumption == Endpoints \subseteq AllEndpoints

VARIABLES
  desk,         \* rows of cash_sessions
  book,         \* rows of cash_movements
  account,      \* what the bank_transactions of each account add up to
  transferred,  \* the keys in treasury_transfers
  batch,        \* rows of shareholder_payout_batches
  line,         \* rows of shareholder_payout_lines
  req           \* the transaction each session is running

vars == <<desk, book, account, transferred, batch, line, req>>

(* counted: the movements and amounts that expected_balance stands for.     *)
DeskRows == [state: {"none", "open", "closed"}, opening: Nat,
             counted: SUBSET (Books \X Int)]
BookRows == [state: {"none", "live", "trashed"}, desk: Desks \cup {0},
             kind: EntryKinds \cup {"transfer", "payout"},
             amount: -MaxAmount..MaxAmount]
(* The transactions of transfers apart from those of other modules          *)
(* (source_module).                                                         *)
AccountRows == [transfers: Int, others: Int]
(* counted: the shareholders that total_amount and beneficiary_count stand  *)
(* for.                                                                     *)
BatchRows == [state: {"none", "live", "trashed"}, counted: SUBSET Holders]
LineStates == {"none", "live", "trashed"}

RowLocks ==
  ({"key"} \X (TransferKeys \cup PayoutKeys)) \cup {<<"number", 0>>} \cup ({"desk"} \X Desks)
    \cup ({"account"} \X Accounts) \cup ({"movement"} \X Books)
    \cup ({"line"} \X Lines) \cup ({"batch"} \X PayoutKeys) \cup ({"holder"} \X Holders)

(* What a request was asked, and what it has read: target is the open       *)
(* session it found, seen the balance and read the movements that it        *)
(* summed, counted the lines that will remain in a batch.                   *)
Requests ==
  [op: AllEndpoints \cup {"none"}, stage: 0..4, id: Books \cup {<<>>},
   key: TransferKeys \cup PayoutKeys \cup {0}, transfer: SUBSET Transfers, shares: SUBSET Holders, amount: 0..MaxAmount,
   target: Desks \cup {0}, seen: Int, read: SUBSET (Books \X Int), counted: SUBSET Holders,
   held: SUBSET RowLocks]

Idle ==
  [op |-> "none", stage |-> 0, id |-> <<>>, key |-> 0, transfer |-> {}, shares |-> {}, amount |-> 0,
   target |-> 0, seen |-> 0, read |-> {}, counted |-> {}, held |-> {}]

TypeOK ==
  /\ desk \in [Desks -> DeskRows]
  /\ book \in [Books -> BookRows]
  /\ account \in [Accounts -> AccountRows]
  /\ transferred \subseteq TransferKeys
  /\ batch \in [PayoutKeys -> BatchRows]
  /\ line \in [Lines -> LineStates]
  /\ req \in [Sessions -> Requests]

Init ==
  /\ desk = [d \in Desks |-> [state |-> "none", opening |-> 0, counted |-> {}]]
  /\ book = [m \in Books |-> [state |-> "none", desk |-> 0, kind |-> "income", amount |-> 0]]
  /\ account = [a \in Accounts |-> [transfers |-> 0, others |-> 0]]
  /\ transferred = {}
  /\ batch = [k \in PayoutKeys |-> [state |-> "none", counted |-> {}]]
  /\ line = [l \in Lines |-> "none"]
  /\ req = [s \in Sessions |-> Idle]

-----------------------------------------------------------------------------
(* Balances.                                                                *)
OpenDesks == {d \in Desks : desk[d].state = "open"}
MovementsOf(d) == {m \in Books : book[m].state = "live" /\ book[m].desk = d}
Content(d) == {<<m, book[m].amount>> : m \in MovementsOf(d)}

DeskBalance(d) ==
  desk[d].opening + SumFunctionOnSet([m \in Books |-> book[m].amount], MovementsOf(d))
AccountBalance(a) == account[a].transfers + account[a].others
Balance(x) == IF x = CASH THEN SumFunctionOnSet([d \in Desks |-> DeskBalance(d)], OpenDesks) ELSE AccountBalance(x)

LiveLines(k) == {h \in Holders : line[<<"line", k, h>>] = "live"}

-----------------------------------------------------------------------------
(* Row locks.                                                               *)
Asked(r) == CHOOSE t \in r.transfer : TRUE
RowOf(x) == IF x = CASH THEN {"desk"} \X OpenDesks ELSE {<<"account", x>>}
IsWire(t) == t.from # CASH /\ t.to # CASH

(* Variant of TransferRows: the balance of the source is read without       *)
(* FOR UPDATE.                                                              *)
TransferRowsUnlocked(r) ==
  CASE r.stage = 0 -> {<<"key", r.key>>}
    [] r.stage = 1 -> {<<"number", 0>>}
    [] r.stage = 2 /\ Asked(r).from # CASH -> RowOf(Asked(r).to)
    [] OTHER -> {}

(* createTreasuryTransferInTransaction takes its key, then the numbering of *)
(* transfers and the source, then the destination; the account of a deposit *)
(* is only referred to.  Whoever holds a source holds the numbering too.    *)
TransferRows(r) ==
  CASE r.stage = 0 -> {<<"key", r.key>>}
    [] r.stage = 1 -> {<<"number", 0>>} \cup RowOf(Asked(r).from)
    [] r.stage = 2 /\ Asked(r).from # CASH -> RowOf(Asked(r).to)
    [] OTHER -> {}

(* Variant of PayoutRows: FOR UPDATE OF spl.                                *)
PayoutRowsLineOnly(l) == {<<"line", l>>}

(* The FOR UPDATE of trashShareholderPayoutInTransaction is over a join.    *)
PayoutRows(l) == {<<"line", l>>, <<"batch", l[2]>>, <<"holder", l[3]>>}

(* The lock statements: what the next one of a request takes, if it is one. *)
Locking(r) ==
  CASE r.op = "transfer" /\ r.stage < 3    -> TransferRows(r)
    [] r.op = "payout" /\ r.stage = 0      -> {<<"key", r.key>>}
    [] r.op = "payoutTrash" /\ r.stage = 0 -> PayoutRows(r.id)
    [] r.op = "payoutTrash" /\ r.stage = 1 -> {<<"movement", r.id>>}
    [] r.op = "bookTrash" /\ r.stage = 0   -> {<<"movement", r.id>>}
    [] r.op = "bookTrash" /\ r.stage = 1 /\ r.id \in Lines -> PayoutRows(r.id)
    [] OTHER -> {}

(* The rows that the last statement of a request writes or refers to.       *)
Touched(r) ==
  CASE r.op \in EntryKinds /\ r.stage = 1 -> {<<"desk", r.target>>}
    [] r.op = "close" /\ r.stage = 2      -> {<<"desk", r.target>>}
    [] r.op = "payout" /\ r.stage = 3     -> {<<"desk", r.target>>} \cup ({"holder"} \X r.shares)
    [] r.op = "transfer" /\ r.stage = 3   -> RowOf(Asked(r).from) \cup RowOf(Asked(r).to)
    [] OTHER -> {}

Wanted(r) == Locking(r) \cup Touched(r)

Blockers(s) == {t \in Sessions \ {s} : req[t].held \cap Wanted(req[s]) # {}}
NotHeld(rows) == \A t \in Sessions : req[t].held \cap rows = {}

-----------------------------------------------------------------------------
(* Refusals.                                                                *)

(* The key was used: the first answer is given again, be it in the trash.   *)
Answered(r) ==
  /\ r.stage = 1
  /\ \/ r.op = "transfer" /\ r.key \in transferred
     \/ r.op = "payout" /\ batch[r.key].state # "none"

NoDesk(r) ==
  /\ OpenDesks = {}
  /\ \/ r.op \in EntryKinds \cup {"close"} /\ r.stage = 0
     \/ r.op = "payout" /\ r.stage = 1
     \/ r.op = "transfer" /\ r.stage = 1 /\ Asked(r).from = CASH
     \/ r.op = "transfer" /\ r.stage = 2 /\ Asked(r).to = CASH

(* The balance is compared once it is read; by a wire, after it has locked  *)
(* both accounts.                                                           *)
TooMuch(r) ==
  \/ /\ r.op = "transfer" /\ r.stage = (IF IsWire(Asked(r)) THEN 3 ELSE 2)
     /\ Asked(r).amount > r.seen
  \/ /\ r.op = "payout" /\ r.stage = 3
     /\ r.amount * Cardinality(r.shares) > r.seen

(* Variant of Removable: transfers are removed like expenses.               *)
RemovableTransfer(m) ==
  book[m].kind \in {"expense", "payment", "payout", "transfer"}

(* resolveCashMovementTrashWorkflow: an income and the cash leg of a        *)
(* transfer have no workflow that removes them.                             *)
Removable(m) ==
  book[m].kind \in {"expense", "payment", "payout"}

NothingToRemove(r) ==
  \/ r.op = "bookTrash" /\ r.stage = 1 /\ (book[r.id].state # "live" \/ ~Removable(r.id))
  \/ r.op = "bookTrash" /\ r.stage = 2 /\ r.id \in Lines /\ line[r.id] # "live"
  \/ r.op = "payoutTrash" /\ r.stage = 1 /\ line[r.id] # "live"

Refused(r) == Answered(r) \/ NoDesk(r) \/ TooMuch(r) \/ NothingToRemove(r)

(* Variant of Refuse: a refusal that never reaches ROLLBACK.                *)
RefuseHangs(s) == Refused(req[s]) /\ FALSE /\ UNCHANGED vars

Refuse(s) ==
  /\ Refused(req[s])
  /\ req' = [req EXCEPT ![s] = Idle]
  /\ UNCHANGED <<desk, book, account, transferred, batch, line>>

-----------------------------------------------------------------------------
(* Steps of a transaction.                                                  *)

(* A statement that may run: it is not refused and waits for nobody.        *)
Runs(s, op, stage) ==
  /\ req[s].op = op /\ req[s].stage = stage
  /\ ~Refused(req[s]) /\ Blockers(s) = {}

Advance(s, next) ==
  /\ req' = [req EXCEPT ![s] = [next EXCEPT !.stage = @ + 1]]
  /\ UNCHANGED <<desk, book, account, transferred, batch, line>>

Commits(s, op, stage) ==
  /\ Runs(s, op, stage)
  /\ req' = [req EXCEPT ![s] = Idle]

(* A lock is granted; a transfer then reads the balance of its source.      *)
Acquire(s) ==
  LET r == req[s]
      locked == [r EXCEPT !.held = @ \cup Locking(r)]
  IN \/ \E stage \in 0..2 :
          /\ Runs(s, "transfer", stage)
          /\ Advance(s, IF stage = 1 THEN [locked EXCEPT !.seen = Balance(Asked(r).from)]
                        ELSE locked)
     \/ Runs(s, "payout", 0) /\ Advance(s, locked)
     \/ \E stage \in 0..1 : Runs(s, "payoutTrash", stage) /\ Advance(s, locked)
     \/ \E stage \in 0..1 :
          /\ Runs(s, "bookTrash", stage)
          /\ stage = 1 => r.id \in Lines
          /\ Advance(s, locked)

(* openSession: the open session, found by a plain SELECT.                  *)
FindDesk(s) ==
  /\ \/ \E op \in EntryKinds \cup {"close"} : Runs(s, op, 0)
     \/ Runs(s, "payout", 1)
  /\ \E d \in OpenDesks : Advance(s, [req[s] EXCEPT !.target = d])

(* The movements of the session are summed, by a closing or a payout.       *)
SumDesk(s) ==
  LET d == req[s].target
  IN \/ Runs(s, "close", 1) /\ Advance(s, [req[s] EXCEPT !.read = Content(d)])
     \/ Runs(s, "payout", 2) /\ Advance(s, [req[s] EXCEPT !.seen = DeskBalance(d)])

(* The lines that remain in the batch, once this one is removed.            *)
CountLines(s) ==
  /\ Runs(s, "payoutTrash", 2) \/ (req[s].id \in Lines /\ Runs(s, "bookTrash", 2))
  /\ Advance(s, [req[s] EXCEPT !.counted = LiveLines(req[s].id[2]) \ {req[s].id[3]}])

-----------------------------------------------------------------------------
(* Operations.                                                              *)
NewRow(d, kind, amount) == [state |-> "live", desk |-> d, kind |-> kind, amount |-> amount]

(* openCash, which the index cash_one_open_session confines to one session. *)
OpenCash(d, opening) ==
  /\ "open" \in Endpoints
  /\ OpenDesks = {} /\ desk[d].state = "none"
  /\ \A e \in Desks : e < d => desk[e].state = "closed"
  /\ desk' = [desk EXCEPT ![d] = [state |-> "open", opening |-> opening, counted |-> {}]]
  /\ UNCHANGED <<book, account, transferred, batch, line, req>>

(* closeCash ends with UPDATE ... WHERE id, whatever the status is by then. *)
CloseCash(s) ==
  LET d == req[s].target
  IN /\ Commits(s, "close", 2)
     /\ desk' = [desk EXCEPT ![d] = [@ EXCEPT !.state = "closed", !.counted = req[s].read]]
     /\ UNCHANGED <<book, account, transferred, batch, line>>

(* createCashMovementInTransaction, with no look at the balance.            *)
RecordMovement(s) ==
  LET r == req[s]
      signed == IF r.op = "expense" THEN -r.amount ELSE r.amount
  IN /\ \E kind \in EntryKinds : Commits(s, kind, 1)
     /\ book[r.id].state = "none"
     /\ book' = [book EXCEPT ![r.id] = NewRow(r.target, r.op, signed)]
     /\ UNCHANGED <<desk, account, transferred, batch, line>>

(* updateCashMovement locks the movement with its session and rewrites the  *)
(* amount, of a movement that no other module made, in an open session.     *)
UpdateCashMovement(m, amount) ==
  LET d == book[m].desk
      signed == IF book[m].kind = "expense" THEN -amount ELSE amount
  IN /\ "edit" \in Endpoints
     /\ book[m].state = "live" /\ book[m].kind \in {"income", "expense"}
     /\ desk[d].state = "open"
     /\ NotHeld({<<"movement", m>>, <<"desk", d>>})
     /\ book' = [book EXCEPT ![m].amount = signed]
     /\ UNCHANGED <<desk, account, transferred, batch, line, req>>

(* createTreasuryTransferInTransaction: the two legs of a transfer.         *)
TreasuryTransfer(s) ==
  LET r == req[s]
      t == Asked(r)
      given == IF t.from = CASH THEN account ELSE [account EXCEPT ![t.from].transfers = @ - t.amount]
      leg == IF t.from = CASH THEN -t.amount ELSE t.amount
  IN /\ Commits(s, "transfer", 3)
     /\ transferred' = transferred \cup {r.key}
     /\ account' = IF t.to = CASH THEN given ELSE [given EXCEPT ![t.to].transfers = @ + t.amount]
     /\ IF IsWire(t) THEN UNCHANGED book
        ELSE \E d \in OpenDesks : book' = [book EXCEPT ![<<"leg", r.key>>] = NewRow(d, "transfer", leg)]
     /\ UNCHANGED <<desk, batch, line>>

(* createGuaranteeBankTransactionInTransaction, for the deposits, refunds   *)
(* and payments of other modules: no look at the balance of the account.    *)
PostBankTransaction(a, n) ==
  /\ "post" \in Endpoints
  /\ NotHeld({<<"account", a>>})
  /\ account[a].others + n \in 0..MaxPosted
  /\ account' = [account EXCEPT ![a].others = @ + n]
  /\ UNCHANGED <<desk, book, transferred, batch, line, req>>

(* createShareholderPayoutInTransaction: the batch, its lines and the       *)
(* movement of each.                                                        *)
ShareholderPayout(s) ==
  LET r == req[s]
      made == {"line"} \X {r.key} \X r.shares
  IN /\ Commits(s, "payout", 3)
     /\ batch' = [batch EXCEPT ![r.key] = [state |-> "live", counted |-> r.shares]]
     /\ line' = [l \in Lines |-> IF l \in made THEN "live" ELSE line[l]]
     /\ book' = [m \in Books |-> IF m \in made THEN NewRow(r.target, "payout", -r.amount)
                                ELSE book[m]]
     /\ UNCHANGED <<desk, account, transferred>>

(* trashExpenseInTransaction or trashPaymentInTransaction, for the cash.    *)
TrashMovement(s) ==
  /\ req[s].id \notin Lines
  /\ Commits(s, "bookTrash", 1)
  /\ book' = [book EXCEPT ![req[s].id].state = "trashed"]
  /\ UNCHANGED <<desk, account, transferred, batch, line>>

(* Variant of TrashPayout: the movement stays in the cash book.             *)
TrashPayoutKeepsMovement(s) ==
  LET r == req[s]
  IN /\ r.id \in Lines
     /\ Commits(s, "payoutTrash", 3) \/ Commits(s, "bookTrash", 3)
     /\ line' = [line EXCEPT ![r.id] = "trashed"]
     /\ batch' = [batch EXCEPT ![r.id[2]] =
          [state |-> IF r.counted = {} THEN "trashed" ELSE "live", counted |-> r.counted]]
     /\ UNCHANGED <<desk, book, account, transferred>>

(* trashShareholderPayoutInTransaction: the movement, the line, the total   *)
(* of the batch, and the batch with its last line.                          *)
TrashPayout(s) ==
  LET r == req[s]
  IN /\ r.id \in Lines
     /\ Commits(s, "payoutTrash", 3) \/ Commits(s, "bookTrash", 3)
     /\ line' = [line EXCEPT ![r.id] = "trashed"]
     /\ book' = [book EXCEPT ![r.id].state = "trashed"]
     /\ batch' = [batch EXCEPT ![r.id[2]] =
          [state |-> IF r.counted = {} THEN "trashed" ELSE "live", counted |-> r.counted]]
     /\ UNCHANGED <<desk, account, transferred>>

(* ROLLBACK: a lost connection, an error further down.                      *)
Rollback(s) ==
  /\ req[s] # Idle
  /\ req' = [req EXCEPT ![s] = Idle]
  /\ UNCHANGED <<desk, book, account, transferred, batch, line>>

(* The deadlock check ends one of a set of sessions that only wait for one  *)
(* another.                                                                 *)
DeadlockVictim(s) ==
  /\ \E S \in SUBSET Sessions : s \in S /\ \A t \in S : Blockers(t) \cap S # {}
  /\ Rollback(s)

-----------------------------------------------------------------------------
Begin(s, request) ==
  /\ request.op \in Endpoints
  /\ req[s] = Idle
  /\ req' = [req EXCEPT ![s] = request]
  /\ UNCHANGED <<desk, book, account, transferred, batch, line>>

(* Removing a movement that a payment made is an endpoint of its own here.  *)
Request(s) ==
  \/ Begin(s, [Idle EXCEPT !.op = "close"])
  \/ \E kind \in EntryKinds, m \in Notes, a \in Amounts :
       book[m].state = "none" /\ Begin(s, [Idle EXCEPT !.op = kind, !.id = m, !.amount = a])
  \/ \E m \in Books :
       /\ book[m].state # "none"
       /\ book[m].kind = "payment" => "paymentTrash" \in Endpoints
       /\ Begin(s, [Idle EXCEPT !.op = "bookTrash", !.id = m])
  \/ \E k \in TransferKeys, t \in Transfers :
       Begin(s, [Idle EXCEPT !.op = "transfer", !.key = k, !.transfer = {t}])
  \/ \E k \in PayoutKeys, shares \in (SUBSET Holders) \ {{}}, a \in Amounts :
       Begin(s, [Idle EXCEPT !.op = "payout", !.key = k, !.shares = shares, !.amount = a])
  \/ \E l \in Lines : line[l] # "none" /\ Begin(s, [Idle EXCEPT !.op = "payoutTrash", !.id = l])

Step(s) ==
  \/ Acquire(s) \/ FindDesk(s) \/ SumDesk(s) \/ CountLines(s) \/ Refuse(s)
  \/ CloseCash(s) \/ RecordMovement(s) \/ TreasuryTransfer(s) \/ ShareholderPayout(s)
  \/ TrashMovement(s) \/ TrashPayout(s)

Next ==
  \/ \E d \in Desks, opening \in Openings : OpenCash(d, opening)
  \/ \E m \in Notes, a \in Amounts : UpdateCashMovement(m, a)
  \/ \E a \in Accounts, n \in {-1, 1} : PostBankTransaction(a, n)
  \/ \E s \in Sessions : Request(s) \/ Step(s) \/ Rollback(s) \/ DeadlockVictim(s)

Spec == Init /\ [][Next]_vars

(* A transaction that is granted its rows goes on; waiters are queued.      *)
FairSpec == Spec /\ \A s \in Sessions : SF_vars(Step(s)) /\ WF_vars(DeadlockVictim(s))

-----------------------------------------------------------------------------
(* Properties.                                                              *)

(* A transfer never takes more than its source holds when it is committed,  *)
(* although the balance was read earlier and movements, payouts and other   *)
(* postings go on ("Le solde de caisse est insuffisant").                   *)
TransferWithinBalance ==
  [][\A s \in Sessions :
       (req[s].op = "transfer" /\ req[s].key \in transferred' \ transferred /\ req'[s] = Idle)
         => Asked(req[s]).amount <= Balance(Asked(req[s]).from)]_vars

(* Transfers move money and never make or lose any: what they put on the    *)
(* accounts is what they took from the cash book, whatever users edit or    *)
(* remove there (resolveCashMovementEditPolicy, -TrashWorkflow).            *)
TransfersBalance ==
  SumFunctionOnSet([a \in Accounts |-> account[a].transfers], Accounts)
    + SumFunctionOnSet([k \in Legs |-> IF book[k].state = "live" THEN book[k].amount ELSE 0],
                       Legs) = 0

(* A payout batch stands for its live lines, though lines of one batch are  *)
(* removed at once.                                                         *)
BatchIsItsLines ==
  \A k \in PayoutKeys :
    /\ batch[k].counted = LiveLines(k)
    /\ (batch[k].state = "live") = (LiveLines(k) # {})

(* Each line of a payout is as live as its movement in the cash book.       *)
LinesFollowCash == \A l \in Lines : line[l] = book[l].state

(* A payout is what it was made of: its total is that of its lines, and     *)
(* every line is live as long as its movement in the cash book is, from     *)
(* whichever of the two screens it is removed.                              *)
PayoutIsItsMovements == BatchIsItsLines /\ LinesFollowCash

(* The expected balance of a session that closes is of all its movements    *)
(* ("La fermeture caisse calcule entrees, sorties, solde attendu").         *)
ClosingCountsAll ==
  [][\A d \in Desks :
       (desk[d].state = "open" /\ desk'[d].state = "closed")
         => desk'[d].counted = Content(d)']_vars

(* Every request ends.                                                      *)
RequestsEnd == \A s \in Sessions : req[s] # Idle ~> req[s] = Idle
=============================================================================

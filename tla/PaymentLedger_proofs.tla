------------------------ MODULE PaymentLedger_proofs ------------------------
(***************************************************************************)
(* Proofs about PaymentLedger, for any number of sessions, invoices and    *)
(* payments:                                                               *)
(*   TypeCorrect         the type invariant;                               *)
(*   SettledIsFinal      no payment is added to a settled invoice;         *)
(*   StatusIsSticky      CANCELLED and DRAFT survive stale refreshes;      *)
(*   IntakeStatusMatches the status follows from the amounts, as long as   *)
(*                       only the endpoints that lock the invoice run;     *)
(*   IntakeIsAtomic      these endpoints implement InvoiceAccount;         *)
(*   PaymentsWithinBalance  no payment exceeds the balance, as long as it  *)
(*                       is alone on its invoice;                          *)
(*   NobodyWaitsInACircle  payments of one invoice each never deadlock;    *)
(*   PaidFollowsPayments every active payment is counted once.             *)
(* They rest on one idea: the row of an invoice is owned, from the first   *)
(* lock to COMMIT, by at most one transaction (Exclusion).                 *)
(***************************************************************************)
EXTENDS PaymentLedger, Sums

(* The invoices whose row a transaction keeps the others from rewriting.    *)
Owns(s) == Written(s) \cup ForUpdate(s)

(* No invoice row has two owners.                                           *)
Exclusion == \A s, t \in Sessions : s # t => Owns(s) \cap Owns(t) = {}

(* What create checked under the lock stays true while it holds the lock.   *)
Unsettled ==
  \A s \in Sessions : \A j \in ForUpdate(s) :
    invoice[j].state = "live" /\ invoice[j].status # "PAID"

(* The rewritten copy of a row keeps the statuses that only the user may    *)
(* change.                                                                  *)
Kept == {"DRAFT", "CANCELLED"}
CopiesKeep ==
  /\ \A j \in Invoices : invoice[j].state = "absent" => invoice[j].status = "DRAFT"
  /\ \A s \in Sessions :
       /\ req[s].target # NoInvoice => invoice[req[s].target].state # "absent"
       /\ \A j \in Written(s) :
            /\ invoice[j].state # "absent"
            /\ invoice[j].status \in Kept => req[s].rows[j].status = invoice[j].status

(* With the intake endpoints only, a transaction works on one invoice,      *)
(* which it owns from its first statement to its last.                      *)
OneInvoiceAt(s) ==
  LET r == req[s]
  IN /\ r.op \in {"none", "create", "reprice"}
     /\ r.op = "none" => r.dirty = {}
     /\ r.at = "lock" => r.op = "create" /\ r.dirty = {}
     /\ r.op # "none" => /\ r.inv \in Invoices
                         /\ r.dirty \subseteq {r.inv}
                         /\ r.now \subseteq {r.inv} /\ r.after \subseteq {r.inv}
                         /\ \A j \in Invoices : j # r.inv => r.alloc[j] = 0
     /\ r.at \in {"work", "write"} => r.inv \in Owns(s) /\ invoice[r.inv].state = "live"
     /\ r.at = "write" => r.target = r.inv

OneInvoice == \A s \in Sessions : OneInvoiceAt(s)

(* What its statements read is still so when they write, and what is about  *)
(* to be committed is consistent.                                           *)
FreshCopyAt(s) ==
  LET r == req[s]
  IN /\ r.at = "write" => r.seen = PaidSeenBy(s, r.inv)
     /\ r.at = "work" /\ r.now = {} /\ r.after = {} =>
          /\ r.inv \in r.dirty
          /\ r.rows[r.inv].status = RefreshedStatus(r.rows[r.inv], PaidSeenBy(s, r.inv))

FreshCopies == \A s \in Sessions : FreshCopyAt(s)

NothingPaidBeforehand ==
  \A j \in Invoices : invoice[j].state = "absent" => paid[j] = 0

IntakeInv == TypeOK /\ Exclusion /\ OneInvoice /\ FreshCopies /\ NothingPaidBeforehand /\ StatusMatchesPaid
LockInv == TypeOK /\ Exclusion /\ Unsettled
KeepInv == TypeOK /\ Exclusion /\ CopiesKeep

-----------------------------------------------------------------------------
(* The record a session holds stays a request, action by action.            *)

USE DEF Ops

LEMMA IdleIsRequest == Idle \in Requests /\ WellFormed(Idle)
<1>1. NoAlloc \in Allocations /\ [j \in Invoices |-> BlankRow] \in [Invoices -> Rows] /\ 0 \in Totals
  BY MaxTotalAssumption DEF NoAlloc, BlankRow, Rows, Allocations, Statuses, Totals
<1> QED
  BY <1>1 DEF Idle, Requests, WellFormed

LEMMA RefreshedType ==
  ASSUME NEW row \in Rows, NEW amount \in Int
  PROVE  RefreshedStatus(row, amount) \in Statuses
BY DEF RefreshedStatus, Rows, Statuses

LEMMA DeltaType ==
  ASSUME NEW r \in Requests, NEW j \in Invoices
  PROVE  Delta(r, j) \in Int
BY MaxTotalAssumption DEF Delta, Requests, Allocations, Totals

LEMMA CurrentRowType ==
  ASSUME TypeOK, NEW s \in Sessions, NEW j \in Invoices
  PROVE  CurrentRow(s, j) \in Rows
BY DEF TypeOK, CurrentRow, Requests, InvoiceRows, Rows

LEMMA ChoicesType ==
  ASSUME NEW j \in Invoices, NEW a \in Amounts, NEW alloc \in AllocationChoices(j, a)
  PROVE  alloc \in Allocations
BY MaxTotalAssumption DEF AllocationChoices, Allocations, Totals, Amounts

(* A step that replaces one request and touches no table keeps the types.   *)
LEMMA TypeFrame ==
  ASSUME TypeOK, NEW s \in Sessions, NEW r \in Requests, WellFormed(r),
         req' = [req EXCEPT ![s] = r], UNCHANGED <<invoice, payment, paid>>
  PROVE  TypeOK'
BY DEF TypeOK, WellFormed

LEMMA TypeInit == Init => TypeOK
<1> SUFFICES ASSUME Init PROVE TypeOK
  OBVIOUS
<1>1. NoAlloc \in Allocations /\ 0 \in Totals /\ "DRAFT" \in Statuses
  BY MaxTotalAssumption DEF NoAlloc, Allocations, Totals, Statuses
<1>2. payment \in [Payments -> PaymentRows] /\ paid \in [Invoices -> Int]
  BY <1>1 DEF Init, PaymentRows
<1>3. invoice \in [Invoices -> InvoiceRows] /\ req \in [Sessions -> Requests]
  BY <1>1, IdleIsRequest DEF Init, InvoiceRows
<1> QED
  BY <1>2, <1>3, IdleIsRequest DEF Init, TypeOK

LEMMA TypeStart ==
  ASSUME TypeOK, NEW s \in Sessions, Request(s)
  PROVE  TypeOK'
<1>0. req[s] = Idle => Idle \in Requests /\ Idle.rows \in [Invoices -> Rows]
  BY IdleIsRequest DEF Requests
<1>1. ASSUME NEW j \in Invoices, NEW total \in Prices, UpdateInvoice(s, j, total)
      PROVE  TypeOK'
  <2> DEFINE rows == [Idle.rows EXCEPT ![j] = [status |-> invoice[j].status, total |-> total]]
             r == [Idle EXCEPT !.op = "reprice", !.at = "work", !.inv = j, !.now = {j},
                               !.dirty = {j}, !.rows = rows]
  <2>1. total \in Totals /\ invoice[j].status \in Statuses
    BY PricesAssumption DEF TypeOK, InvoiceRows, Totals
  <2>2. rows \in [Invoices -> Rows] /\ NoAlloc \in Allocations /\ 0 \in Totals
    BY <2>1, IdleIsRequest DEF Requests, Rows, Idle
  <2>3. req' = [req EXCEPT ![s] = r] /\ UNCHANGED <<invoice, payment, paid>>
    BY <1>1 DEF UpdateInvoice
  <2> DEFINE r0 == [Idle EXCEPT !.op = "reprice", !.at = "work", !.inv = j, !.now = {j},
                                !.dirty = {j}]
  <2>4. r0 \in Requests /\ r0.op = "reprice" /\ r0.at = "work" /\ r0.inv = j
    BY IdleIsRequest DEF Requests
  <2>5. r = [r0 EXCEPT !.rows = rows]
    OBVIOUS
  <2> HIDE DEF rows, r0
  <2>6. r \in Requests /\ r.op = "reprice" /\ r.at = "work" /\ r.inv = j
    BY <2>2, <2>4, <2>5 DEF Requests
  <2> HIDE DEF r
  <2>7. WellFormed(r)
    BY <2>6, NoInvoiceAssumption DEF WellFormed
  <2> QED
    BY <2>3, <2>6, <2>7, TypeFrame
<1>2. ASSUME NEW p \in Payments, NEW j \in Invoices, NEW a \in Amounts,
             NEW alloc \in AllocationChoices(j, a), CreatePayment(s, p, j, a, alloc)
      PROVE  TypeOK'
  <2> DEFINE r == [Idle EXCEPT !.op = "create", !.at = "lock", !.pay = p, !.inv = j,
                               !.amount = a, !.alloc = alloc, !.seen = Remaining(j)]
  <2>1. alloc \in Allocations /\ a \in Totals
    BY ChoicesType, MaxTotalAssumption DEF Totals, Amounts
  <2>2. Remaining(j) \in Int
    BY MaxTotalAssumption DEF Remaining, TypeOK, InvoiceRows, Totals
  <2>3. r \in Requests /\ r.op = "create" /\ r.at = "lock" /\ r.inv = j
    BY <2>1, <2>2, IdleIsRequest DEF Requests
  <2>4. req' = [req EXCEPT ![s] = r] /\ UNCHANGED <<invoice, payment, paid>>
    BY <1>2 DEF CreatePayment
  <2> HIDE DEF r
  <2>5. WellFormed(r)
    BY <2>3, NoInvoiceAssumption DEF WellFormed
  <2> QED
    BY <2>3, <2>4, <2>5, TypeFrame
<1>3. ASSUME NEW p \in Payments, NEW j \in Invoices, NEW a \in Amounts,
             UpdatePayment(s, p, j, a)
      PROVE  TypeOK'
  <2> DEFINE r == [Idle EXCEPT !.op = "update", !.at = "work", !.pay = p, !.inv = j,
                               !.amount = a, !.now = {j}]
  <2>1. a \in Totals /\ payment[p].state # "none"
    BY <1>3, MaxTotalAssumption DEF Totals, Amounts, UpdatePayment
  <2>2. r \in Requests /\ r.op = "update" /\ r.at = "work" /\ r.inv = j /\ r.pay = p
    BY <2>1, IdleIsRequest DEF Requests
  <2>3. req' = [req EXCEPT ![s] = r] /\ UNCHANGED <<invoice, payment, paid>>
    BY <1>3 DEF UpdatePayment
  <2> HIDE DEF r
  <2>4. WellFormed(r)
    BY <2>1, <2>2, NoInvoiceAssumption, NoPaymentAssumption DEF WellFormed
  <2> QED
    BY <2>2, <2>3, <2>4, TypeFrame
<1>4. ASSUME NEW p \in Payments, NEW op \in {"trash", "restore"},
             NEW from \in {"active", "trashed"}, FlipPayment(s, p, op, from)
      PROVE  TypeOK'
  <2> DEFINE inv   == payment[p].invoice
             alloc == payment[p].alloc
             after == Allocated(alloc) \ {inv}
             r == [Idle EXCEPT !.op = op, !.at = "work", !.pay = p, !.inv = inv,
                               !.alloc = alloc, !.now = {inv}, !.after = after]
  <2>1. inv \in Invoices /\ alloc \in Allocations /\ payment[p].state # "none"
    BY <1>4 DEF FlipPayment, TypeOK, PaymentRows
  <2>2. after \in SUBSET Invoices
    BY DEF Allocated
  <2>3. req' = [req EXCEPT ![s] = r] /\ UNCHANGED <<invoice, payment, paid>>
    BY <1>4 DEF FlipPayment
  <2> HIDE DEF inv, alloc, after
  <2>4. r \in Requests /\ r.op = op /\ r.at = "work" /\ r.inv = inv /\ r.pay = p
    BY <2>1, <2>2, IdleIsRequest DEF Requests
  <2> HIDE DEF r
  <2>5. WellFormed(r)
    BY <2>1, <2>4, NoInvoiceAssumption, NoPaymentAssumption DEF WellFormed
  <2> QED
    BY <2>3, <2>4, <2>5, TypeFrame
<1> QED
  BY <1>1, <1>2, <1>3, <1>4 DEF Request, TrashPayment, RestorePayment

LEMMA TypeCommit ==
  ASSUME TypeOK, NEW s \in Sessions, Commit(s)
  PROVE  TypeOK'
<1> DEFINE r == req[s]
<1>1. r \in Requests /\ req' = [req EXCEPT ![s] = Idle] /\ WellFormed(r)
  BY DEF Commit, TypeOK
<1>2. invoice' \in [Invoices -> InvoiceRows]
  <2>1. ASSUME NEW j \in Invoices
        PROVE  [invoice[j] EXCEPT !.status = r.rows[j].status, !.total = r.rows[j].total]
                 \in InvoiceRows
    <3>1. r.rows[j].status \in Statuses /\ r.rows[j].total \in Totals
      BY <1>1 DEF Requests, Rows
    <3>2. invoice[j] \in InvoiceRows
      BY DEF TypeOK
    <3> QED
      BY <3>1, <3>2 DEF InvoiceRows
  <2> QED
    BY <2>1 DEF Commit, TypeOK
<1>3. paid' \in [Invoices -> Int]
  <2>1. \A j \in Invoices : paid[j] + Delta(r, j) \in Int
    BY <1>1, DeltaType DEF TypeOK
  <2> QED
    BY <2>1 DEF Commit
<1>4. ASSUME NEW p \in Payments
      PROVE  /\ payment'[p] \in PaymentRows
             /\ payment'[p].state # "none" => payment'[p].invoice # NoInvoice
             /\ payment[p].state # "none" => payment'[p].state # "none"
  <2>1. payment'[p] = IF p = r.pay THEN PaymentAfter(r, payment[p]) ELSE payment[p]
    BY DEF Commit
  <2>2. CASE p # r.pay
    BY <2>1, <2>2 DEF TypeOK
  <2>3. CASE p = r.pay /\ r.op = "create"
    BY <2>1, <2>3, <1>1 DEF PaymentAfter, PaymentRows, Requests, WellFormed
  <2>4. CASE p = r.pay /\ r.op = "update" /\ payment[p].state = "active"
    BY ZenonT(60), <2>1, <2>4, <1>1 DEF PaymentAfter, PaymentRows, Requests, TypeOK, WellFormed
  <2>5. CASE p = r.pay /\ r.op \in {"trash", "restore"}
    <3>1. payment[p].invoice # NoInvoice
      BY <2>5, <1>1 DEF TypeOK, WellFormed
    <3> QED
      BY ZenonT(60), <2>1, <2>5, <3>1 DEF PaymentAfter, PaymentRows, TypeOK
  <2>6. CASE p = r.pay /\ r.op \notin {"create", "trash", "restore"}
                       /\ ~(r.op = "update" /\ payment[p].state = "active")
    <3>1. PaymentAfter(r, payment[p]) = payment[p]
      BY <2>6 DEF PaymentAfter
    <3> QED
      BY <2>1, <2>6, <3>1 DEF TypeOK
  <2> QED
    BY <2>2, <2>3, <2>4, <2>5, <2>6
<1>5. payment' \in [Payments -> PaymentRows]
  BY <1>4 DEF Commit
<1>6. req' \in [Sessions -> Requests]
  BY <1>1, IdleIsRequest DEF TypeOK
<1>7. ASSUME NEW t \in Sessions PROVE WellFormed(req[t])'
  <2>1. CASE t = s
    BY <1>1, <2>1 DEF TypeOK, WellFormed, Idle
  <2>2. CASE t # s
    <3> DEFINE q == req[t]
    <3>1. req'[t] = q /\ WellFormed(q) /\ q.pay \in Payments \cup {NoPayment}
      BY <1>1, <2>2 DEF TypeOK, Requests
    <3>2. q.pay # NoPayment /\ payment[q.pay].state # "none" => payment'[q.pay].state # "none"
      BY <3>1, <1>4
    <3> HIDE DEF q
    <3> QED
      BY <3>1, <3>2 DEF WellFormed
  <2> QED
    BY <2>1, <2>2
<1> QED
  BY <1>2, <1>3, <1>4, <1>5, <1>6, <1>7 DEF TypeOK

LEMMA TypeStep ==
  ASSUME TypeOK, NEW s \in Sessions, Step(s)
  PROVE  TypeOK'
<1> DEFINE q == req[s]
<1>1. q \in Requests /\ WellFormed(q)
  BY DEF TypeOK
<1>2. CASE AcceptPayment(s)
  <2> DEFINE now == Allocated(q.alloc)
             after == {q.inv}
             seen == 0
             r == [q EXCEPT !.at = "work", !.seen = seen, !.now = now, !.after = after]
  <2>1. req' = [req EXCEPT ![s] = r] /\ UNCHANGED <<invoice, payment, paid>> /\ q.at = "lock"
    BY <1>2 DEF AcceptPayment, TypeOK, Requests
  <2>2. now \in SUBSET Invoices
    BY DEF Allocated
  <2>3. q.inv \in Invoices /\ q.op # "none" /\ after \in SUBSET Invoices /\ seen \in Int
    BY <1>1, <2>1 DEF WellFormed, Requests
  <2> HIDE DEF q, now, after, seen
  <2>4. r \in Requests /\ r.op = q.op /\ r.at = "work" /\ r.inv = q.inv /\ r.pay = q.pay
    BY <1>1, <2>2, <2>3 DEF Requests
  <2> HIDE DEF r
  <2>5. WellFormed(r)
    BY <1>1, <2>1, <2>3, <2>4 DEF WellFormed
  <2> QED
    BY <2>1, <2>4, <2>5, TypeFrame
<1>3. CASE RejectPayment(s)
  BY <1>3, IdleIsRequest, TypeFrame DEF RejectPayment
<1>4. CASE \E j \in Invoices : BeginRefresh(s, j)
  <2>1. PICK j \in Invoices : BeginRefresh(s, j)
    BY <1>4
  <2> DEFINE after  == IF q.now = {} THEN q.after \ {j} ELSE q.after
             shared == IF q.op \in {"create", "update"} THEN q.shared \cup {j} ELSE q.shared
             at     == IF invoice[j].state = "live" THEN "write" ELSE "work"
             target == IF invoice[j].state = "live" THEN j ELSE NoInvoice
             seen   == IF invoice[j].state = "live" THEN PaidSeenBy(s, j) ELSE 0
             r == [q EXCEPT !.now = q.now \ {j}, !.after = after, !.shared = shared, !.at = at,
                            !.target = target, !.seen = seen]
  <2>2. req' = [req EXCEPT ![s] = r] /\ UNCHANGED <<invoice, payment, paid>> /\ q.at = "work"
    BY <2>1 DEF BeginRefresh, TypeOK, Requests
  <2>3. seen \in Int
    BY <1>1, DeltaType DEF PaidSeenBy, TypeOK
  <2>4. after \in SUBSET Invoices /\ shared \in SUBSET Invoices
    BY <1>1 DEF Requests
  <2>5. at \in {"work", "write"} /\ target \in Invoices \cup {NoInvoice}
        /\ (at = "write" => target # NoInvoice)
    BY NoInvoiceAssumption
  <2> HIDE DEF q, after, shared, at, target, seen
  <2>6. r \in Requests /\ r.op = q.op /\ r.at = at /\ r.inv = q.inv /\ r.pay = q.pay
        /\ r.target = target
    BY <1>1, <2>3, <2>4, <2>5 DEF Requests
  <2> HIDE DEF r
  <2>7. WellFormed(r)
    BY <1>1, <2>2, <2>5, <2>6 DEF WellFormed
  <2> QED
    BY <2>2, <2>6, <2>7, TypeFrame
<1>5. CASE WriteRefresh(s)
  <2> DEFINE j    == q.target
             dirty == q.dirty \cup {j}
             seen == 0
             row  == CurrentRow(s, j)
             row2 == [row EXCEPT !.status = RefreshedStatus(row, q.seen)]
             rows == [q.rows EXCEPT ![j] = row2]
             r == [q EXCEPT !.at = "work", !.target = NoInvoice, !.seen = seen,
                            !.dirty = dirty, !.rows = rows]
  <2>1. req' = [req EXCEPT ![s] = r] /\ UNCHANGED <<invoice, payment, paid>> /\ q.at = "write"
    BY <1>5 DEF WriteRefresh, TypeOK, Requests
  <2>2. j \in Invoices /\ dirty \in SUBSET Invoices /\ seen \in Int
    BY <1>1, <2>1 DEF WellFormed, Requests
  <2>3. row \in Rows /\ q.seen \in Int
    BY <1>1, <2>2, CurrentRowType DEF Requests
  <2>4. row2 \in Rows
    BY <2>3, RefreshedType DEF Rows
  <2>5. rows \in [Invoices -> Rows]
    BY <1>1, <2>2, <2>4 DEF Requests
  <2> HIDE DEF q, j, row, row2, rows, dirty, seen
  <2>6. r \in Requests /\ r.op = q.op /\ r.at = "work" /\ r.inv = q.inv /\ r.pay = q.pay
    BY <1>1, <2>2, <2>5 DEF Requests
  <2> HIDE DEF r
  <2>7. WellFormed(r)
    BY <1>1, <2>1, <2>6 DEF WellFormed
  <2> QED
    BY <2>1, <2>6, <2>7, TypeFrame
<1> QED
  BY <1>2, <1>3, <1>4, <1>5, TypeCommit DEF Step

LEMMA TypeInvoiceRequest ==
  ASSUME TypeOK, NEW j \in Invoices, InvoiceRequest(j)
  PROVE  TypeOK'
<1>1. invoice[j] \in InvoiceRows
  BY DEF TypeOK
<1>2. CASE \E status \in {"DRAFT", "UNPAID"}, total \in Prices : CreateInvoice(j, status, total)
  <2>1. PICK status \in {"DRAFT", "UNPAID"}, total \in Prices : CreateInvoice(j, status, total)
    BY <1>2
  <2>2. total \in Totals /\ status \in Statuses
    BY PricesAssumption DEF Totals, Statuses
  <2> QED
    BY <2>1, <2>2 DEF CreateInvoice, TypeOK, InvoiceRows, WellFormed
<1>3. CASE ValidateInvoice(j)
  BY <1>1, <1>3 DEF ValidateInvoice, TypeOK, InvoiceRows, Statuses, WellFormed
<1>4. CASE CancelInvoice(j)
  BY <1>1, <1>4 DEF CancelInvoice, TypeOK, InvoiceRows, Statuses, WellFormed
<1>5. CASE RemoveInvoice(j)
  BY <1>1, <1>5 DEF RemoveInvoice, TypeOK, InvoiceRows, WellFormed
<1> QED
  BY <1>2, <1>3, <1>4, <1>5 DEF InvoiceRequest

LEMMA TypeNext == TypeOK /\ [Next]_vars => TypeOK'
<1> SUFFICES ASSUME TypeOK, [Next]_vars PROVE TypeOK'
  OBVIOUS
<1>1. CASE \E j \in Invoices : InvoiceRequest(j)
  BY <1>1, TypeInvoiceRequest
<1>2. ASSUME NEW s \in Sessions, Request(s) \/ Step(s) PROVE TypeOK'
  BY <1>2, TypeStart, TypeStep
<1>3. ASSUME NEW s \in Sessions, Rollback(s) \/ DeadlockVictim(s) PROVE TypeOK'
  BY <1>3, IdleIsRequest, TypeFrame DEF Rollback, DeadlockVictim
<1>4. CASE UNCHANGED vars
  BY <1>4 DEF vars, TypeOK, WellFormed
<1> QED
  BY <1>1, <1>2, <1>3, <1>4 DEF Next

(* In every reachable state the tables hold well-formed rows: a status is   *)
(* one of the five that are stored, a recorded payment names an invoice,    *)
(* and a running transaction names the rows it works on.                    *)
THEOREM TypeCorrect == Spec => []TypeOK
BY TypeInit, TypeNext, PTL DEF Spec

-----------------------------------------------------------------------------
(* Row locks.  A session only comes to own a row that no other one owns, so *)
(* that Exclusion is inductive.                                             *)

LEMMA IdleOwnsNothing ==
  ASSUME NEW s \in Sessions, req[s] = Idle
  PROVE  Owns(s) = {} /\ Written(s) = {} /\ ForUpdate(s) = {} /\ req[s].target = NoInvoice
BY DEF Owns, Written, ForUpdate, Idle

(* What the end of a request leaves behind.                                 *)
LEMMA EndStep ==
  ASSUME TypeOK, NEW s \in Sessions, req' = [req EXCEPT ![s] = Idle]
  PROVE  /\ \A t \in Sessions \ {s} : req'[t] = req[t]
         /\ Owns(s)' = {} /\ Written(s)' = {} /\ ForUpdate(s)' = {}
         /\ req'[s].target = NoInvoice /\ req'[s].at = "idle" /\ req'[s].op = "none"
BY DEF TypeOK, Owns, Written, ForUpdate, Idle

(* What the start of a request acquires: only UpdateInvoice writes at once. *)
LEMMA RequestStep ==
  ASSUME TypeOK, NEW s \in Sessions, Request(s)
  PROVE  /\ \A t \in Sessions \ {s} : req'[t] = req[t]
         /\ UNCHANGED <<invoice, payment, paid>>
         /\ ForUpdate(s)' = {} /\ req'[s].target = NoInvoice
         /\ \/ Written(s)' = {}
            \/ \E j \in Invoices : /\ Written(s)' = {j} /\ MayWrite(s, j)
                                   /\ invoice[j].state = "live"
                                   /\ req'[s].rows[j].status = invoice[j].status
<1>1. ASSUME NEW j \in Invoices, NEW total \in Prices, UpdateInvoice(s, j, total)
      PROVE  /\ \A t \in Sessions \ {s} : req'[t] = req[t]
             /\ UNCHANGED <<invoice, payment, paid>>
             /\ req'[s].op = "reprice" /\ req'[s].target = NoInvoice
             /\ Written(s)' = {j} /\ MayWrite(s, j) /\ invoice[j].state = "live"
             /\ req'[s].rows[j].status = invoice[j].status
  BY <1>1 DEF UpdateInvoice, TypeOK, Idle, Written
<1>2. ASSUME NEW p \in Payments, NEW j \in Invoices, NEW a \in Amounts,
             NEW alloc \in AllocationChoices(j, a), CreatePayment(s, p, j, a, alloc)
      PROVE  /\ \A t \in Sessions \ {s} : req'[t] = req[t]
             /\ UNCHANGED <<invoice, payment, paid>>
             /\ req'[s].at = "lock" /\ req'[s].target = NoInvoice /\ Written(s)' = {}
  BY <1>2 DEF CreatePayment, TypeOK, Idle, Written
<1>3. ASSUME NEW p \in Payments, NEW j \in Invoices, NEW a \in Amounts,
             UpdatePayment(s, p, j, a)
      PROVE  /\ \A t \in Sessions \ {s} : req'[t] = req[t]
             /\ UNCHANGED <<invoice, payment, paid>>
             /\ req'[s].op = "update" /\ req'[s].target = NoInvoice /\ Written(s)' = {}
  BY <1>3 DEF UpdatePayment, TypeOK, Idle, Written
<1>4. ASSUME NEW p \in Payments, NEW op \in {"trash", "restore"},
             NEW from \in {"active", "trashed"}, FlipPayment(s, p, op, from)
      PROVE  /\ \A t \in Sessions \ {s} : req'[t] = req[t]
             /\ UNCHANGED <<invoice, payment, paid>>
             /\ req'[s].op = op /\ req'[s].target = NoInvoice /\ Written(s)' = {}
  BY <1>4 DEF FlipPayment, TypeOK, Idle, Written
<1> QED
  BY <1>1, <1>2, <1>3, <1>4 DEF Request, TrashPayment, RestorePayment, ForUpdate

(* The steps of a running request, one lemma per kind.                      *)
LEMMA AcceptStep ==
  ASSUME TypeOK, NEW s \in Sessions, AcceptPayment(s)
  PROVE  /\ \A t \in Sessions \ {s} : req'[t] = req[t]
         /\ UNCHANGED <<invoice, payment, paid>>
         /\ Written(s)' = Written(s) /\ req'[s].target = req[s].target
         /\ req'[s].rows = req[s].rows
         /\ ForUpdate(s)' \subseteq {req[s].inv}
         /\ MayWrite(s, req[s].inv)
BY DEF AcceptPayment, TypeOK, Requests, Written, ForUpdate, MayLock, MayWrite,
       LockBlockers, WriteBlockers

LEMMA BeginStep ==
  ASSUME TypeOK, NEW s \in Sessions, NEW j \in Invoices, BeginRefresh(s, j)
  PROVE  /\ \A t \in Sessions \ {s} : req'[t] = req[t]
         /\ UNCHANGED <<invoice, payment, paid>>
         /\ Written(s)' = Written(s) /\ ForUpdate(s)' = ForUpdate(s)
         /\ req'[s].rows = req[s].rows
         /\ req'[s].target = IF invoice[j].state = "live" THEN j ELSE NoInvoice
BY DEF BeginRefresh, TypeOK, Requests, Written, ForUpdate

LEMMA WriteStep ==
  ASSUME TypeOK, NEW s \in Sessions, WriteRefresh(s)
  PROVE  /\ \A t \in Sessions \ {s} : req'[t] = req[t]
         /\ UNCHANGED <<invoice, payment, paid>>
         /\ Written(s)' = Written(s) \cup {req[s].target} /\ ForUpdate(s)' = ForUpdate(s)
         /\ req[s].target \in Invoices /\ req'[s].target = NoInvoice
         /\ MayWrite(s, req[s].target)
         /\ \A j \in Invoices : req'[s].rows[j].status =
              IF j = req[s].target
              THEN RefreshedStatus(CurrentRow(s, j), req[s].seen) ELSE req[s].rows[j].status
<1> DEFINE r == req[s]
<1>1. r \in Requests /\ r.at = "write" /\ r.target \in Invoices /\ MayWrite(s, r.target)
  BY DEF WriteRefresh, TypeOK, WellFormed, Requests
<1>2. CurrentRow(s, r.target) \in Rows
  BY <1>1, CurrentRowType
<1> QED
  BY <1>1, <1>2 DEF WriteRefresh, TypeOK, Requests, Rows, Written, ForUpdate

(* The one-statement requests on an invoice wait until its row is free.     *)
LEMMA InvoiceStep ==
  ASSUME TypeOK, NEW i \in Invoices, InvoiceRequest(i)
  PROVE  /\ UNCHANGED <<payment, paid, req>>
         /\ \A j \in Invoices \ {i} : invoice'[j] = invoice[j]
         /\ invoice'[i].state # "absent"
         /\ \/ invoice[i].state = "absent"
            \/ /\ Unlocked(i)
               /\ invoice[i].status = "CANCELLED" => invoice'[i].status = "CANCELLED"
<1> invoice \in [Invoices -> InvoiceRows]
  BY DEF TypeOK
<1>1. CASE \E status \in {"DRAFT", "UNPAID"}, total \in Prices : CreateInvoice(i, status, total)
  BY <1>1 DEF CreateInvoice, InvoiceRows
<1>2. CASE ValidateInvoice(i)
  BY <1>2 DEF ValidateInvoice, InvoiceRows
<1>3. CASE CancelInvoice(i)
  BY <1>3 DEF CancelInvoice, InvoiceRows
<1>4. CASE RemoveInvoice(i)
  BY <1>4 DEF RemoveInvoice, InvoiceRows
<1> QED
  BY <1>1, <1>2, <1>3, <1>4 DEF InvoiceRequest

(* Every step of a session acquires at most a row that is free.             *)
LEMMA Acquire ==
  ASSUME TypeOK, NEW s \in Sessions,
         Request(s) \/ Step(s) \/ Rollback(s) \/ DeadlockVictim(s)
  PROVE  /\ \A t \in Sessions \ {s} : req'[t] = req[t] /\ Owns(t)' = Owns(t)
         /\ Owns(s)' \subseteq Owns(s) \cup {j \in Invoices : MayWrite(s, j)}
<1> DEFINE Granted == {j \in Invoices : MayWrite(s, j)}
<1>1. ASSUME \A t \in Sessions \ {s} : req'[t] = req[t]
      PROVE  \A t \in Sessions \ {s} : Owns(t)' = Owns(t)
  BY <1>1 DEF Owns, Written, ForUpdate
<1>2. CASE Request(s)
  BY <1>1, <1>2, RequestStep DEF Owns
<1>3. CASE Rollback(s) \/ DeadlockVictim(s) \/ RejectPayment(s) \/ Commit(s)
  BY <1>1, <1>3, EndStep DEF Rollback, DeadlockVictim, RejectPayment, Commit
<1>4. CASE AcceptPayment(s)
  <2>1. req[s].inv \in Invoices
    BY <1>4 DEF AcceptPayment, TypeOK, WellFormed, Requests
  <2> QED
    BY <1>1, <1>4, <2>1, AcceptStep DEF Owns
<1>5. CASE \E j \in Invoices : BeginRefresh(s, j)
  BY <1>1, <1>5, BeginStep DEF Owns
<1>6. CASE WriteRefresh(s)
  BY <1>1, <1>6, WriteStep DEF Owns
<1> QED
  BY <1>2, <1>3, <1>4, <1>5, <1>6 DEF Step

LEMMA ExclusionInit == Init => Exclusion
BY IdleOwnsNothing DEF Init, Exclusion

LEMMA ExclusionNext == TypeOK /\ Exclusion /\ [Next]_vars => Exclusion'
<1> SUFFICES ASSUME TypeOK, Exclusion, [Next]_vars PROVE Exclusion'
  OBVIOUS
<1>1. ASSUME UNCHANGED req PROVE Exclusion'
  BY <1>1 DEF Exclusion, Owns, Written, ForUpdate
<1>2. CASE UNCHANGED vars \/ \E j \in Invoices : InvoiceRequest(j)
  BY <1>1, <1>2, InvoiceStep DEF vars
<1>3. ASSUME NEW s \in Sessions,
             Request(s) \/ Step(s) \/ Rollback(s) \/ DeadlockVictim(s)
      PROVE  Exclusion'
  <2>1. \A t \in Sessions \ {s} : Owns(s)' \cap Owns(t)' = {}
    BY <1>3, Acquire DEF Exclusion, MayWrite, WriteBlockers, Owns
  <2> QED
    BY <1>3, <2>1, Acquire DEF Exclusion
<1> QED
  BY <1>2, <1>3 DEF Next

-----------------------------------------------------------------------------
(* A settled invoice takes no payment.                                      *)

LEMMA UnsettledInit == Init => Unsettled
BY IdleOwnsNothing DEF Init, Unsettled

LEMMA UnsettledNext == LockInv /\ [Next]_vars => Unsettled'
<1> SUFFICES ASSUME LockInv, [Next]_vars PROVE Unsettled'
  OBVIOUS
<1> USE DEF LockInv
<1>1. ASSUME NEW i \in Invoices, InvoiceRequest(i) PROVE Unsettled'
  <2>1. UNCHANGED req /\ \A t \in Sessions : ForUpdate(t)' = ForUpdate(t)
    BY <1>1, InvoiceStep DEF ForUpdate
  <2>2. ASSUME NEW t \in Sessions, NEW j \in ForUpdate(t) PROVE invoice'[j] = invoice[j]
    <3>1. j \in Invoices
      BY DEF ForUpdate, TypeOK, Requests, WellFormed
    <3>2. i # j
      BY <1>1, InvoiceStep DEF Unlocked, Unsettled
    <3> QED
      BY <1>1, <3>1, <3>2, InvoiceStep
  <2> QED
    BY <2>1, <2>2 DEF Unsettled
<1>2. ASSUME NEW s \in Sessions, Commit(s) PROVE Unsettled'
  <2>1. /\ \A t \in Sessions \ {s} : req'[t] = req[t]
        /\ ForUpdate(s)' = {}
    BY <1>2, EndStep DEF Commit
  <2>2. ASSUME NEW t \in Sessions \ {s}, NEW j \in ForUpdate(t)'
        PROVE  invoice'[j].state = "live" /\ invoice'[j].status # "PAID"
    <3>1. j \in ForUpdate(t) /\ j \in Invoices
      BY <2>1, <2>2 DEF ForUpdate, TypeOK, Requests, WellFormed
    <3>2. j \notin req[s].dirty
      BY <3>1 DEF Exclusion, Owns, Written
    <3> QED
      BY <1>2, <3>1, <3>2 DEF Commit, Unsettled
  <2> QED
    BY <2>1, <2>2 DEF Unsettled
<1>3. ASSUME NEW s \in Sessions, AcceptPayment(s) PROVE Unsettled'
  <2>1. invoice[req[s].inv].state = "live" /\ invoice[req[s].inv].status # "PAID"
    BY <1>3 DEF AcceptPayment, PaymentAcceptable
  <2>2. \A t \in Sessions \ {s} : ForUpdate(t)' = ForUpdate(t)
    BY <1>3, AcceptStep DEF ForUpdate
  <2> QED
    BY <1>3, <2>1, <2>2, AcceptStep DEF Unsettled
<1>4. ASSUME NEW s \in Sessions,
             Request(s) \/ RejectPayment(s) \/ Rollback(s) \/ DeadlockVictim(s)
               \/ WriteRefresh(s) \/ \E j \in Invoices : BeginRefresh(s, j)
      PROVE  Unsettled'
  <2>1. /\ \A t \in Sessions \ {s} : req'[t] = req[t]
        /\ UNCHANGED invoice
        /\ ForUpdate(s)' \subseteq ForUpdate(s)
    BY <1>4, RequestStep, EndStep, WriteStep, BeginStep
       DEF RejectPayment, Rollback, DeadlockVictim
  <2>2. \A t \in Sessions \ {s} : ForUpdate(t)' = ForUpdate(t)
    BY <2>1 DEF ForUpdate
  <2> QED
    BY <2>1, <2>2 DEF Unsettled
<1>5. CASE UNCHANGED vars
  BY <1>5 DEF vars, Unsettled, ForUpdate
<1> QED
  BY <1>1, <1>2, <1>3, <1>4, <1>5 DEF Next, Step

LEMMA NewPaymentAllowed ==
  ASSUME LockInv, [Next]_vars, NEW p \in Payments, NewPayment(p)
  PROVE  invoice[payment'[p].invoice].state = "live"
         /\ invoice[payment'[p].invoice].status # "PAID"
<1>1. PICK s \in Sessions : Commit(s)
  BY InvoiceStep, RequestStep, AcceptStep, BeginStep, WriteStep
     DEF LockInv, Next, vars, Step, NewPayment, RejectPayment, Rollback, DeadlockVictim
<1> DEFINE r == req[s]
<1>2. p = r.pay /\ payment'[p] = PaymentAfter(r, payment[p])
  BY <1>1 DEF Commit, NewPayment
<1>3. r.op = "create"
  <2>1. WellFormed(r)
    BY DEF LockInv, TypeOK
  <2> QED
    BY <1>2, <2>1 DEF PaymentAfter, NewPayment, WellFormed
<1>4. payment'[p].invoice = r.inv
  BY <1>2, <1>3 DEF PaymentAfter
<1>5. r.inv \in ForUpdate(s)
  BY <1>1, <1>3 DEF ForUpdate, Commit
<1> QED
  BY <1>4, <1>5 DEF LockInv, Unsettled

(* A payment that becomes visible is on an invoice that, just before, was   *)
(* live and not PAID: the status create checked under its row lock cannot   *)
(* change before the COMMIT that inserts the payment.                       *)
THEOREM SettledIsFinal == Spec => NoPaymentOnSettled
<1>1. Init => LockInv
  BY TypeInit, ExclusionInit, UnsettledInit DEF LockInv
<1>2. LockInv /\ [Next]_vars => LockInv'
  BY TypeNext, ExclusionNext, UnsettledNext DEF LockInv
<1>3. LockInv /\ [Next]_vars =>
        [\A p \in Payments : NewPayment(p) =>
           LET j == payment'[p].invoice
           IN invoice[j].state = "live" /\ invoice[j].status # "PAID"]_vars
  BY NewPaymentAllowed
<1> QED
  BY <1>1, <1>2, <1>3, PTL DEF Spec, NoPaymentOnSettled

-----------------------------------------------------------------------------
(* Only the user cancels an invoice or takes it out of DRAFT.               *)

LEMMA KeepInit == Init => CopiesKeep
BY IdleOwnsNothing DEF Init, CopiesKeep

LEMMA RefreshKeeps ==
  ASSUME NEW row, NEW amount, row.status \in Kept
  PROVE  RefreshedStatus(row, amount) = row.status
BY DEF RefreshedStatus, Kept

LEMMA KeepNext == KeepInv /\ [Next]_vars => CopiesKeep'
<1> SUFFICES ASSUME KeepInv, [Next]_vars PROVE CopiesKeep'
  OBVIOUS
<1> USE DEF KeepInv
<1>0. /\ \A t \in Sessions : Written(t) \subseteq Invoices
      /\ \A t \in Sessions : req[t].target # NoInvoice => req[t].target \in Invoices
  BY DEF Written, TypeOK, Requests
<1>1. ASSUME NEW i \in Invoices, InvoiceRequest(i) PROVE CopiesKeep'
  <2>1. UNCHANGED req /\ \A t \in Sessions : Written(t)' = Written(t)
    BY <1>1, InvoiceStep DEF Written
  <2>2. ASSUME NEW t \in Sessions, NEW j \in Written(t) PROVE invoice'[j] = invoice[j]
    <3>1. i # j
      BY <1>1, InvoiceStep DEF Unlocked, CopiesKeep
    <3> QED
      BY <1>0, <1>1, <3>1, InvoiceStep
  <2>3. \A j \in Invoices : invoice'[j].state = "absent" => invoice'[j] = invoice[j]
    BY <1>1, InvoiceStep
  <2>4. ASSUME NEW t \in Sessions, req[t].target # NoInvoice
        PROVE  invoice'[req[t].target].state # "absent"
    BY <1>0, <2>3, <2>4 DEF CopiesKeep
  <2> QED
    BY <2>1, <2>2, <2>3, <2>4 DEF CopiesKeep
<1>2. ASSUME NEW s \in Sessions, Commit(s) PROVE CopiesKeep'
  <2>1. /\ \A t \in Sessions \ {s} : req'[t] = req[t] /\ Written(t)' = Written(t)
        /\ Written(s)' = {} /\ req'[s].target = NoInvoice
    BY <1>2, EndStep DEF Commit, Written
  <2>2. \A j \in Invoices : /\ invoice'[j].state = invoice[j].state
                            /\ j \notin Written(s) => invoice'[j] = invoice[j]
    BY <1>2 DEF Commit, Written, TypeOK, InvoiceRows
  <2>3. ASSUME NEW t \in Sessions \ {s}, NEW j \in Written(t)
        PROVE  invoice'[j] = invoice[j]
    <3>1. j \in Invoices
      BY <1>0
    <3>2. j \notin Written(s)
      BY DEF Exclusion, Owns
    <3> QED
      BY <2>2, <3>1, <3>2
  <2>4. \A j \in Invoices : invoice'[j].state = "absent" => invoice'[j] = invoice[j]
    BY <2>2 DEF CopiesKeep
  <2>5. ASSUME NEW t \in Sessions \ {s}, req[t].target # NoInvoice
        PROVE  invoice'[req[t].target].state # "absent"
    BY <1>0, <2>2, <2>5 DEF CopiesKeep
  <2> QED
    BY <2>1, <2>3, <2>4, <2>5 DEF CopiesKeep
<1>3. ASSUME NEW s \in Sessions, WriteRefresh(s) PROVE CopiesKeep'
  <2> DEFINE k == req[s].target
  <2>1. k \in Invoices /\ invoice[k].state # "absent"
    BY <1>3, WriteStep, NoInvoiceAssumption DEF CopiesKeep
  <2>2. invoice[k].status \in Kept => CurrentRow(s, k).status = invoice[k].status
    BY DEF CurrentRow, CopiesKeep, Written
  <2>3. invoice[k].status \in Kept => req'[s].rows[k].status = invoice[k].status
    BY <1>3, <2>1, <2>2, RefreshKeeps, WriteStep
  <2>4. ASSUME NEW j \in Written(s)'
        PROVE  /\ invoice[j].state # "absent"
               /\ invoice[j].status \in Kept => req'[s].rows[j].status = invoice[j].status
    <3>1. CASE j = k
      BY <2>1, <2>3, <3>1
    <3>2. CASE j # k
      <4>1. j \in Written(s) /\ j \in Invoices /\ req'[s].rows[j].status = req[s].rows[j].status
        BY <1>0, <1>3, <3>2, WriteStep
      <4> QED
        BY <4>1 DEF CopiesKeep
    <3> QED
      BY <3>1, <3>2
  <2>5. /\ \A t \in Sessions \ {s} : Written(t)' = Written(t) /\ req'[t] = req[t]
        /\ UNCHANGED invoice /\ req'[s].target = NoInvoice
    BY <1>3, WriteStep DEF Written
  <2> QED
    BY <2>4, <2>5 DEF CopiesKeep
<1>4. ASSUME NEW s \in Sessions, Request(s) PROVE CopiesKeep'
  <2>1. \A t \in Sessions \ {s} : Written(t)' = Written(t) /\ req'[t] = req[t]
    BY <1>4, RequestStep DEF Written
  <2> QED
    BY <1>0, <1>4, <2>1, RequestStep DEF CopiesKeep
<1>5. ASSUME NEW s \in Sessions,
             AcceptPayment(s) \/ \E j \in Invoices : BeginRefresh(s, j)
      PROVE  CopiesKeep'
  <2>1. \A t \in Sessions \ {s} : Written(t)' = Written(t) /\ req'[t] = req[t]
    BY <1>5, AcceptStep, BeginStep DEF Written
  <2>2. /\ Written(s)' = Written(s) /\ req'[s].rows = req[s].rows /\ UNCHANGED invoice
        /\ req'[s].target # NoInvoice =>
             \/ req'[s].target = req[s].target
             \/ invoice[req'[s].target].state = "live"
    BY <1>5, AcceptStep, BeginStep
  <2> QED
    BY <2>1, <2>2 DEF CopiesKeep
<1>6. ASSUME NEW s \in Sessions,
             RejectPayment(s) \/ Rollback(s) \/ DeadlockVictim(s)
      PROVE  CopiesKeep'
  <2>1. /\ \A t \in Sessions \ {s} : req'[t] = req[t]
        /\ Written(s)' = {} /\ req'[s].target = NoInvoice /\ UNCHANGED invoice
    BY <1>6, EndStep DEF RejectPayment, Rollback, DeadlockVictim
  <2>2. \A t \in Sessions \ {s} : Written(t)' = Written(t)
    BY <2>1 DEF Written
  <2> QED
    BY <2>1, <2>2 DEF CopiesKeep
<1>7. CASE UNCHANGED vars
  BY <1>7 DEF vars, CopiesKeep, Written
<1> QED
  BY <1>1, <1>2, <1>3, <1>4, <1>5, <1>6, <1>7 DEF Next, Step

LEMMA StatusKept ==
  ASSUME KeepInv, [Next]_vars, NEW j \in Invoices
  PROVE  /\ invoice[j].status = "CANCELLED" => invoice'[j].status = "CANCELLED"
         /\ (invoice[j].state = "live" /\ invoice[j].status = "DRAFT"
               /\ invoice'[j].status # "DRAFT") => req' = req
<1> USE DEF KeepInv
<1>1. ASSUME NEW i \in Invoices, InvoiceRequest(i)
      PROVE  /\ req' = req
             /\ invoice[j].status = "CANCELLED" => invoice'[j].status = "CANCELLED"
  BY <1>1, InvoiceStep DEF CopiesKeep
<1>2. ASSUME NEW s \in Sessions, Commit(s)
      PROVE  invoice[j].status \in Kept => invoice'[j].status = invoice[j].status
  <2>1. CASE j \in req[s].dirty
    BY ZenonT(60), <1>2, <2>1 DEF Commit, CopiesKeep, Written, TypeOK, InvoiceRows
  <2>2. CASE j \notin req[s].dirty
    BY <1>2, <2>2 DEF Commit
  <2> QED
    BY <2>1, <2>2
<1>3. CASE UNCHANGED invoice
  BY <1>3
<1>4. ASSUME NEW s \in Sessions, Request(s) \/ Step(s) \/ Rollback(s) \/ DeadlockVictim(s),
             ~Commit(s)
      PROVE  UNCHANGED invoice
  BY <1>4, RequestStep, AcceptStep, BeginStep, WriteStep
     DEF Step, RejectPayment, Rollback, DeadlockVictim
<1> QED
  BY <1>1, <1>2, <1>3, <1>4 DEF Next, vars, Kept

(* No refresh undoes a cancellation or takes an invoice out of DRAFT, not   *)
(* even one whose statement had read the row before the user changed it.    *)
THEOREM StatusIsSticky == Spec => StickyStatus
<1>1. Init => KeepInv
  BY TypeInit, ExclusionInit, KeepInit DEF KeepInv
<1>2. KeepInv /\ [Next]_vars => KeepInv'
  BY TypeNext, ExclusionNext, KeepNext DEF KeepInv
<1>3. KeepInv /\ [Next]_vars =>
        [\A j \in Invoices :
           /\ invoice[j].status = "CANCELLED" => invoice'[j].status = "CANCELLED"
           /\ (invoice[j].state = "live" /\ invoice[j].status = "DRAFT"
                 /\ invoice'[j].status # "DRAFT") => req' = req]_vars
  BY StatusKept
<1> QED
  BY <1>1, <1>2, <1>3, PTL DEF Spec, StickyStatus

-----------------------------------------------------------------------------
(* The status follows from the amounts, with the intake endpoints only and  *)
(* payments of one invoice.                                                 *)
IntakeOnly == Endpoints \subseteq IntakeEndpoints /\ SplitAllowed = FALSE

LEMMA IntakeSteps ==
  ASSUME IntakeOnly, NEW s \in Sessions, Request(s)
  PROVE  \/ \E j \in Invoices, total \in Prices : UpdateInvoice(s, j, total)
         \/ \E p \in Payments, j \in Invoices, a \in Amounts :
              CreatePayment(s, p, j, a, [k \in Invoices |-> IF k = j THEN a ELSE 0])
BY DEF IntakeOnly, IntakeEndpoints, Request, UpdatePayment, TrashPayment, RestorePayment,
       AllocationChoices

LEMMA RefreshIsStable ==
  ASSUME NEW row \in Rows, NEW amount \in Int,
         NEW fresh, fresh = [row EXCEPT !.status = RefreshedStatus(row, amount)]
  PROVE  fresh.status = RefreshedStatus(fresh, amount)
BY DEF RefreshedStatus, Rows

(* What one session relies on is only disturbed through its own invoice.    *)
LEMMA SessionFrame ==
  ASSUME NEW t \in Sessions, OneInvoiceAt(t), FreshCopyAt(t), req'[t] = req[t],
         req[t].at \in {"work", "write"} =>
           /\ invoice'[req[t].inv].state = "live"
           /\ paid'[req[t].inv] = paid[req[t].inv]
  PROVE  OneInvoiceAt(t)' /\ FreshCopyAt(t)'
<1>1. Owns(t)' = Owns(t)
  BY DEF Owns, Written, ForUpdate
<1>2. OneInvoiceAt(t)'
  BY <1>1 DEF OneInvoiceAt
<1>3. req[t].at \in {"work", "write"} =>
        PaidSeenBy(t, req[t].inv)' = PaidSeenBy(t, req[t].inv)
  BY DEF PaidSeenBy
<1>4. FreshCopyAt(t)'
  BY <1>3 DEF FreshCopyAt
<1> QED
  BY <1>2, <1>4

LEMMA IdleFits ==
  ASSUME NEW s \in Sessions, req'[s] = Idle
  PROVE  OneInvoiceAt(s)' /\ FreshCopyAt(s)'
BY DEF OneInvoiceAt, FreshCopyAt, Idle

LEMMA IntakeInit == Init => IntakeInv
<1> SUFFICES ASSUME Init PROVE IntakeInv
  OBVIOUS
<1>1. \A s \in Sessions : OneInvoiceAt(s) /\ FreshCopyAt(s)
  BY DEF Init, OneInvoiceAt, FreshCopyAt, Idle
<1> QED
  BY <1>1, TypeInit, ExclusionInit
     DEF Init, IntakeInv, OneInvoice, FreshCopies, NothingPaidBeforehand, StatusMatchesPaid

(* The steps of the session that moves, except COMMIT.                      *)
LEMMA MoverKeeps ==
  ASSUME IntakeOnly, TypeOK, NEW s \in Sessions, OneInvoiceAt(s), FreshCopyAt(s),
         Request(s) \/ AcceptPayment(s) \/ WriteRefresh(s)
           \/ \E j \in Invoices : BeginRefresh(s, j)
  PROVE  OneInvoiceAt(s)' /\ FreshCopyAt(s)'
<1> DEFINE r == req[s]
<1>0. r \in Requests /\ WellFormed(r)
  BY DEF TypeOK
<1>1. ASSUME NEW j \in Invoices, NEW total \in Prices, UpdateInvoice(s, j, total)
      PROVE  OneInvoiceAt(s)' /\ FreshCopyAt(s)'
  <2>1. /\ req'[s].op = "reprice" /\ req'[s].at = "work" /\ req'[s].inv = j
        /\ req'[s].dirty = {j} /\ req'[s].now = {j} /\ req'[s].after = {}
        /\ req'[s].alloc = NoAlloc /\ invoice'[j].state = "live"
    BY <1>1 DEF UpdateInvoice, TypeOK, Idle
  <2> QED
    BY <2>1 DEF OneInvoiceAt, FreshCopyAt, NoAlloc, Owns, Written
<1>2. ASSUME NEW p \in Payments, NEW j \in Invoices, NEW a \in Amounts,
             CreatePayment(s, p, j, a, [k \in Invoices |-> IF k = j THEN a ELSE 0])
      PROVE  OneInvoiceAt(s)' /\ FreshCopyAt(s)'
  <2>1. /\ req'[s].op = "create" /\ req'[s].at = "lock" /\ req'[s].inv = j
        /\ req'[s].dirty = {} /\ req'[s].now = {} /\ req'[s].after = {}
        /\ req'[s].alloc = [k \in Invoices |-> IF k = j THEN a ELSE 0]
    BY <1>2 DEF CreatePayment, TypeOK, Idle
  <2> QED
    BY <2>1 DEF OneInvoiceAt, FreshCopyAt
<1>3. CASE AcceptPayment(s)
  <2>1. /\ r.at = "lock" /\ r.op = "create" /\ r.dirty = {} /\ r.inv \in Invoices
        /\ \A j \in Invoices : j # r.inv => r.alloc[j] = 0
        /\ invoice[r.inv].state = "live"
    BY <1>3 DEF AcceptPayment, PaymentAcceptable, OneInvoiceAt
  <2>2. /\ req'[s].op = "create" /\ req'[s].at = "work" /\ req'[s].inv = r.inv
        /\ req'[s].dirty = {} /\ req'[s].now = Allocated(r.alloc)
        /\ req'[s].after = {r.inv} /\ req'[s].alloc = r.alloc /\ UNCHANGED invoice
    BY <1>0, <1>3, <2>1 DEF AcceptPayment, TypeOK, Requests
  <2>3. Allocated(r.alloc) \subseteq {r.inv}
    BY <1>0, <2>1 DEF Allocated, Requests, Allocations, Totals
  <2> QED
    BY <2>1, <2>2, <2>3 DEF OneInvoiceAt, FreshCopyAt, Owns, ForUpdate
<1>4. ASSUME NEW j \in Invoices, BeginRefresh(s, j)
      PROVE  OneInvoiceAt(s)' /\ FreshCopyAt(s)'
  <2>1. /\ r.at = "work" /\ j = r.inv /\ invoice[j].state = "live" /\ r.op # "none"
        /\ r.inv \in Owns(s)
    BY <1>0, <1>4 DEF BeginRefresh, OneInvoiceAt, Targets, WellFormed
  <2>2. /\ req'[s].op = r.op /\ req'[s].inv = r.inv /\ req'[s].alloc = r.alloc
        /\ req'[s].dirty = r.dirty /\ req'[s].now \subseteq r.now
        /\ req'[s].after \subseteq r.after /\ req'[s].at = "write" /\ req'[s].target = r.inv
        /\ req'[s].seen = PaidSeenBy(s, r.inv) /\ UNCHANGED <<invoice, paid>>
    BY <1>0, <1>4, <2>1 DEF BeginRefresh, TypeOK, Requests
  <2>3. Owns(s)' = Owns(s)
    BY <2>1, <2>2 DEF Owns, Written, ForUpdate
  <2>4. PaidSeenBy(s, r.inv)' = PaidSeenBy(s, r.inv)
    BY <2>2 DEF PaidSeenBy, Delta
  <2>5. OneInvoiceAt(s)'
    BY <2>1, <2>2, <2>3 DEF OneInvoiceAt
  <2> QED
    BY <2>2, <2>4, <2>5 DEF FreshCopyAt
<1>5. CASE WriteRefresh(s)
  <2> DEFINE row == CurrentRow(s, r.inv)
             fresh == [row EXCEPT !.status = RefreshedStatus(row, r.seen)]
  <2>1. /\ r.at = "write" /\ r.target = r.inv /\ r.inv \in Invoices /\ r.op # "none"
        /\ r.inv \in Owns(s) /\ r.seen = PaidSeenBy(s, r.inv) /\ r.seen \in Int
    BY <1>0, <1>5 DEF WriteRefresh, OneInvoiceAt, FreshCopyAt, WellFormed, Requests
  <2>2. /\ req'[s].op = r.op /\ req'[s].inv = r.inv /\ req'[s].alloc = r.alloc
        /\ req'[s].dirty = r.dirty \cup {r.inv} /\ req'[s].now = r.now
        /\ req'[s].after = r.after /\ req'[s].at = "work"
        /\ req'[s].rows[r.inv] = fresh /\ UNCHANGED <<invoice, paid>>
    BY <1>0, <1>5, <2>1 DEF WriteRefresh, TypeOK, Requests
  <2>3. fresh.status = RefreshedStatus(fresh, r.seen)
    BY <2>1, CurrentRowType, RefreshIsStable
  <2>4. PaidSeenBy(s, r.inv)' = r.seen
    BY <2>1, <2>2 DEF PaidSeenBy, Delta
  <2>5. r.inv \in Owns(s)'
    BY <2>2 DEF Owns, Written
  <2>6. OneInvoiceAt(s)'
    BY <2>1, <2>2, <2>5 DEF OneInvoiceAt
  <2> HIDE DEF fresh
  <2> QED
    BY <2>2, <2>3, <2>4, <2>6 DEF FreshCopyAt
<1> QED
  BY <1>1, <1>2, <1>3, <1>4, <1>5, IntakeSteps

LEMMA IntakeCommit ==
  ASSUME IntakeInv, NEW s \in Sessions, Commit(s)
  PROVE  IntakeInv'
<1> DEFINE r == req[s]
<1> USE DEF IntakeInv
<1>1. /\ r.at = "work" /\ r.now = {} /\ r.after = {} /\ r.op # "none" /\ r.inv \in Invoices
      /\ r.inv \in r.dirty /\ r.dirty \subseteq {r.inv} /\ r.op \in {"create", "reprice"}
      /\ \A j \in Invoices : j # r.inv => r.alloc[j] = 0
      /\ r.rows[r.inv].status = RefreshedStatus(r.rows[r.inv], PaidSeenBy(s, r.inv))
      /\ invoice[r.inv].state = "live" /\ r \in Requests
  <2>1. OneInvoiceAt(s) /\ FreshCopyAt(s) /\ WellFormed(r) /\ r \in Requests
    BY DEF OneInvoice, FreshCopies, TypeOK
  <2> QED
    BY <2>1 DEF Commit, OneInvoiceAt, FreshCopyAt, WellFormed
<1>2. \A j \in Invoices : j # r.inv => paid'[j] = paid[j] /\ invoice'[j] = invoice[j]
  <2>1. ASSUME NEW j \in Invoices, j # r.inv PROVE paid'[j] = paid[j]
    <3>1. Delta(r, j) = 0 /\ paid[j] \in Int
      BY <1>1, <2>1 DEF Delta, TypeOK
    <3>2. paid'[j] = paid[j] + Delta(r, j)
      BY DEF Commit
    <3> QED
      BY <3>1, <3>2
  <2>2. \A j \in Invoices : j # r.inv => invoice'[j] = invoice[j]
    BY <1>1 DEF Commit
  <2> QED
    BY <2>1, <2>2
<1>3. /\ paid'[r.inv] = PaidSeenBy(s, r.inv) /\ invoice'[r.inv].state = "live"
      /\ invoice'[r.inv].status = r.rows[r.inv].status
      /\ invoice'[r.inv].total = r.rows[r.inv].total
  BY <1>1 DEF Commit, PaidSeenBy, TypeOK, InvoiceRows
<1>4. ASSUME NEW t \in Sessions PROVE OneInvoiceAt(t)' /\ FreshCopyAt(t)'
  <2>1. CASE t = s
    BY <2>1, IdleFits DEF Commit, TypeOK
  <2>2. CASE t # s
    <3>1. req'[t] = req[t] /\ OneInvoiceAt(t) /\ FreshCopyAt(t) /\ WellFormed(req[t])
      BY <2>2 DEF Commit, OneInvoice, FreshCopies, TypeOK
    <3>2. req[t].at \in {"work", "write"} =>
            req[t].inv # r.inv /\ req[t].inv \in Invoices /\ invoice[req[t].inv].state = "live"
      <4>1. r.inv \in Owns(s)
        BY <1>1 DEF Owns, Written
      <4> QED
        BY <2>2, <3>1, <4>1 DEF Exclusion, OneInvoiceAt, WellFormed
    <3> QED
      BY <1>2, <3>1, <3>2, SessionFrame
  <2> QED
    BY <2>1, <2>2
<1>5. StatusMatchesPaid'
  <2>1. invoice'[r.inv].status = RefreshedStatus(invoice'[r.inv], paid'[r.inv])
    BY <1>1, <1>3 DEF RefreshedStatus
  <2> QED
    BY <1>2, <2>1 DEF StatusMatchesPaid
<1>6. NothingPaidBeforehand'
  BY <1>2, <1>3 DEF NothingPaidBeforehand
<1>7. TypeOK' /\ Exclusion'
  BY TypeNext, ExclusionNext DEF Next, Step
<1> QED
  BY <1>4, <1>5, <1>6, <1>7 DEF OneInvoice, FreshCopies

LEMMA IntakeInvoiceRequest ==
  ASSUME IntakeOnly, IntakeInv, NEW i \in Invoices, InvoiceRequest(i)
  PROVE  IntakeInv'
<1> USE DEF IntakeInv
<1>1. UNCHANGED <<payment, paid, req>> /\ \A j \in Invoices \ {i} : invoice'[j] = invoice[j]
  BY InvoiceStep
<1>2. ASSUME NEW t \in Sessions PROVE OneInvoiceAt(t)' /\ FreshCopyAt(t)'
  <2>1. req'[t] = req[t] /\ OneInvoiceAt(t) /\ FreshCopyAt(t) /\ WellFormed(req[t])
    BY <1>1 DEF OneInvoice, FreshCopies, TypeOK
  <2>2. req[t].at \in {"work", "write"} =>
          req[t].inv # i /\ req[t].inv \in Invoices /\ invoice[req[t].inv].state = "live"
    BY <2>1, InvoiceStep DEF OneInvoiceAt, Unlocked, Owns, WellFormed
  <2> QED
    BY <1>1, <2>1, <2>2, SessionFrame
<1>3. /\ invoice'[i].state # "absent"
      /\ invoice'[i].state = "live" =>
           invoice'[i].status = RefreshedStatus(invoice'[i], paid[i])
  <2> invoice \in [Invoices -> InvoiceRows]
    BY DEF TypeOK
  <2>1. CASE \E status \in {"DRAFT", "UNPAID"}, total \in Prices : CreateInvoice(i, status, total)
    BY <2>1 DEF CreateInvoice, NothingPaidBeforehand, RefreshedStatus
  <2>2. CASE CancelInvoice(i)
    BY <2>2 DEF CancelInvoice, InvoiceRows, RefreshedStatus
  <2>3. CASE RemoveInvoice(i)
    BY <2>3 DEF RemoveInvoice, InvoiceRows
  <2>4. ~ValidateInvoice(i)
    BY DEF ValidateInvoice, IntakeOnly, IntakeEndpoints
  <2> QED
    BY <2>1, <2>2, <2>3, <2>4 DEF InvoiceRequest
<1>4. StatusMatchesPaid'
  BY <1>1, <1>3 DEF StatusMatchesPaid
<1>5. NothingPaidBeforehand'
  BY <1>1, <1>3 DEF NothingPaidBeforehand
<1>6. TypeOK' /\ Exclusion'
  BY TypeNext, ExclusionNext DEF Next
<1> QED
  BY <1>2, <1>4, <1>5, <1>6 DEF OneInvoice, FreshCopies

LEMMA IntakeNext == IntakeOnly /\ IntakeInv /\ [Next]_vars => IntakeInv'
<1> SUFFICES ASSUME IntakeOnly, IntakeInv, [Next]_vars PROVE IntakeInv'
  OBVIOUS
<1> USE DEF IntakeInv
<1>1. ASSUME UNCHANGED <<invoice, payment, paid>>, NEW s \in Sessions,
             OneInvoiceAt(s)' /\ FreshCopyAt(s)',
             \A t \in Sessions \ {s} : req'[t] = req[t]
      PROVE  IntakeInv'
  <2>1. ASSUME NEW t \in Sessions \ {s} PROVE OneInvoiceAt(t)' /\ FreshCopyAt(t)'
    <3>1. OneInvoiceAt(t) /\ FreshCopyAt(t) /\ req'[t] = req[t]
      BY <1>1 DEF OneInvoice, FreshCopies
    <3> QED
      BY <1>1, <3>1, SessionFrame DEF OneInvoiceAt
  <2> QED
    BY <1>1, <2>1, TypeNext, ExclusionNext
       DEF OneInvoice, FreshCopies, NothingPaidBeforehand, StatusMatchesPaid
<1>2. ASSUME NEW s \in Sessions,
             Request(s) \/ AcceptPayment(s) \/ WriteRefresh(s)
               \/ \E j \in Invoices : BeginRefresh(s, j)
      PROVE  IntakeInv'
  <2>1. OneInvoiceAt(s)' /\ FreshCopyAt(s)'
    BY <1>2, MoverKeeps DEF OneInvoice, FreshCopies
  <2>2. UNCHANGED <<invoice, payment, paid>> /\ \A t \in Sessions \ {s} : req'[t] = req[t]
    BY <1>2, RequestStep, AcceptStep, WriteStep, BeginStep
  <2> QED
    BY <1>1, <2>1, <2>2
<1>3. ASSUME NEW s \in Sessions, RejectPayment(s) \/ Rollback(s) \/ DeadlockVictim(s)
      PROVE  IntakeInv'
  <2>1. req' = [req EXCEPT ![s] = Idle] /\ UNCHANGED <<invoice, payment, paid>>
    BY <1>3 DEF RejectPayment, Rollback, DeadlockVictim
  <2>2. req'[s] = Idle /\ \A t \in Sessions \ {s} : req'[t] = req[t]
    BY <2>1 DEF TypeOK
  <2> QED
    BY <1>1, <2>1, <2>2, IdleFits
<1>4. CASE UNCHANGED vars
  <2>1. OneInvoice' /\ FreshCopies'
    BY <1>4 DEF vars, OneInvoice, OneInvoiceAt, FreshCopies, FreshCopyAt, Owns, Written,
                ForUpdate, PaidSeenBy
  <2> QED
    BY <1>4, <2>1, TypeNext, ExclusionNext DEF vars, NothingPaidBeforehand, StatusMatchesPaid
<1> QED
  BY <1>2, <1>3, <1>4, IntakeCommit, IntakeInvoiceRequest DEF Next, Step

(* However many payments, price changes, cancellations and deletions run    *)
(* side by side, the status of every live invoice is the one its amounts    *)
(* call for, as long as nobody validates, edits, trashes or restores.       *)
THEOREM IntakeStatusMatches ==
  ASSUME IntakeOnly
  PROVE  Spec => []StatusMatchesPaid
<1>1. Init => IntakeInv
  BY IntakeInit
<1>2. IntakeInv /\ [Next]_vars => IntakeInv'
  BY IntakeNext
<1>3. IntakeInv => StatusMatchesPaid
  BY DEF IntakeInv
<1> QED
  BY <1>1, <1>2, <1>3, PTL DEF Spec


-----------------------------------------------------------------------------
(* The ledger implements the account, where every endpoint is one step: the *)
(* step is the COMMIT, or the one statement of a request on an invoice.     *)

(* What a COMMIT is about to publish is what the account would do at once:  *)
(* the payment is still free, and the copy of a row has the total and the   *)
(* kind of status of the row.                                               *)
CopyAt(s, j) ==
  LET copy == req[s].rows[j]
  IN /\ {copy.status, invoice[j].status} \cap Kept # {} => copy.status = invoice[j].status
     /\ req[s].op = "create" => copy.total = invoice[j].total

FreeAt(s) ==
  req[s].op = "create" =>
    /\ req[s].pay \in Payments /\ payment[req[s].pay].state = "none"
    /\ req[s].amount \in Amounts
    /\ \A t \in Sessions \ {s} : req[t].pay # req[s].pay

ReceiptAt(s) == FreeAt(s) /\ \A j \in Written(s) : CopyAt(s, j)

Receipts == \A s \in Sessions : ReceiptAt(s)

AccountInv == IntakeInv /\ Unsettled /\ Receipts

LEMMA AccountInit == Init => AccountInv
<1> SUFFICES ASSUME Init PROVE AccountInv
  OBVIOUS
<1>1. \A s \in Sessions : ReceiptAt(s)
  BY DEF Init, ReceiptAt, FreeAt, Written, Idle
<1> QED
  BY <1>1, IntakeInit, UnsettledInit DEF AccountInv, Receipts

(* What a session that rests relies on.                                     *)
LEMMA ReceiptFrame ==
  ASSUME NEW t \in Sessions, ReceiptAt(t), req'[t] = req[t],
         \A j \in Written(t) : invoice'[j] = invoice[j],
         req[t].op = "create" =>
           /\ payment'[req[t].pay].state = "none"
           /\ \A u \in Sessions \ {t} : req'[u].pay # req[t].pay
  PROVE  ReceiptAt(t)'
<1>1. FreeAt(t)'
  BY DEF ReceiptAt, FreeAt
<1>2. Written(t)' = Written(t)
  BY DEF Written
<1>3. \A j \in Written(t) : CopyAt(t, j)'
  BY DEF ReceiptAt, CopyAt
<1> QED
  BY <1>1, <1>2, <1>3 DEF ReceiptAt

(* A row that a session rewrote is live.                                    *)
LEMMA WrittenIsLive ==
  ASSUME IntakeInv, NEW s \in Sessions, NEW j \in Written(s)
  PROVE  j \in Invoices /\ invoice[j].state = "live"
<1>1. OneInvoiceAt(s) /\ WellFormed(req[s]) /\ req[s] \in Requests
  BY DEF IntakeInv, OneInvoice, TypeOK
<1> QED
  BY <1>1 DEF OneInvoiceAt, WellFormed, Written, Requests

(* The session that moves.                                                  *)
LEMMA ReceiptMover ==
  ASSUME IntakeOnly, AccountInv, NEW s \in Sessions,
         Request(s) \/ AcceptPayment(s) \/ WriteRefresh(s)
           \/ \E j \in Invoices : BeginRefresh(s, j)
  PROVE  /\ ReceiptAt(s)'
         /\ \A t \in Sessions \ {s} : req[t].op = "create" => req'[s].pay # req[t].pay
<1> DEFINE r == req[s]
<1>0. r \in Requests /\ WellFormed(r) /\ OneInvoiceAt(s) /\ ReceiptAt(s) /\ TypeOK
  BY DEF AccountInv, IntakeInv, TypeOK, OneInvoice, Receipts
<1>1. ASSUME NEW j \in Invoices, NEW total \in Prices, UpdateInvoice(s, j, total)
      PROVE  /\ ReceiptAt(s)'
             /\ \A t \in Sessions \ {s} : req[t].op = "create" => req'[s].pay # req[t].pay
  <2>1. /\ req'[s].op = "reprice" /\ req'[s].dirty = {j} /\ req'[s].pay = NoPayment
        /\ req'[s].rows[j].status = invoice[j].status /\ UNCHANGED invoice
    BY <1>0, <1>1 DEF UpdateInvoice, TypeOK, Idle
  <2>2. \A t \in Sessions : req[t].op = "create" => req[t].pay # NoPayment
    BY NoPaymentAssumption DEF AccountInv, Receipts, ReceiptAt, FreeAt
  <2> QED
    BY <2>1, <2>2 DEF ReceiptAt, FreeAt, CopyAt, Written
<1>2. ASSUME NEW p \in Payments, NEW j \in Invoices, NEW a \in Amounts,
             CreatePayment(s, p, j, a, [k \in Invoices |-> IF k = j THEN a ELSE 0])
      PROVE  /\ ReceiptAt(s)'
             /\ \A t \in Sessions \ {s} : req[t].op = "create" => req'[s].pay # req[t].pay
  <2>1. /\ req'[s].op = "create" /\ req'[s].dirty = {} /\ req'[s].pay = p
        /\ req'[s].amount = a /\ payment[p].state = "none" /\ UNCHANGED payment
        /\ \A t \in Sessions : req[t].pay # p
        /\ \A t \in Sessions \ {s} : req'[t] = req[t]
    BY <1>0, <1>2 DEF CreatePayment, TypeOK, Idle
  <2> QED
    BY <2>1 DEF ReceiptAt, FreeAt, Written
<1>3. ASSUME req'[s].op = r.op, req'[s].pay = r.pay, req'[s].amount = r.amount,
             UNCHANGED <<invoice, payment>>, \A t \in Sessions \ {s} : req'[t] = req[t],
             \A j \in Written(s)' : CopyAt(s, j)'
      PROVE  /\ ReceiptAt(s)'
             /\ \A t \in Sessions \ {s} : req[t].op = "create" => req'[s].pay # req[t].pay
  BY <1>0, <1>3 DEF ReceiptAt, FreeAt, AccountInv, Receipts
<1>4. CASE AcceptPayment(s) \/ \E j \in Invoices : BeginRefresh(s, j)
  <2>1. /\ req'[s].op = r.op /\ req'[s].pay = r.pay /\ req'[s].amount = r.amount
        /\ UNCHANGED <<invoice, payment>> /\ \A t \in Sessions \ {s} : req'[t] = req[t]
        /\ req'[s].rows = r.rows /\ req'[s].dirty = r.dirty
    <3>1. CASE AcceptPayment(s)
      BY <1>0, <3>1 DEF AcceptPayment, TypeOK, Requests
    <3>2. ASSUME NEW j \in Invoices, BeginRefresh(s, j)
          PROVE  /\ req'[s].op = r.op /\ req'[s].pay = r.pay /\ req'[s].amount = r.amount
                 /\ UNCHANGED <<invoice, payment>> /\ \A t \in Sessions \ {s} : req'[t] = req[t]
                 /\ req'[s].rows = r.rows /\ req'[s].dirty = r.dirty
      BY <1>0, <3>2 DEF BeginRefresh, TypeOK, Requests
    <3> QED
      BY <1>4, <3>1, <3>2
  <2>2. \A j \in Written(s)' : CopyAt(s, j)'
    BY <1>0, <2>1 DEF ReceiptAt, CopyAt, Written
  <2> QED
    BY <1>3, <2>1, <2>2
<1>5. CASE WriteRefresh(s)
  <2> DEFINE j   == r.target
             row == CurrentRow(s, j)
  <2>1. /\ req'[s].op = r.op /\ req'[s].pay = r.pay /\ req'[s].amount = r.amount
        /\ UNCHANGED <<invoice, payment>> /\ \A t \in Sessions \ {s} : req'[t] = req[t]
        /\ req'[s].dirty = r.dirty \cup {j} /\ j \in Invoices
        /\ req'[s].rows = [r.rows EXCEPT ![j] = [row EXCEPT !.status = RefreshedStatus(row, r.seen)]]
    BY <1>0, <1>5 DEF WriteRefresh, TypeOK, Requests, WellFormed
  <2>2. row \in Rows
    BY <1>0, <2>1, CurrentRowType
  <2>3. /\ {row.status, invoice[j].status} \cap Kept # {} => row.status = invoice[j].status
        /\ r.op = "create" => row.total = invoice[j].total
    BY <1>0 DEF CurrentRow, ReceiptAt, CopyAt, Written
  <2>4. ASSUME NEW i \in Written(s)' PROVE CopyAt(s, i)'
    <3>1. CASE i = j
      <4> DEFINE new == [row EXCEPT !.status = RefreshedStatus(row, r.seen)]
      <4>1. req'[s].rows[j] = new
        BY <1>0, <2>1 DEF Requests
      <4>2. new.total = row.total /\ new.status = RefreshedStatus(row, r.seen)
        BY <2>2 DEF Rows
      <4>3. {row.status, new.status} \cap Kept # {} => new.status = row.status
        BY <4>2 DEF RefreshedStatus, Kept
      <4> HIDE DEF new, row
      <4>4. {new.status, invoice[j].status} \cap Kept # {} => new.status = invoice[j].status
        BY <2>3, <4>3
      <4> QED
        BY <2>1, <2>3, <3>1, <4>1, <4>2, <4>4 DEF CopyAt
    <3>2. CASE i # j
      <4>1. i \in Written(s) /\ req'[s].rows[i] = r.rows[i]
        BY <1>0, <2>1, <3>2 DEF Written, Requests
      <4> QED
        BY <1>0, <2>1, <4>1 DEF ReceiptAt, CopyAt
    <3> QED
      BY <3>1, <3>2
  <2> QED
    BY <1>3, <2>1, <2>4
<1> QED
  BY <1>1, <1>2, <1>4, <1>5, IntakeSteps

LEMMA AccountNext == IntakeOnly /\ AccountInv /\ [Next]_vars => AccountInv'
<1> SUFFICES ASSUME IntakeOnly, AccountInv, [Next]_vars PROVE Receipts'
  BY IntakeNext, UnsettledNext DEF AccountInv, IntakeInv, LockInv
<1>0. /\ IntakeInv /\ TypeOK /\ Exclusion /\ \A t \in Sessions : ReceiptAt(t)
      /\ \A t \in Sessions : req[t].op = "create" => req[t].pay # NoPayment
  BY NoPaymentAssumption DEF AccountInv, IntakeInv, Receipts, ReceiptAt, FreeAt
<1>1. ASSUME NEW i \in Invoices, InvoiceRequest(i) PROVE Receipts'
  <2>1. UNCHANGED <<payment, req>>
    BY <1>0, <1>1, InvoiceStep
  <2>2. ASSUME NEW t \in Sessions, NEW j \in Written(t) PROVE invoice'[j] = invoice[j]
    <3>1. j \in Invoices /\ invoice[j].state = "live"
      BY <1>0, WrittenIsLive
    <3>2. i # j
      BY <1>0, <1>1, <3>1, InvoiceStep DEF Unlocked
    <3> QED
      BY <1>0, <1>1, <3>1, <3>2, InvoiceStep
  <2> QED
    BY <1>0, <2>1, <2>2, ReceiptFrame DEF Receipts, ReceiptAt, FreeAt
<1>2. ASSUME NEW s \in Sessions,
             Request(s) \/ AcceptPayment(s) \/ WriteRefresh(s)
               \/ \E j \in Invoices : BeginRefresh(s, j)
      PROVE  Receipts'
  <2>1. UNCHANGED <<invoice, payment>> /\ \A t \in Sessions \ {s} : req'[t] = req[t]
    BY <1>0, <1>2, RequestStep, AcceptStep, WriteStep, BeginStep
  <2>2. /\ ReceiptAt(s)'
        /\ \A t \in Sessions \ {s} : req[t].op = "create" => req'[s].pay # req[t].pay
    BY <1>2, ReceiptMover
  <2>3. ASSUME NEW t \in Sessions \ {s} PROVE ReceiptAt(t)'
    BY <1>0, <2>1, <2>2, <2>3, ReceiptFrame DEF ReceiptAt, FreeAt
  <2> QED
    BY <2>2, <2>3 DEF Receipts
<1>3. ASSUME NEW s \in Sessions,
             Commit(s) \/ RejectPayment(s) \/ Rollback(s) \/ DeadlockVictim(s)
      PROVE  Receipts'
  <2>1. req'[s] = Idle /\ \A t \in Sessions \ {s} : req'[t] = req[t]
    BY <1>0, <1>3 DEF TypeOK, Commit, RejectPayment, Rollback, DeadlockVictim
  <2>2. ReceiptAt(s)'
    BY <2>1 DEF ReceiptAt, FreeAt, Written, Idle
  <2>3. ASSUME NEW t \in Sessions \ {s} PROVE ReceiptAt(t)'
    <3>1. ASSUME NEW j \in Written(t) PROVE invoice'[j] = invoice[j]
      <4>1. j \in Invoices /\ j \notin Written(s)
        BY <1>0, <3>1, WrittenIsLive DEF Exclusion, Owns
      <4> QED
        BY <1>3, <4>1 DEF Commit, RejectPayment, Rollback, DeadlockVictim, Written
    <3>2. req[t].op = "create" =>
            /\ payment'[req[t].pay].state = "none"
            /\ \A u \in Sessions \ {t} : req'[u].pay # req[t].pay
      <4>1. ASSUME req[t].op = "create"
            PROVE  payment'[req[t].pay] = payment[req[t].pay]
        <5>1. req[t].pay \in Payments /\ req[s].pay # req[t].pay
          BY <1>0, <4>1 DEF ReceiptAt, FreeAt
        <5> QED
          BY <1>3, <5>1 DEF Commit, RejectPayment, Rollback, DeadlockVictim
      <4>2. Idle.pay = NoPayment
        BY DEF Idle
      <4> QED
        BY <1>0, <2>1, <4>1, <4>2 DEF ReceiptAt, FreeAt
    <3> QED
      BY <1>0, <2>1, <3>1, <3>2, ReceiptFrame
  <2> QED
    BY <2>2, <2>3 DEF Receipts
<1>4. CASE UNCHANGED vars
  BY <1>0, <1>4 DEF vars, Receipts, ReceiptAt, FreeAt, CopyAt, Written
<1> QED
  BY <1>1, <1>2, <1>3, <1>4 DEF Next, Step

(* Each step of the ledger is a step of the account, or changes nothing     *)
(* that the account shows.                                                  *)
VisibleRow(j) ==
  IF invoice[j].state = "deleted"
  THEN [state |-> "deleted", status |-> "DRAFT", total |-> 0] ELSE invoice[j]

LEMMA VisibleAt == VisibleInvoice = [j \in Invoices |-> VisibleRow(j)]
BY DEF VisibleInvoice, VisibleRow

LEMMA OwedIsRefreshed ==
  ASSUME NEW row, NEW amount
  PROVE  Account!Owed(row, amount) = RefreshedStatus(row, amount)
BY DEF Account!Owed, RefreshedStatus

LEMMA RowRewritten ==
  ASSUME NEW row \in InvoiceRows, NEW status, NEW total
  PROVE  [row EXCEPT !.status = status, !.total = total]
           = [state |-> row.state, status |-> status, total |-> total]
<1> DEFINE one == [row EXCEPT !.status = status]
<1>1. one = [state |-> row.state, status |-> status, total |-> row.total]
  BY DEF InvoiceRows
<1>2. [row EXCEPT !.status = status, !.total = total] = [one EXCEPT !.total = total]
  OBVIOUS
<1> HIDE DEF one
<1> QED
  BY <1>1, <1>2

LEMMA InitIsAccount == Init => Account!Init
<1> SUFFICES ASSUME Init PROVE Account!Init
  OBVIOUS
<1>1. VisibleInvoice = invoice
  BY DEF VisibleInvoice, Init
<1> QED
  BY <1>1 DEF Init, Account!Init, NoAlloc

(* A commit changes one row of the invoices at most, to what the account    *)
(* says.                                                                    *)
LEMMA CommitIsAccount ==
  ASSUME IntakeOnly, AccountInv, NEW s \in Sessions, Commit(s)
  PROVE  Account!Next
<1> DEFINE r == req[s]
           j == r.inv
<1>0. IntakeInv /\ TypeOK /\ ReceiptAt(s) /\ r \in Requests
  BY DEF AccountInv, IntakeInv, Receipts, TypeOK
<1>1. /\ r.at = "work" /\ j \in Invoices /\ r.dirty = {j} /\ r.op \in {"create", "reprice"}
      /\ \A k \in Invoices : k # j => r.alloc[k] = 0
      /\ r.rows[j].status = RefreshedStatus(r.rows[j], PaidSeenBy(s, j))
      /\ invoice[j].state = "live" /\ invoice[j] \in InvoiceRows
  <2>1. OneInvoiceAt(s) /\ FreshCopyAt(s) /\ WellFormed(r) /\ r \in Requests
    BY <1>0 DEF IntakeInv, OneInvoice, FreshCopies, TypeOK
  <2> QED
    BY <1>0, <2>1 DEF Commit, OneInvoiceAt, FreshCopyAt, WellFormed, TypeOK
<1>2. /\ r.rows[j] \in Rows /\ r.rows[j].total \in Totals
      /\ {r.rows[j].status, invoice[j].status} \cap Kept # {} => r.rows[j].status = invoice[j].status
      /\ r.op = "create" => r.rows[j].total = invoice[j].total
  BY <1>0, <1>1 DEF ReceiptAt, CopyAt, Written, Requests, Rows
<1> DEFINE row == [status |-> invoice[j].status, total |-> r.rows[j].total]
<1>3. r.rows[j].status = RefreshedStatus(row, PaidSeenBy(s, j))
  BY <1>1, <1>2 DEF RefreshedStatus, Kept, Rows
<1>4. invoice' = [invoice EXCEPT ![j] = [state |-> "live", status |-> r.rows[j].status,
                                         total |-> r.rows[j].total]]
  <2>1. [invoice[j] EXCEPT !.status = r.rows[j].status, !.total = r.rows[j].total]
          = [state |-> "live", status |-> r.rows[j].status, total |-> r.rows[j].total]
    <3>1. [invoice[j] EXCEPT !.status = r.rows[j].status, !.total = r.rows[j].total]
            = [state |-> invoice[j].state, status |-> r.rows[j].status, total |-> r.rows[j].total]
      <4> DEFINE old == invoice[j]
                 new == r.rows[j]
      <4>1. old \in InvoiceRows
        BY <1>1
      <4> HIDE DEF old, new
      <4>2. [old EXCEPT !.status = new.status, !.total = new.total]
              = [state |-> old.state, status |-> new.status, total |-> new.total]
        BY <4>1, RowRewritten
      <4> QED
        BY <4>2 DEF old, new
    <3> QED
      BY <1>1, <3>1
  <2>2. invoice' = [k \in Invoices |->
          IF k = j THEN [invoice[j] EXCEPT !.status = r.rows[j].status, !.total = r.rows[j].total]
                   ELSE invoice[k]]
    BY <1>1 DEF Commit
  <2> QED
    BY <1>0, <1>1, <2>1, <2>2 DEF TypeOK
<1>5. VisibleInvoice' = [VisibleInvoice EXCEPT ![j] = [state |-> "live",
                           status |-> r.rows[j].status, total |-> r.rows[j].total]]
  BY <1>0, <1>1, <1>4 DEF VisibleInvoice, TypeOK
<1>6. VisibleInvoice[j] = invoice[j] /\ j \in DOMAIN VisibleInvoice
  BY <1>1 DEF VisibleInvoice
<1>7. CASE r.op = "reprice"
  <2>1. paid' = paid /\ payment' = payment /\ PaidSeenBy(s, j) = paid[j]
    <3>1. \A k \in Invoices : paid[k] + Delta(r, k) = paid[k]
      BY <1>0, <1>7 DEF Delta, TypeOK
    <3>2. \A p \in Payments : PaymentAfter(r, payment[p]) = payment[p]
      BY <1>7 DEF PaymentAfter
    <3> QED
      BY <1>0, <1>1, <3>1, <3>2 DEF Commit, PaidSeenBy, TypeOK
  <2>2. Account!Reprice(j, r.rows[j].total)
    BY <1>1, <1>3, <1>5, <1>6, <2>1, OwedIsRefreshed DEF Account!Reprice, InvoiceRows
  <2> QED
    BY <1>1, <1>2, <2>2 DEF Account!Next, Account!Totals, Totals
<1>8. CASE r.op = "create"
  <2> DEFINE p == r.pay
             amounts == [k \in Invoices |-> paid[k] + r.alloc[k]]
  <2>1. p \in Payments /\ payment[p].state = "none" /\ r.amount \in Amounts
        /\ r.alloc \in [Invoices -> Totals]
    BY <1>0, <1>8 DEF ReceiptAt, FreeAt, Requests, Allocations
  <2>2. payment' = [payment EXCEPT ![p] = [state |-> "active", invoice |-> j,
                                           amount |-> r.amount, alloc |-> r.alloc]]
    BY <1>0, <1>8, <2>1 DEF Commit, PaymentAfter, TypeOK
  <2>3. paid' = amounts /\ PaidSeenBy(s, j) = amounts[j]
    BY <1>1, <1>8 DEF Commit, Delta, PaidSeenBy
  <2>4. invoice[j].status # "PAID"
    BY <1>1, <1>8 DEF AccountInv, Unsettled, ForUpdate
  <2>5. \A k \in Invoices : r.alloc[k] > 0 => k = j
    BY <1>1
  <2>6. RefreshedStatus(row, amounts[j]) = RefreshedStatus(invoice[j], amounts[j])
        /\ r.rows[j].total = invoice[j].total
    BY <1>2, <1>8 DEF RefreshedStatus
  <2>7. VisibleInvoice' = Account!Refreshed({j} \cup {k \in Invoices : r.alloc[k] > 0}, paid')
    <3>1. [VisibleInvoice[j] EXCEPT !.status = Account!Owed(VisibleInvoice[j], amounts[j])]
            = [state |-> "live", status |-> r.rows[j].status, total |-> r.rows[j].total]
      <4> DEFINE old == invoice[j]
                 new == r.rows[j]
      <4>1. Account!Owed(VisibleInvoice[j], amounts[j]) = new.status
        BY <1>3, <1>6, <2>3, <2>6, OwedIsRefreshed DEF RefreshedStatus
      <4>2. old \in InvoiceRows /\ old.state = "live" /\ old.total = new.total
        BY <1>1, <2>6
      <4>3. VisibleInvoice[j] = old
        BY <1>6
      <4> HIDE DEF old, new, amounts
      <4>4. [old EXCEPT !.status = new.status]
              = [state |-> "live", status |-> new.status, total |-> new.total]
        BY <4>2 DEF InvoiceRows
      <4>5. [VisibleInvoice[j] EXCEPT !.status = Account!Owed(VisibleInvoice[j], amounts[j])]
              = [old EXCEPT !.status = new.status]
        BY <4>1, <4>3
      <4> QED
        BY <4>4, <4>5 DEF new
    <3> QED
      BY <1>1, <1>5, <1>6, <2>3, <2>5, <3>1 DEF Account!Refreshed, VisibleInvoice
  <2>8. Account!Receive(p, j, r.amount, r.alloc)
    BY <1>1, <1>6, <2>1, <2>2, <2>3, <2>4, <2>7 DEF Account!Receive
  <2> QED
    BY <1>1, <2>1, <2>8 DEF Account!Next, Account!Totals, Totals, Amounts
<1> QED
  BY <1>1, <1>7, <1>8

LEMMA RequestIsAccount ==
  ASSUME IntakeOnly, AccountInv, NEW i \in Invoices, InvoiceRequest(i)
  PROVE  Account!Next
<1>0. TypeOK /\ invoice \in [Invoices -> InvoiceRows]
  BY DEF AccountInv, IntakeInv, TypeOK
<1>1. CASE \E status \in {"DRAFT", "UNPAID"}, total \in Prices : CreateInvoice(i, status, total)
  <2>1. PICK status \in {"DRAFT", "UNPAID"}, total \in Prices : CreateInvoice(i, status, total)
    BY <1>1
  <2>2. Account!Issue(i, status, total) /\ total \in Account!Totals
    BY <1>0, <2>1, PricesAssumption
       DEF CreateInvoice, Account!Issue, VisibleInvoice, Account!Totals
  <2> QED
    BY <2>2 DEF Account!Next
<1>2. CASE CancelInvoice(i)
  <2>1. Account!Cancel(i)
    BY <1>0, <1>2 DEF CancelInvoice, Account!Cancel, VisibleInvoice, InvoiceRows
  <2> QED
    BY <2>1 DEF Account!Next
<1>3. CASE RemoveInvoice(i)
  <2>1. Account!Remove(i)
    BY <1>0, <1>3 DEF RemoveInvoice, Account!Remove, VisibleInvoice, InvoiceRows
  <2> QED
    BY <2>1 DEF Account!Next
<1>4. ~ValidateInvoice(i)
  BY DEF ValidateInvoice, IntakeOnly, IntakeEndpoints
<1> QED
  BY <1>1, <1>2, <1>3, <1>4 DEF InvoiceRequest

LEMMA NextIsAccount ==
  ASSUME IntakeOnly, AccountInv, [Next]_vars
  PROVE  [Account!Next]_(Account!account)
<1>0. TypeOK
  BY DEF AccountInv, IntakeInv
<1>1. ASSUME UNCHANGED <<invoice, payment, paid>> PROVE UNCHANGED Account!account
  BY <1>1 DEF Account!account, VisibleInvoice
<1>2. ASSUME NEW s \in Sessions, Request(s) \/ Step(s) \/ Rollback(s) \/ DeadlockVictim(s),
             ~Commit(s)
      PROVE  UNCHANGED <<invoice, payment, paid>>
  BY <1>0, <1>2, RequestStep, AcceptStep, BeginStep, WriteStep
     DEF Step, RejectPayment, Rollback, DeadlockVictim
<1> QED
  BY <1>1, <1>2, CommitIsAccount, RequestIsAccount DEF Next, vars

(* However many payments, price changes, cancellations and deletions run    *)
(* side by side, the tables look as if every request had taken effect at    *)
(* once, at its COMMIT, with the status its amounts call for: the row lock  *)
(* makes up for the statements that read before they wait.                  *)
THEOREM IntakeIsAtomic ==
  ASSUME IntakeOnly
  PROVE  Spec => ImplementsAccount
<1>1. Init => AccountInv /\ Account!Init
  BY AccountInit, InitIsAccount
<1>2. AccountInv /\ [Next]_vars => AccountInv' /\ [Account!Next]_(Account!account)
  BY AccountNext, NextIsAccount
<1> QED
  BY <1>1, <1>2, PTL DEF Spec, ImplementsAccount, Account!Spec

-----------------------------------------------------------------------------
(* Transactions that work on one invoice each never wait in a circle.       *)

(* Payments name one invoice: there is no list of allocations, and none is  *)
(* moved to an invoice it is not allocated to and then trashed or restored. *)
OneInvoicePayments ==
  /\ SplitAllowed = FALSE
  /\ \/ "updatePayment" \notin Endpoints
     \/ Endpoints \cap {"trashPayment", "restorePayment"} = {}

(* A transaction touches the row it names and no other, and one that waits  *)
(* for the lock of create holds nothing yet.                                *)
NamesOneAt(s) ==
  LET r == req[s]
  IN /\ r.dirty \cup r.now \cup r.after \cup Allocated(r.alloc) \subseteq {r.inv}
     /\ r.target \in {NoInvoice, r.inv}
     /\ r.at = "lock" => r.dirty = {} /\ r.shared = {}
     /\ r.op = "update" => "updatePayment" \in Endpoints

NamesOne == \A s \in Sessions : NamesOneAt(s)

AllocatedAtHome ==
  "updatePayment" \notin Endpoints =>
    \A p \in Payments : Allocated(payment[p].alloc) \subseteq {payment[p].invoice}

OrderInv == TypeOK /\ Exclusion /\ NamesOne /\ AllocatedAtHome

LEMMA IdleNamesOne ==
  ASSUME NEW s \in Sessions, req[s] = Idle
  PROVE  NamesOneAt(s)
BY DEF NamesOneAt, Idle, Allocated, NoAlloc

LEMMA OrderInit == Init => OrderInv
<1> SUFFICES ASSUME Init PROVE OrderInv
  OBVIOUS
<1>1. NamesOne
  BY IdleNamesOne DEF Init, NamesOne
<1>2. AllocatedAtHome
  BY DEF Init, AllocatedAtHome, Allocated, NoAlloc
<1> QED
  BY <1>1, <1>2, TypeInit, ExclusionInit DEF OrderInv

LEMMA RequestNamesOne ==
  ASSUME OneInvoicePayments, OrderInv, NEW s \in Sessions, Request(s)
  PROVE  NamesOneAt(s)'
<1>0. TypeOK
  BY DEF OrderInv
<1>1. ASSUME NEW j \in Invoices, NEW total \in Prices, UpdateInvoice(s, j, total)
      PROVE  NamesOneAt(s)'
  <2>1. /\ req'[s].op = "reprice" /\ req'[s].inv = j /\ req'[s].dirty = {j} /\ req'[s].now = {j} /\ req'[s].after = {}
        /\ req'[s].alloc = NoAlloc /\ req'[s].at = "work" /\ req'[s].target = NoInvoice
    BY <1>0, <1>1 DEF UpdateInvoice, TypeOK, Idle
  <2> QED
    BY <2>1 DEF NamesOneAt, Allocated, NoAlloc
<1>2. ASSUME NEW p \in Payments, NEW j \in Invoices, NEW a \in Amounts,
             CreatePayment(s, p, j, a, [k \in Invoices |-> IF k = j THEN a ELSE 0])
      PROVE  NamesOneAt(s)'
  <2>1. /\ req'[s].op = "create" /\ req'[s].inv = j /\ req'[s].dirty = {} /\ req'[s].now = {} /\ req'[s].after = {}
        /\ req'[s].shared = {} /\ req'[s].target = NoInvoice
        /\ req'[s].alloc = [k \in Invoices |-> IF k = j THEN a ELSE 0]
    BY <1>0, <1>2 DEF CreatePayment, TypeOK, Idle
  <2>2. Allocated(req'[s].alloc) \subseteq {j}
    BY <2>1 DEF Allocated
  <2> QED
    BY <2>1, <2>2 DEF NamesOneAt, Allocated
<1>3. ASSUME NEW p \in Payments, NEW j \in Invoices, NEW a \in Amounts,
             UpdatePayment(s, p, j, a)
      PROVE  NamesOneAt(s)'
  <2>1. /\ req'[s].inv = j /\ req'[s].dirty = {} /\ req'[s].now = {j} /\ req'[s].after = {}
        /\ req'[s].alloc = NoAlloc /\ req'[s].at = "work" /\ req'[s].target = NoInvoice
        /\ "updatePayment" \in Endpoints
    BY <1>0, <1>3 DEF UpdatePayment, TypeOK, Idle
  <2> QED
    BY <2>1 DEF NamesOneAt, Allocated, NoAlloc
<1>4. ASSUME NEW p \in Payments, NEW op \in {"trash", "restore"},
             NEW from \in {"active", "trashed"}, FlipPayment(s, p, op, from),
             "updatePayment" \notin Endpoints
      PROVE  NamesOneAt(s)'
  <2>1. /\ req'[s].op = op /\ req'[s].inv = payment[p].invoice /\ req'[s].dirty = {}
        /\ req'[s].now = {payment[p].invoice}
        /\ req'[s].after = Allocated(payment[p].alloc) \ {payment[p].invoice}
        /\ req'[s].alloc = payment[p].alloc
        /\ req'[s].at = "work" /\ req'[s].target = NoInvoice
    BY <1>0, <1>4 DEF FlipPayment, TypeOK, Idle
  <2>2. Allocated(payment[p].alloc) \subseteq {payment[p].invoice}
    BY <1>4 DEF OrderInv, AllocatedAtHome
  <2>3. Allocated(req'[s].alloc) \subseteq {req'[s].inv}
    BY <2>1, <2>2
  <2> QED
    BY <2>1, <2>2, <2>3 DEF NamesOneAt, Allocated
<1> QED
  BY <1>1, <1>2, <1>3, <1>4
     DEF Request, TrashPayment, RestorePayment, OneInvoicePayments, AllocationChoices

LEMMA StepNamesOne ==
  ASSUME OrderInv, NEW s \in Sessions,
         AcceptPayment(s) \/ WriteRefresh(s) \/ \E j \in Invoices : BeginRefresh(s, j)
  PROVE  NamesOneAt(s)'
<1> DEFINE r == req[s]
<1>0. TypeOK /\ r \in Requests /\ NamesOneAt(s) /\ WellFormed(r)
  BY DEF OrderInv, TypeOK, NamesOne
<1>1. CASE AcceptPayment(s)
  <2>1. /\ req'[s].op = r.op /\ req'[s].inv = r.inv /\ req'[s].dirty = r.dirty /\ req'[s].now = Allocated(r.alloc)
        /\ req'[s].after = {r.inv} /\ req'[s].alloc = r.alloc /\ req'[s].at = "work"
        /\ req'[s].target = r.target
    BY <1>0, <1>1 DEF AcceptPayment, TypeOK, Requests
  <2> QED
    BY <1>0, <2>1 DEF NamesOneAt, Allocated
<1>2. ASSUME NEW j \in Invoices, BeginRefresh(s, j) PROVE NamesOneAt(s)'
  <2>1. /\ req'[s].op = r.op /\ req'[s].inv = r.inv /\ req'[s].dirty = r.dirty /\ req'[s].now = r.now \ {j}
        /\ req'[s].after \subseteq r.after /\ req'[s].alloc = r.alloc
        /\ req'[s].at \in {"work", "write"} /\ j \in r.now \cup r.after
        /\ req'[s].target \in {NoInvoice, j}
    BY <1>0, <1>2 DEF BeginRefresh, TypeOK, Requests, Targets
  <2> QED
    BY <1>0, <2>1 DEF NamesOneAt, Allocated
<1>3. CASE WriteRefresh(s)
  <2>1. /\ req'[s].op = r.op /\ req'[s].inv = r.inv /\ req'[s].dirty = r.dirty \cup {r.target} /\ req'[s].now = r.now
        /\ req'[s].after = r.after /\ req'[s].alloc = r.alloc
        /\ req'[s].at = "work" /\ r.target # NoInvoice /\ req'[s].target = NoInvoice
    BY <1>0, <1>3 DEF WriteRefresh, TypeOK, Requests, WellFormed
  <2> QED
    BY <1>0, <2>1 DEF NamesOneAt, Allocated
<1> QED
  BY <1>1, <1>2, <1>3

LEMMA OrderNext == OneInvoicePayments /\ OrderInv /\ [Next]_vars => OrderInv'
<1> SUFFICES ASSUME OneInvoicePayments, OrderInv, [Next]_vars
             PROVE  NamesOne' /\ AllocatedAtHome'
  BY TypeNext, ExclusionNext DEF OrderInv
<1>0. TypeOK
  BY DEF OrderInv
<1>1. ASSUME NEW t \in Sessions, req'[t] = req[t] PROVE NamesOneAt(t)'
  BY <1>1 DEF OrderInv, NamesOne, NamesOneAt, Allocated
<1>2. CASE UNCHANGED <<payment, req>>
  BY <1>1, <1>2 DEF OrderInv, NamesOne, AllocatedAtHome
<1>3. ASSUME NEW s \in Sessions,
             Request(s) \/ AcceptPayment(s) \/ WriteRefresh(s)
               \/ \E j \in Invoices : BeginRefresh(s, j)
      PROVE  NamesOne' /\ AllocatedAtHome'
  <2>1. UNCHANGED payment /\ \A t \in Sessions \ {s} : req'[t] = req[t]
    BY <1>0, <1>3, RequestStep, AcceptStep, WriteStep, BeginStep
  <2>2. NamesOneAt(s)'
    BY <1>3, RequestNamesOne, StepNamesOne
  <2> QED
    BY <1>1, <2>1, <2>2 DEF OrderInv, NamesOne, AllocatedAtHome
<1>4. ASSUME NEW s \in Sessions,
             Commit(s) \/ RejectPayment(s) \/ Rollback(s) \/ DeadlockVictim(s)
      PROVE  NamesOne' /\ AllocatedAtHome'
  <2>1. req'[s] = Idle /\ \A t \in Sessions \ {s} : req'[t] = req[t]
    BY <1>0, <1>4 DEF TypeOK, Commit, RejectPayment, Rollback, DeadlockVictim
  <2>2. NamesOneAt(s)'
    BY <2>1 DEF NamesOneAt, Idle, Allocated, NoAlloc
  <2>3. ASSUME "updatePayment" \notin Endpoints, NEW p \in Payments, Commit(s)
        PROVE  Allocated(payment'[p].alloc) \subseteq {payment'[p].invoice}
    <3> DEFINE r   == req[s]
               old == payment[p]
    <3>1. /\ payment'[p] = IF p = r.pay THEN PaymentAfter(r, old) ELSE old
          /\ Allocated(old.alloc) \subseteq {old.invoice} /\ old \in PaymentRows
          /\ Allocated(r.alloc) \subseteq {r.inv}
      BY <2>3 DEF Commit, OrderInv, AllocatedAtHome, TypeOK, NamesOne, NamesOneAt
    <3>2. r.op # "update"
      BY <2>3 DEF OrderInv, NamesOne, NamesOneAt
    <3> QED
      BY <3>1, <3>2 DEF PaymentAfter, PaymentRows
  <2>4. AllocatedAtHome'
    BY <1>4, <2>3
       DEF OrderInv, AllocatedAtHome, RejectPayment, Rollback, DeadlockVictim
  <2> QED
    BY <1>1, <2>1, <2>2, <2>4 DEF NamesOne
<1> QED
  BY <1>2, <1>3, <1>4, InvoiceStep, <1>0 DEF Next, Step, vars

(* A session that waits owns no row: it waits for the one it names.         *)
LEMMA WaiterOwnsNothing ==
  ASSUME OrderInv, NEW s \in Sessions, Blockers(s) # {}
  PROVE  /\ Owns(s) = {}
         /\ \A t \in Blockers(s) : t \in Sessions /\
              (Owns(t) # {} \/ (req[s].at = "lock" /\ req[t].shared # {}))
<1> DEFINE r == req[s]
<1>1. /\ r \in Requests /\ WellFormed(r) /\ NamesOneAt(s)
      /\ \A t \in Sessions \ {s} : Owns(s) \cap Owns(t) = {}
  BY DEF OrderInv, TypeOK, NamesOne, Exclusion
<1>2. Owns(s) \subseteq {r.inv}
  BY <1>1 DEF Owns, Written, ForUpdate, NamesOneAt
<1>3. CASE r.at = "lock"
  BY <1>1, <1>3 DEF Blockers, LockBlockers, Owns, Written, ForUpdate, NamesOneAt
<1>4. CASE r.at = "write"
  <2>1. r.target = r.inv /\ Blockers(s) = WriteBlockers(s, r.inv)
    BY <1>1, <1>4 DEF Blockers, WellFormed, NamesOneAt
  <2> QED
    BY <1>1, <1>2, <2>1 DEF WriteBlockers, Owns
<1>5. CASE r.at = "work" /\ r.op \in {"create", "update"}
  <2>1. Targets(r) \subseteq {r.inv} /\ Blockers(s) = UNION {ShareBlockers(s, j) : j \in Targets(r)}
    BY <1>1, <1>5 DEF Blockers, Targets, NamesOneAt
  <2>2. Blockers(s) \subseteq ShareBlockers(s, r.inv)
    BY <2>1
  <2> QED
    BY <1>1, <1>2, <2>2 DEF ShareBlockers, Owns
<1> QED
  BY <1>3, <1>4, <1>5 DEF Blockers

(* Of the sessions of a group, one at least waits for none of the others:   *)
(* those that wait for a row own none, and those in the queue of create     *)
(* hold nothing at all.                                                     *)
THEOREM NobodyWaitsInACircle ==
  ASSUME OneInvoicePayments
  PROVE  Spec => []NoLockCycle
<1>1. Init => OrderInv
  BY OrderInit
<1>2. OrderInv /\ [Next]_vars => OrderInv'
  BY OrderNext
<1>3. OrderInv => NoLockCycle
  <2> SUFFICES ASSUME OrderInv, NEW S \in SUBSET Sessions, S # {},
                      \A s \in S : Blockers(s) \cap S # {}
               PROVE  FALSE
    BY DEF NoLockCycle
  <2>1. \A s \in S : Owns(s) = {}
    BY WaiterOwnsNothing
  <2>2. \A s \in S : \E t \in S : req[s].at = "lock" /\ req[t].shared # {}
    BY <2>1, WaiterOwnsNothing
  <2>3. PICK t \in S : req[t].shared # {}
    BY <2>2
  <2>4. req[t].at = "lock"
    BY <2>2, <2>3
  <2> QED
    BY <2>3, <2>4 DEF OrderInv, NamesOne, NamesOneAt
<1> QED
  BY <1>1, <1>2, <1>3, PTL DEF Spec

-----------------------------------------------------------------------------
(* A payment that nobody else's work meets stays within the balance.        *)

(* The invoices that a request names, has still to refresh or rewrote.      *)
Touches(r) == {r.inv, r.target} \cup Allocated(r.alloc) \cup r.now \cup r.after \cup r.dirty

(* While a payment of an invoice is recorded, nobody else works on that     *)
(* invoice; of the other invoices anything goes.                            *)
PaymentsApart ==
  \A s, t \in Sessions :
    (s # t /\ req[s].op = "create" /\ req[t].op # "none") => req[s].inv \notin Touches(req[t])

(* Then the balance is as the payment read it, up to its commit.            *)
BalanceKeptAt(s) ==
  LET r == req[s]
  IN r.op = "create" =>
       /\ invoice[r.inv].state # "absent"
       /\ IF r.at = "lock" THEN r.seen = Remaining(r.inv)
          ELSE r.amount <= Remaining(r.inv) + Tolerance
BalanceKept == \A s \in Sessions : BalanceKeptAt(s)

LEMMA BalanceFrame ==
  ASSUME TypeOK, NEW t \in Sessions, BalanceKeptAt(t), req'[t] = req[t],
         LET j == req[t].inv
         IN req[t].op = "create" =>
              /\ invoice'[j].total = invoice[j].total /\ paid'[j] = paid[j]
              /\ invoice'[j].state # "absent"
  PROVE  BalanceKeptAt(t)'
BY DEF BalanceKeptAt, Remaining

(* What a step makes of the request of the session that takes it.           *)
LEMMA BalanceMover ==
  ASSUME TypeOK, BalanceKept, NEW s \in Sessions,
         Request(s) \/ AcceptPayment(s) \/ (\E j \in Invoices : BeginRefresh(s, j)) \/ WriteRefresh(s)
  PROVE  BalanceKeptAt(s)' /\ UNCHANGED <<invoice, payment, paid>>
         /\ \A t \in Sessions \ {s} : req'[t] = req[t]
<1>0. req \in [Sessions -> Requests] /\ BalanceKeptAt(s) /\ WellFormed(req[s])
  BY DEF TypeOK, BalanceKept
<1>1. CASE Request(s)
  <2>1. ASSUME NEW p \in Payments, NEW j \in Invoices, NEW a \in Amounts,
               NEW alloc \in AllocationChoices(j, a), CreatePayment(s, p, j, a, alloc)
        PROVE  BalanceKeptAt(s)'
    <3>1. /\ req'[s].inv = j /\ req'[s].at = "lock" /\ req'[s].seen = Remaining(j)
          /\ invoice[j].state = "live" /\ UNCHANGED <<invoice, paid>>
      BY <1>0, <2>1 DEF CreatePayment, Idle
    <3> QED  BY <3>1 DEF BalanceKeptAt, Remaining
  <2>2. ASSUME NEW j \in Invoices, NEW total \in Prices, UpdateInvoice(s, j, total)
        PROVE  req'[s].op = "reprice"
    BY <1>0, <2>2 DEF UpdateInvoice, Idle
  <2>3. ASSUME NEW p \in Payments, NEW j \in Invoices, NEW a \in Amounts, UpdatePayment(s, p, j, a)
        PROVE  req'[s].op = "update"
    BY <1>0, <2>3 DEF UpdatePayment, Idle
  <2>4. ASSUME NEW p \in Payments, NEW op \in {"trash", "restore"},
               NEW from \in {"active", "trashed"}, FlipPayment(s, p, op, from)
        PROVE  req'[s].op = op
    BY <1>0, <2>4 DEF FlipPayment, Idle
  <2>5. BalanceKeptAt(s)'
    BY <1>1, <2>1, <2>2, <2>3, <2>4 DEF Request, TrashPayment, RestorePayment, BalanceKeptAt
  <2> QED  BY <1>1, <2>5, RequestStep
<1>2. CASE AcceptPayment(s)
  <2>1. /\ req[s].at = "lock" /\ PaymentAcceptable(req[s])
        /\ req'[s].op = req[s].op /\ req'[s].inv = req[s].inv /\ req'[s].amount = req[s].amount
        /\ req'[s].at = "work" /\ UNCHANGED <<invoice, paid>>
    BY <1>0, <1>2 DEF AcceptPayment, Requests
  <2>2. BalanceKeptAt(s)'
    BY <1>0, <2>1 DEF BalanceKeptAt, PaymentAcceptable, Remaining
  <2> QED  BY <1>2, <2>2, AcceptStep
<1>3. CASE \E j \in Invoices : BeginRefresh(s, j)
  <2>1. PICK j \in Invoices : BeginRefresh(s, j)  BY <1>3
  <2>2. /\ req[s].at = "work" /\ req'[s].at # "lock"
        /\ req'[s].op = req[s].op /\ req'[s].inv = req[s].inv /\ req'[s].amount = req[s].amount
        /\ UNCHANGED <<invoice, paid>>
    <3> DEFINE q      == req[s]
               live   == invoice[j].state = "live"
               now    == q.now \ {j}
               after  == IF q.now = {} THEN q.after \ {j} ELSE q.after
               shared == IF q.op \in {"create", "update"} THEN q.shared \cup {j} ELSE q.shared
               at     == IF live THEN "write" ELSE "work"
               target == IF live THEN j ELSE NoInvoice
               seen   == IF live THEN PaidSeenBy(s, j) ELSE 0
    <3>1. /\ q.at = "work" /\ UNCHANGED <<invoice, paid>>
          /\ req' = [req EXCEPT ![s] =
               [q EXCEPT !.now = now, !.after = after, !.shared = shared, !.at = at,
                         !.target = target, !.seen = seen]]
      BY <2>1 DEF BeginRefresh
    <3>2. at # "lock"  OBVIOUS
    <3> HIDE DEF q, live, now, after, shared, at, target, seen
    <3>3. q \in Requests /\ s \in DOMAIN req  BY <1>0 DEF q
    <3> QED  BY <3>1, <3>2, <3>3 DEF Requests, q
  <2>3. BalanceKeptAt(s)'  BY <1>0, <2>2 DEF BalanceKeptAt, Remaining
  <2> QED  BY <2>1, <2>3, BeginStep
<1>4. CASE WriteRefresh(s)
  <2>1. /\ req[s].at = "write" /\ req'[s].at # "lock"
        /\ req'[s].op = req[s].op /\ req'[s].inv = req[s].inv /\ req'[s].amount = req[s].amount
        /\ UNCHANGED <<invoice, paid>>
    BY <1>0, <1>4 DEF WriteRefresh, Requests
  <2>2. BalanceKeptAt(s)'  BY <1>0, <2>1 DEF BalanceKeptAt, Remaining
  <2> QED  BY <1>4, <2>2, WriteStep
<1> QED  BY <1>1, <1>2, <1>3, <1>4

(* A commit leaves the invoices that its transaction did not touch.         *)
LEMMA CommitLeaves ==
  ASSUME TypeOK, NEW s \in Sessions, Commit(s), NEW j \in Invoices, j \notin Touches(req[s])
  PROVE  invoice'[j] = invoice[j] /\ paid'[j] = paid[j]
<1>1. req[s] \in Requests /\ paid[j] \in Int  BY DEF TypeOK
<1>2. j \notin req[s].dirty /\ req[s].alloc[j] = 0
  BY <1>1, MaxTotalAssumption DEF Touches, Allocated, Requests, Allocations, Totals
<1>3. Delta(req[s], j) = 0
  <2>1. Delta(req[s], j) \in {req[s].alloc[j], - req[s].alloc[j], 0}  BY DEF Delta
  <2> QED  BY <1>2, <2>1
<1>4. invoice'[j] = invoice[j] /\ paid'[j] = paid[j] + Delta(req[s], j)
  BY <1>2 DEF Commit
<1> QED  BY <1>1, <1>3, <1>4

LEMMA BalanceNext == TypeOK /\ BalanceKept /\ PaymentsApart /\ [Next]_vars => BalanceKept'
<1> SUFFICES ASSUME TypeOK, BalanceKept, PaymentsApart, [Next]_vars PROVE BalanceKept'
  OBVIOUS
<1>0. \A t \in Sessions : /\ BalanceKeptAt(t) /\ WellFormed(req[t]) /\ req[t] \in Requests
                          /\ req[t].op = "create" => req[t].inv \in Invoices
  BY DEF TypeOK, BalanceKept, WellFormed, Requests
<1>1. ASSUME NEW i \in Invoices, InvoiceRequest(i) PROVE BalanceKept'
  <2>1. UNCHANGED <<payment, paid, req>> /\ \A j \in Invoices \ {i} : invoice'[j] = invoice[j]
    BY <1>1, InvoiceStep
  <2>2. invoice[i].state # "absent" => invoice'[i].total = invoice[i].total /\ invoice'[i].state # "absent"
    BY <1>1 DEF InvoiceRequest, CreateInvoice, ValidateInvoice, CancelInvoice, RemoveInvoice,
                TypeOK, InvoiceRows
  <2>3. ASSUME NEW t \in Sessions PROVE BalanceKeptAt(t)'
    <3>1. req[t].op = "create" => invoice[req[t].inv].state # "absent"
      BY <1>0 DEF BalanceKeptAt
    <3> QED  BY <1>0, <2>1, <2>2, <3>1, BalanceFrame
  <2> QED  BY <2>3 DEF BalanceKept
<1>2. ASSUME NEW s \in Sessions,
             Request(s) \/ AcceptPayment(s) \/ (\E j \in Invoices : BeginRefresh(s, j)) \/ WriteRefresh(s)
      PROVE  BalanceKept'
  <2>1. BalanceKeptAt(s)' /\ UNCHANGED <<invoice, payment, paid>>
        /\ \A t \in Sessions \ {s} : req'[t] = req[t]
    BY <1>2, BalanceMover
  <2>2. ASSUME NEW t \in Sessions \ {s} PROVE BalanceKeptAt(t)'
    BY <1>0, <2>1 DEF BalanceKeptAt, Remaining
  <2> QED  BY <2>1, <2>2 DEF BalanceKept
<1>3. ASSUME NEW s \in Sessions, RejectPayment(s) \/ Rollback(s) \/ DeadlockVictim(s)
      PROVE  BalanceKept'
  <2>1. req' = [req EXCEPT ![s] = Idle] /\ UNCHANGED <<invoice, payment, paid>>
    BY <1>3 DEF RejectPayment, Rollback, DeadlockVictim
  <2>2. req'[s].op = "none" /\ \A t \in Sessions \ {s} : req'[t] = req[t]
    BY <2>1, EndStep
  <2>3. ASSUME NEW t \in Sessions PROVE BalanceKeptAt(t)'
    BY <1>0, <2>1, <2>2 DEF BalanceKeptAt, Remaining
  <2> QED  BY <2>3 DEF BalanceKept
<1>4. ASSUME NEW s \in Sessions, Commit(s) PROVE BalanceKept'
  <2>1. req'[s].op = "none" /\ \A t \in Sessions \ {s} : req'[t] = req[t]
    BY <1>4, EndStep DEF Commit
  <2>2. BalanceKeptAt(s)'  BY <2>1 DEF BalanceKeptAt
  <2>3. ASSUME NEW t \in Sessions \ {s} PROVE BalanceKeptAt(t)'
    <3>1. CASE req[t].op # "create"  BY <2>1, <3>1 DEF BalanceKeptAt
    <3>2. CASE req[t].op = "create"
      <4>1. req[s].op # "none"  BY <1>0, <1>4 DEF Commit, WellFormed
      <4>2. req[t].inv \in Invoices /\ req[t].inv \notin Touches(req[s])
        BY <1>0, <3>2, <4>1 DEF PaymentsApart
      <4>3. invoice'[req[t].inv] = invoice[req[t].inv] /\ paid'[req[t].inv] = paid[req[t].inv]
        BY <1>4, <4>2, CommitLeaves
      <4>4. invoice[req[t].inv].state # "absent"  BY <1>0, <3>2 DEF BalanceKeptAt
      <4> QED  BY <1>0, <2>1, <4>3, <4>4, BalanceFrame
    <3> QED  BY <3>1, <3>2
  <2> QED  BY <2>2, <2>3 DEF BalanceKept
<1>5. CASE UNCHANGED vars
  BY <1>0, <1>5 DEF vars, BalanceKept, BalanceKeptAt, Remaining
<1> QED
  BY <1>1, <1>2, <1>3, <1>4, <1>5 DEF Next, Step

LEMMA NewPaymentFits ==
  ASSUME TypeOK, BalanceKept, [Next]_vars, NEW p \in Payments, NewPayment(p)
  PROVE  payment'[p].amount <= Remaining(payment'[p].invoice) + Tolerance
<1>1. PICK s \in Sessions : Commit(s)
  BY InvoiceStep, RequestStep, AcceptStep, BeginStep, WriteStep
     DEF Next, vars, Step, NewPayment, RejectPayment, Rollback, DeadlockVictim
<1> DEFINE r == req[s]
<1>2. p = r.pay /\ payment'[p] = PaymentAfter(r, payment[p])
  BY <1>1 DEF Commit, NewPayment
<1>3. r.op = "create" /\ r.at = "work"
  <2>1. WellFormed(r)  BY DEF TypeOK
  <2> QED  BY <1>1, <1>2, <2>1 DEF PaymentAfter, NewPayment, WellFormed, Commit
<1>4. payment'[p].invoice = r.inv /\ payment'[p].amount = r.amount
  BY <1>2, <1>3 DEF PaymentAfter
<1> QED  BY <1>3, <1>4 DEF BalanceKept, BalanceKeptAt

(* No payment exceeds the balance of its invoice where nobody else works on *)
(* that invoice while it is recorded: the wait for the row lock, with the   *)
(* balance read before it, is the only way around the check.                *)
THEOREM PaymentsWithinBalance == Spec /\ []PaymentsApart => WithinBalance
<1>1. Init => BalanceKept
  <2> SUFFICES ASSUME Init, NEW s \in Sessions PROVE BalanceKeptAt(s)
    BY DEF BalanceKept
  <2>1. req[s].op = "none"  BY DEF Init, Idle
  <2> QED  BY <2>1 DEF BalanceKeptAt
<1>2. TypeOK /\ BalanceKept /\ [Next]_vars =>
        [\A p \in Payments : NewPayment(p) =>
           payment'[p].amount <= Remaining(payment'[p].invoice) + Tolerance]_vars
  BY NewPaymentFits
<1> QED
  BY <1>1, <1>2, BalanceNext, TypeInit, TypeNext, PTL DEF Spec, WithinBalance

-----------------------------------------------------------------------------
(* What is paid on an invoice is the sum of its active payments.            *)

(* The payment that a transaction publishes is as it was when the           *)
(* transaction found it, and no other transaction works on that payment.    *)
SourceAt(s) ==
  LET r == req[s]
  IN /\ r.op \in {"none", "reprice"} => r.pay = NoPayment
     /\ r.op = "create" => r.pay \in Payments /\ payment[r.pay].state = "none"
     /\ r.op \in {"trash", "restore"} =>
          /\ r.alloc = payment[r.pay].alloc
          /\ payment[r.pay].state = IF r.op = "trash" THEN "active" ELSE "trashed"
Sources == \A s \in Sessions : SourceAt(s)

OneWriter ==
  \A s, t \in Sessions : (s # t /\ req[s].pay # NoPayment) => req[t].pay # req[s].pay

SumInv == TypeOK /\ Sources /\ OneWriter /\ PaidIsSumOfActive

(* A step that publishes no payment.                                        *)
LEMMA SumFrame ==
  ASSUME SumInv, NEW s \in Sessions, UNCHANGED <<payment, paid>>,
         \A t \in Sessions \ {s} : req'[t] = req[t],
         SourceAt(s)', req'[s].pay # NoPayment =>
                         \A t \in Sessions \ {s} : req[t].pay # req'[s].pay
  PROVE  Sources' /\ OneWriter' /\ PaidIsSumOfActive'
<1>1. ASSUME NEW t \in Sessions PROVE SourceAt(t)'
  <2>1. CASE t = s
    BY <2>1
  <2>2. CASE t # s
    BY <2>2 DEF SumInv, Sources, SourceAt
  <2> QED
    BY <2>1, <2>2
<1>2. OneWriter'
  BY DEF SumInv, OneWriter
<1>3. PaidIsSumOfActive'
  BY DEF SumInv, PaidIsSumOfActive, ActiveOn
<1> QED
  BY <1>1, <1>2, <1>3 DEF Sources

(* A transaction that begins.                                               *)
LEMMA SumRequest ==
  ASSUME SumInv, NEW s \in Sessions, Request(s)
  PROVE  Sources' /\ OneWriter' /\ PaidIsSumOfActive'
<1>1. ASSUME NEW j \in Invoices, NEW total \in Prices, UpdateInvoice(s, j, total)
      PROVE  Sources' /\ OneWriter' /\ PaidIsSumOfActive'
  <2>1. /\ req'[s].op = "reprice" /\ req'[s].pay = NoPayment /\ UNCHANGED <<payment, paid>>
        /\ \A t \in Sessions \ {s} : req'[t] = req[t]
    BY <1>1 DEF UpdateInvoice, SumInv, TypeOK, Idle
  <2>2. SourceAt(s)'
    BY <2>1 DEF SourceAt
  <2> QED
    BY <2>1, <2>2, SumFrame
<1>2. ASSUME NEW p \in Payments, NEW j \in Invoices, NEW a \in Amounts, NEW alloc,
             CreatePayment(s, p, j, a, alloc)
      PROVE  Sources' /\ OneWriter' /\ PaidIsSumOfActive'
  <2>1. /\ req'[s].op = "create" /\ req'[s].pay = p /\ UNCHANGED <<payment, paid>>
        /\ \A t \in Sessions \ {s} : req'[t] = req[t]
        /\ payment[p].state = "none" /\ \A t \in Sessions : req[t].pay # p
    BY <1>2 DEF CreatePayment, SumInv, TypeOK, Idle
  <2>2. SourceAt(s)'
    BY <2>1 DEF SourceAt
  <2> QED
    BY <2>1, <2>2, SumFrame
<1>3. ASSUME NEW p \in Payments, payment[p].state # "none", PaymentFree(p),
             NEW t \in Sessions, req[t].pay = p
      PROVE  FALSE
  <2>1. WellFormed(req[t]) /\ req[t] \in Requests /\ SourceAt(t)
    BY DEF SumInv, TypeOK, Sources
  <2>2. req[t].op \in {"none", "create", "reprice"}
    BY <1>3, <2>1 DEF PaymentFree, HoldsPayment, Requests, Ops
  <2> QED
    BY <1>3, <2>1, <2>2, NoPaymentAssumption DEF SourceAt
<1>4. ASSUME NEW p \in Payments, NEW j \in Invoices, NEW a \in Amounts, UpdatePayment(s, p, j, a)
      PROVE  Sources' /\ OneWriter' /\ PaidIsSumOfActive'
  <2>1. /\ req'[s].op = "update" /\ req'[s].pay = p /\ UNCHANGED <<payment, paid>>
        /\ \A t \in Sessions \ {s} : req'[t] = req[t]
    BY <1>4 DEF UpdatePayment, SumInv, TypeOK, Idle
  <2>2. \A t \in Sessions : req[t].pay # p
    BY <1>3, <1>4 DEF UpdatePayment
  <2>3. SourceAt(s)'
    BY <2>1 DEF SourceAt
  <2> QED
    BY <2>1, <2>2, <2>3, SumFrame
<1>5. ASSUME NEW p \in Payments,
             NEW op \in {"trash", "restore"}, NEW from, FlipPayment(s, p, op, from),
             from = IF op = "trash" THEN "active" ELSE "trashed"
      PROVE  Sources' /\ OneWriter' /\ PaidIsSumOfActive'
  <2>1. /\ req'[s].op = op /\ req'[s].pay = p /\ UNCHANGED <<payment, paid>>
        /\ req'[s].alloc = payment[p].alloc /\ payment[p].state = from
        /\ \A t \in Sessions \ {s} : req'[t] = req[t]
    BY <1>5 DEF FlipPayment, SumInv, TypeOK, Idle
  <2>2. \A t \in Sessions : req[t].pay # p
    BY <1>3, <1>5 DEF FlipPayment
  <2>3. SourceAt(s)'
    BY <1>5, <2>1 DEF SourceAt
  <2> QED
    BY <2>1, <2>2, <2>3, SumFrame
<1> QED
  BY <1>1, <1>2, <1>4, <1>5 DEF Request, TrashPayment, RestorePayment

(* A COMMIT moves one term of the sum by what it adds to the amounts paid.  *)
LEMMA SumCommit ==
  ASSUME IsFiniteSet(Payments), SumInv, NEW s \in Sessions, Commit(s)
  PROVE  PaidIsSumOfActive'
<1> DEFINE r == req[s]
<1>0. TypeOK /\ r \in Requests /\ WellFormed(r) /\ SourceAt(s)
  BY DEF SumInv, TypeOK, Sources
<1> SUFFICES ASSUME NEW j \in Invoices
             PROVE  paid'[j] = SumFunctionOnSet(ActiveOn(j)', Payments)
  BY DEF PaidIsSumOfActive
<1> DEFINE before == ActiveOn(j)
           after  == ActiveOn(j)'
<1>1. paid'[j] = paid[j] + Delta(r, j) /\ Delta(r, j) \in Int
  BY <1>0, DeltaType DEF Commit
<1>2. paid[j] = SumFunctionOnSet(before, Payments) /\ paid[j] \in Int
  BY <1>0 DEF SumInv, PaidIsSumOfActive, TypeOK
<1>3. \A p \in Payments : payment'[p] = IF p = r.pay THEN PaymentAfter(r, payment[p]) ELSE payment[p]
  BY DEF Commit
<1>4. \A p \in Payments : payment[p] \in PaymentRows /\ payment'[p] \in PaymentRows
  BY <1>0, TypeCommit DEF TypeOK
<1>5. \A p \in Payments : before[p] \in Int /\ after[p] \in Int
  BY <1>4 DEF ActiveOn, PaymentRows, Allocations, Totals
<1>6. \A p \in Payments \ {r.pay} : after[p] = before[p]
  BY <1>3 DEF ActiveOn
<1>7. CASE r.op \in {"create", "trash", "restore"}
  <2>1. r.pay \in Payments
    BY <1>0, <1>7 DEF SourceAt, WellFormed, Requests
  <2>2. after[r.pay] - before[r.pay] = Delta(r, j)
    <3> DEFINE old == payment[r.pay]
               new == payment'[r.pay]
    <3>1. /\ old \in PaymentRows /\ new = PaymentAfter(r, old)
          /\ before[r.pay] = IF old.state = "active" THEN old.alloc[j] ELSE 0
          /\ after[r.pay] = IF new.state = "active" THEN new.alloc[j] ELSE 0
      BY <1>3, <1>4, <2>1 DEF ActiveOn
    <3>2. /\ r.op = "create" => old.state = "none"
          /\ r.op = "trash" => old.state = "active" /\ r.alloc = old.alloc
          /\ r.op = "restore" => old.state = "trashed" /\ r.alloc = old.alloc
          /\ r.alloc[j] \in Int
      BY <1>0 DEF SourceAt, Requests, Allocations, Totals
    <3>3. /\ r.op = "create" => new.state = "active" /\ new.alloc = r.alloc
          /\ r.op = "trash" => new.state = "trashed"
          /\ r.op = "restore" => new.state = "active" /\ new.alloc = old.alloc
      <4> HIDE DEF old, new
      <4> QED
        BY <3>1 DEF PaymentAfter, PaymentRows
    <3> HIDE DEF old, new, before, after
    <3> QED
      BY <1>7, <3>1, <3>2, <3>3 DEF Delta
  <2> HIDE DEF before, after
  <2>3. SumFunctionOnSet(after, Payments)
          = SumFunctionOnSet(before, Payments) + (after[r.pay] - before[r.pay])
    BY <1>5, <1>6, <2>1, SumChangeOne
  <2> QED
    BY <1>1, <1>2, <2>2, <2>3 DEF after
<1>8. CASE r.op \notin {"create", "trash", "restore"}
  <2>1. \A p \in Payments : after[p] = before[p]
    <3>1. ASSUME NEW p \in Payments PROVE /\ payment'[p].state = payment[p].state
                                          /\ payment'[p].alloc = payment[p].alloc
      <4> DEFINE old == payment[p]
      <4>1. PaymentAfter(r, old).state = old.state /\ PaymentAfter(r, old).alloc = old.alloc
        <5>1. old \in PaymentRows
          BY <1>4
        <5> HIDE DEF old
        <5> QED
          BY <1>8, <5>1 DEF PaymentAfter, PaymentRows
      <4> QED
        BY <1>3, <4>1
    <3> QED
      BY <3>1 DEF ActiveOn
  <2>2. Delta(r, j) = 0
    BY <1>8 DEF Delta
  <2> HIDE DEF before, after
  <2>3. SumFunctionOnSet(after, Payments) = SumFunctionOnSet(before, Payments)
    BY <1>5, <2>1, SumEqual
  <2> QED
    BY <1>1, <1>2, <2>2, <2>3 DEF after
<1> QED
  BY <1>7, <1>8

LEMMA SumNext == IsFiniteSet(Payments) /\ SumInv /\ [Next]_vars => SumInv'
<1> SUFFICES ASSUME IsFiniteSet(Payments), SumInv, [Next]_vars
             PROVE  Sources' /\ OneWriter' /\ PaidIsSumOfActive'
  BY TypeNext DEF SumInv
<1>0. /\ TypeOK /\ Sources /\ OneWriter /\ PaidIsSumOfActive
  BY DEF SumInv
<1>1. ASSUME NEW j \in Invoices, InvoiceRequest(j) PROVE Sources' /\ OneWriter' /\ PaidIsSumOfActive'
  <2>1. UNCHANGED <<payment, paid, req>>
    BY <1>1 DEF InvoiceRequest, CreateInvoice, ValidateInvoice, CancelInvoice, RemoveInvoice
  <2> QED
    BY <1>0, <2>1 DEF Sources, SourceAt, OneWriter, PaidIsSumOfActive, ActiveOn
<1>2. ASSUME NEW s \in Sessions,
             AcceptPayment(s) \/ WriteRefresh(s) \/ \E j \in Invoices : BeginRefresh(s, j)
      PROVE  Sources' /\ OneWriter' /\ PaidIsSumOfActive'
  <2>1. /\ req'[s].op = req[s].op /\ req'[s].pay = req[s].pay /\ req'[s].alloc = req[s].alloc
        /\ UNCHANGED <<payment, paid>> /\ \A t \in Sessions \ {s} : req'[t] = req[t]
    <3>1. req[s] \in Requests
      BY <1>0 DEF TypeOK
    <3>2. CASE AcceptPayment(s)
      BY <1>0, <3>1, <3>2 DEF AcceptPayment, TypeOK, Requests
    <3>3. CASE WriteRefresh(s)
      BY <1>0, <3>1, <3>3 DEF WriteRefresh, TypeOK, Requests
    <3>4. ASSUME NEW j \in Invoices, BeginRefresh(s, j)
          PROVE  /\ req'[s].op = req[s].op /\ req'[s].pay = req[s].pay /\ req'[s].alloc = req[s].alloc
                 /\ UNCHANGED <<payment, paid>> /\ \A t \in Sessions \ {s} : req'[t] = req[t]
      BY <1>0, <3>1, <3>4 DEF BeginRefresh, TypeOK, Requests
    <3> QED
      BY <1>2, <3>2, <3>3, <3>4
  <2>2. SourceAt(s)'
    BY <1>0, <2>1 DEF Sources, SourceAt
  <2>3. req'[s].pay # NoPayment => \A t \in Sessions \ {s} : req[t].pay # req'[s].pay
    BY <1>0, <2>1 DEF OneWriter
  <2> QED
    BY <2>1, <2>2, <2>3, SumFrame
<1>3. ASSUME NEW s \in Sessions, RejectPayment(s) \/ Rollback(s) \/ DeadlockVictim(s)
      PROVE  Sources' /\ OneWriter' /\ PaidIsSumOfActive'
  <2>1. req'[s] = Idle /\ UNCHANGED <<payment, paid>> /\ \A t \in Sessions \ {s} : req'[t] = req[t]
    BY <1>0, <1>3 DEF TypeOK, RejectPayment, Rollback, DeadlockVictim
  <2>2. SourceAt(s)' /\ req'[s].pay = NoPayment
    BY <2>1 DEF SourceAt, Idle
  <2> QED
    BY <2>1, <2>2, SumFrame
<1>4. ASSUME NEW s \in Sessions, Commit(s) PROVE Sources' /\ OneWriter' /\ PaidIsSumOfActive'
  <2>1. req'[s] = Idle /\ \A t \in Sessions \ {s} : req'[t] = req[t]
    BY <1>0, <1>4 DEF TypeOK, Commit
  <2>2. Idle.pay = NoPayment /\ Idle.op = "none"
    BY DEF Idle
  <2>3. OneWriter'
    BY <1>0, <2>1, <2>2 DEF OneWriter
  <2>4. ASSUME NEW t \in Sessions PROVE SourceAt(t)'
    <3>1. CASE t = s
      BY <2>1, <2>2, <3>1 DEF SourceAt
    <3>2. CASE t # s /\ req[t].op \in {"create", "trash", "restore"}
      <4>1. req[t].pay \in Payments /\ req[t].pay # NoPayment
        BY <1>0, <3>2, NoPaymentAssumption DEF Sources, SourceAt, TypeOK, WellFormed, Requests
      <4>2. req[s].pay # req[t].pay
        BY <1>0, <3>2, <4>1 DEF OneWriter
      <4>3. payment'[req[t].pay] = payment[req[t].pay]
        BY <1>4, <4>1, <4>2 DEF Commit
      <4> QED
        BY <1>0, <2>1, <3>2, <4>1, <4>3 DEF Sources, SourceAt
    <3>3. CASE t # s /\ req[t].op \notin {"create", "trash", "restore"}
      BY <1>0, <2>1, <3>3 DEF Sources, SourceAt
    <3> QED
      BY <3>1, <3>2, <3>3
  <2> QED
    BY <1>4, <2>3, <2>4, SumCommit DEF Sources
<1>5. CASE UNCHANGED vars
  BY <1>0, <1>5 DEF vars, Sources, SourceAt, OneWriter, PaidIsSumOfActive, ActiveOn
<1>6. ASSUME NEW s \in Sessions, Request(s) PROVE Sources' /\ OneWriter' /\ PaidIsSumOfActive'
  BY <1>6, SumRequest
<1> QED
  BY <1>1, <1>2, <1>3, <1>4, <1>5, <1>6 DEF Next, Step

(* The view counts every active payment once, whatever is recorded, edited, *)
(* trashed and restored at once: whoever publishes a payment holds its row, *)
(* so it publishes the allocations that it read.                            *)
THEOREM PaidFollowsPayments ==
  ASSUME IsFiniteSet(Payments)
  PROVE  Spec => []PaidIsSumOfActive
<1>1. Init => SumInv
  <2> SUFFICES ASSUME Init PROVE Sources /\ OneWriter /\ PaidIsSumOfActive
    BY TypeInit DEF SumInv
  <2>1. \A s \in Sessions : req[s].op = "none" /\ req[s].pay = NoPayment
    BY DEF Init, Idle
  <2>2. ASSUME NEW j \in Invoices PROVE paid[j] = SumFunctionOnSet(ActiveOn(j), Payments)
    <3> DEFINE terms == ActiveOn(j)
    <3>1. \A p \in Payments : terms[p] = 0
      BY DEF ActiveOn, Init
    <3> HIDE DEF terms
    <3>2. SumFunctionOnSet(terms, Payments) = 0
      BY <3>1, SumZero
    <3> QED
      BY <3>2 DEF terms, Init
  <2> QED
    BY <2>1, <2>2 DEF Sources, SourceAt, OneWriter, PaidIsSumOfActive
<1>2. SumInv /\ [Next]_vars => SumInv'
  BY SumNext
<1>3. SumInv => PaidIsSumOfActive
  BY DEF SumInv
<1> QED
  BY <1>1, <1>2, <1>3, PTL DEF Spec

===============================================================================

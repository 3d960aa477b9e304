------------------------------ MODULE Estate_proofs ------------------------------
(***************************************************************************)
(* Proofs about what the owner of a building keeps besides its rents: the   *)
(* leases, the tickets of its maintenance (M), the emails (E) and the staff *)
(* (H), for any number of rows, days, amounts and concurrent requests.      *)
(***************************************************************************)
EXTENDS Leases, EmailLogs, PayrollBooks, Sums, TLAPS

CONSTANTS Tickets, Flows, MaxCharges, TicketEndpoints
VARIABLES ticket, flow, charges, mReq

CONSTANTS Callers, Ticks, MaxRetries, MaxPerRun, MaxCrashes
VARIABLES enabled, crashes, eReq

CONSTANTS Salaries, Bonuses, MaxAdvance, MaxPaid, StaffEndpoints
VARIABLES salary, hReq

M == INSTANCE Maintenance WITH req <- mReq, Endpoints <- TicketEndpoints
E == INSTANCE EmailOutbox WITH req <- eReq
H == INSTANCE Payroll WITH req <- hReq, Endpoints <- StaffEndpoints

-----------------------------------------------------------------------------
(* Leases.                                                                  *)

Writing(s) == req[s].op # "none" /\ req[s].stage >= 3

(* A request is about a lease.                                              *)
Named == \A s \in Sessions : req[s].op # "none" => req[s].id \in LeaseIds

(* What one transaction has locked no other has.                            *)
Exclusion == \A s, t \in Sessions : s # t => req[s].held \cap req[t].held = {}

(* A transaction that has written a row in force keeps the key of its unit  *)
(* in the index, and no other lease has that key.                           *)
KeyHeld ==
  \A s \in Sessions : Writing(s) /\ Occupies(req[s].row) => <<"active", req[s].row.unit>> \in req[s].held
KeyFree ==
  \A s \in Sessions : Writing(s) /\ Occupies(req[s].row) =>
    \A l \in LeaseIds \ {req[s].id} : ~(Occupies(lease[l]) /\ lease[l].unit = req[s].row.unit)

(* The index: committed rows, those of the archive included.                *)
Unique ==
  \A l, m \in LeaseIds :
    l # m /\ Occupies(lease[l]) /\ Occupies(lease[m]) => lease[l].unit # lease[m].unit

IndexInv == TypeOK /\ Named /\ Exclusion /\ KeyHeld /\ KeyFree /\ Unique

-----------------------------------------------------------------------------
(* Types of what requests compute.                                          *)
LEMMA NoLeaseTyped == NoLease \in Rows
BY DaysAssumption DEF NoLease, Rows, States, Spaces, NoEnd

LEMMA IdleTyped == Idle \in Requests
BY NoLeaseTyped DEF Idle, Requests

LEMMA WrittenTyped ==
  ASSUME TypeOK, NEW r \in Requests, r.id \in LeaseIds
  PROVE  Written(r) \in Rows
<1> DEFINE row == lease[r.id]
<1>1. row \in Rows /\ r.row \in Rows  BY DEF TypeOK, Requests
<1>2. [r.row EXCEPT !.archived = row.archived] \in Rows  BY <1>1 DEF Rows
<1>3. [row EXCEPT !.state = "ACTIVE"] \in Rows  BY <1>1 DEF Rows, States
<1>4. Terminated(row) \in Rows
  <2> DEFINE ended == [row EXCEPT !.state = "TERMINATED"]
  <2>1. ended \in Rows  BY <1>1 DEF Rows, States
  <2>2. Today \in 1..NoEnd  BY DaysAssumption DEF NoEnd
  <2> HIDE DEF ended
  <2>3. [ended EXCEPT !.end = Today] \in Rows  BY <2>1, <2>2 DEF Rows
  <2>4. Terminated(row) = IF row.end = NoEnd THEN [ended EXCEPT !.end = Today] ELSE ended
    BY <1>1 DEF Terminated, ended, Rows
  <2> QED  BY <2>1, <2>3, <2>4
<1>5. [row EXCEPT !.deleted = TRUE] \in Rows /\ [row EXCEPT !.deleted = FALSE] \in Rows
  BY <1>1 DEF Rows
<1>6. [row EXCEPT !.deleted = FALSE, !.archived = TRUE] \in Rows
  BY <1>1 DEF Rows
<1> HIDE DEF row
<1> QED  BY <1>1, <1>2, <1>3, <1>4, <1>5, <1>6, NoLeaseTyped DEF Written, row

LEMMA TargetTyped ==
  ASSUME NEW r \in Requests
  PROVE  Target(r) \in Spaces
BY DEF Target, Requests, Rows

LEMMA WantedTyped ==
  ASSUME TypeOK, NEW r \in Requests, r.id \in LeaseIds
  PROVE  Wanted(r) \subseteq Locks
<1>1. {<<"number">>, <<"building">>} \subseteq Locks  BY DEF Locks
<1>2. <<"lease", r.id>> \in Locks  BY DEF Locks
<1>3. <<"active", Written(r).unit>> \in Locks  BY WrittenTyped DEF Locks, Rows
<1>4. {"unit"} \X Spaces \subseteq Locks /\ <<"unit", Target(r)>> \in Locks
  BY TargetTyped DEF Locks
<1> QED  BY <1>1, <1>2, <1>3, <1>4 DEF Wanted

-----------------------------------------------------------------------------
(* The shapes of a step: a request begins or ends, or goes on.              *)
LEMMA EndsIdle ==
  ASSUME IndexInv, NEW s \in Sessions, req' = [req EXCEPT ![s] = Idle], UNCHANGED <<lease, unit>>
  PROVE  IndexInv'
<1>1. req'[s] = Idle /\ \A t \in Sessions \ {s} : req'[t] = req[t]  BY DEF IndexInv, TypeOK
<1>2. TypeOK'  BY IdleTyped DEF IndexInv, TypeOK
<1>3. ~Writing(s)' /\ Idle.held = {} /\ Idle.op = "none"  BY <1>1 DEF Writing, Idle
<1>4. Named' /\ Exclusion'  BY <1>1, <1>3 DEF IndexInv, Named, Exclusion
<1>5. KeyHeld' /\ KeyFree'  BY <1>1, <1>3 DEF IndexInv, KeyHeld, KeyFree, Writing, Occupies
<1>6. Unique'  BY DEF IndexInv, Unique, Occupies
<1> QED  BY <1>2, <1>4, <1>5, <1>6 DEF IndexInv

LEMMA BeginsKept ==
  ASSUME IndexInv, NEW s \in Sessions, NEW r \in Requests, r.id \in LeaseIds, r.stage = 0,
         r.held = {}, Begin(s, r)
  PROVE  IndexInv'
<1>1. req'[s] = r /\ \A t \in Sessions \ {s} : req'[t] = req[t]  BY DEF Begin, IndexInv, TypeOK
<1>2. TypeOK'  BY DEF Begin, IndexInv, TypeOK
<1>3. ~Writing(s)'  BY <1>1 DEF Writing
<1>4. Named' /\ Exclusion'  BY <1>1 DEF IndexInv, Named, Exclusion
<1>5. KeyHeld' /\ KeyFree'  BY <1>1, <1>3 DEF IndexInv, KeyHeld, KeyFree, Writing, Occupies, Begin
<1>6. Unique'  BY DEF IndexInv, Unique, Occupies, Begin
<1> QED  BY <1>2, <1>4, <1>5, <1>6 DEF IndexInv

LEMMA RequestKept ==
  ASSUME IndexInv, NEW s \in Sessions, Request(s)
  PROVE  IndexInv'
<1>1. 1 \in 1..Horizon /\ NoEnd \in 1..NoEnd  BY DaysAssumption DEF NoEnd
<1>2. ASSUME NEW l \in LeaseIds, NEW op \in AllEndpoints, NEW row \in Rows,
             Begin(s, [Idle EXCEPT !.op = op, !.id = l, !.row = row])
      PROVE  IndexInv'
  <2> DEFINE a == [Idle EXCEPT !.op = op]
             b == [a EXCEPT !.id = l]
             r == [b EXCEPT !.row = row]
  <2>1. a \in Requests /\ a.stage = 0 /\ a.held = {}  BY IdleTyped DEF Requests, Idle
  <2> HIDE DEF a
  <2>2. b \in Requests /\ b.stage = 0 /\ b.held = {} /\ b.id = l  BY <2>1 DEF Requests
  <2> HIDE DEF b
  <2>3. r \in Requests /\ r.stage = 0 /\ r.held = {} /\ r.id = l  BY <2>2 DEF Requests
  <2> HIDE DEF r
  <2>4. Begin(s, r)  BY <1>2 DEF r, b, a
  <2> QED  BY <2>3, <2>4, BeginsKept
<1>3. ASSUME NEW state \in States, NEW u \in Spaces
      PROVE  [NoLease EXCEPT !.state = state, !.unit = u] \in Rows
  <2>1. [NoLease EXCEPT !.state = state] \in Rows  BY NoLeaseTyped DEF Rows
  <2> QED  BY <2>1 DEF Rows
<1>4. ASSUME NEW l \in LeaseIds, NEW u \in Spaces, NEW start \in 1..Horizon, NEW end \in 1..NoEnd,
             NEW state \in {"DRAFT", "ACTIVE"},
             Begin(s, [Idle EXCEPT !.op = "create", !.id = l,
               !.row = [NoLease EXCEPT !.state = state, !.unit = u, !.start = start, !.end = end]])
      PROVE  IndexInv'
  <2> DEFINE a == [NoLease EXCEPT !.state = state, !.unit = u]
             b == [a EXCEPT !.start = start]
             row == [b EXCEPT !.end = end]
  <2>1. a \in Rows  BY <1>3 DEF States
  <2> HIDE DEF a
  <2>2. b \in Rows  BY <2>1 DEF Rows
  <2> HIDE DEF b
  <2>3. row \in Rows  BY <2>2 DEF Rows
  <2> HIDE DEF row
  <2>4. Begin(s, [Idle EXCEPT !.op = "create", !.id = l, !.row = row])  BY <1>4 DEF row, b, a
  <2> QED  BY <1>2, <2>3, <2>4 DEF AllEndpoints
<1>5. ASSUME NEW l \in LeaseIds, NEW u \in Spaces, NEW state \in States \ {"none"},
             Begin(s, [Idle EXCEPT !.op = "edit", !.id = l,
               !.row = [NoLease EXCEPT !.state = state, !.unit = u]])
      PROVE  IndexInv'
  <2> DEFINE row == [NoLease EXCEPT !.state = state, !.unit = u]
  <2>1. row \in Rows  BY <1>3
  <2> HIDE DEF row
  <2>2. Begin(s, [Idle EXCEPT !.op = "edit", !.id = l, !.row = row])  BY <1>5 DEF row
  <2> QED  BY <1>2, <2>1, <2>2 DEF AllEndpoints
<1>6. ASSUME NEW l \in LeaseIds, NEW op \in Endpoints, Begin(s, [Idle EXCEPT !.op = op, !.id = l])
      PROVE  IndexInv'
  <2> DEFINE a == [Idle EXCEPT !.op = op]
             r == [a EXCEPT !.id = l]
  <2>1. a \in Requests /\ a.stage = 0 /\ a.held = {}
    BY IdleTyped, EndpointsAssumption DEF Requests, Idle
  <2> HIDE DEF a
  <2>2. r \in Requests /\ r.stage = 0 /\ r.held = {} /\ r.id = l  BY <2>1 DEF Requests
  <2> HIDE DEF r
  <2>3. Begin(s, r)  BY <1>6 DEF r, a
  <2> QED  BY <2>2, <2>3, BeginsKept
<1> QED  BY <1>4, <1>5, <1>6 DEF Request

(* A request that goes on keeps its locks and takes free ones; what it      *)
(* writes is protected by them.                                             *)
LEMMA GoesOn ==
  ASSUME IndexInv, NEW s \in Sessions, NEW r, NEW locks,
         req' = [req EXCEPT ![s] = r], UNCHANGED <<lease, unit>>,
         r \in Requests, r.id = req[s].id, r.id \in LeaseIds, r.held = req[s].held \cup locks,
         Free(s, locks),
         r.stage >= 3 /\ Occupies(r.row) =>
           /\ <<"active", r.row.unit>> \in r.held
           /\ \A l \in LeaseIds \ {r.id} : ~(Occupies(lease[l]) /\ lease[l].unit = r.row.unit)
  PROVE  IndexInv'
<1>1. req'[s] = r /\ \A t \in Sessions \ {s} : req'[t] = req[t]  BY DEF IndexInv, TypeOK
<1>2. TypeOK'  BY DEF IndexInv, TypeOK
<1>3. Named'  BY <1>1 DEF IndexInv, Named
<1>4. Exclusion'  BY <1>1 DEF IndexInv, Exclusion, Free
<1>5. KeyHeld'
  <2> SUFFICES ASSUME NEW t \in Sessions, Writing(t)', Occupies(req'[t].row)
               PROVE  <<"active", req'[t].row.unit>> \in req'[t].held
    BY DEF KeyHeld, Occupies
  <2>1. CASE t = s  BY <1>1, <2>1 DEF Writing
  <2>2. CASE t # s  BY <1>1, <2>2 DEF IndexInv, KeyHeld, Writing
  <2> QED  BY <2>1, <2>2
<1>6. KeyFree'
  <2> SUFFICES ASSUME NEW t \in Sessions, Writing(t)', Occupies(req'[t].row),
                      NEW l \in LeaseIds \ {req'[t].id}
               PROVE  ~(Occupies(lease[l]) /\ lease[l].unit = req'[t].row.unit)
    BY DEF KeyFree, Occupies
  <2>1. CASE t = s  BY <1>1, <2>1 DEF Writing
  <2>2. CASE t # s  BY <1>1, <2>2 DEF IndexInv, KeyFree, Writing
  <2> QED  BY <2>1, <2>2
<1>7. Unique'  BY DEF IndexInv, Unique, Occupies
<1> QED  BY <1>2, <1>3, <1>4, <1>5, <1>6, <1>7 DEF IndexInv

(* The same, for the statements that wait for what they want.               *)
LEMMA ContinueKept ==
  ASSUME IndexInv, NEW s \in Sessions, NEW stage, Runs(s, stage), NEW next, Continue(s, next),
         next \in Requests, next.id = req[s].id, next.held = req[s].held,
         next.stage >= 3 /\ Occupies(next.row) =>
           /\ <<"active", next.row.unit>> \in req[s].held \cup Wanted(req[s])
           /\ \A l \in LeaseIds \ {next.id} : ~(Occupies(lease[l]) /\ lease[l].unit = next.row.unit)
  PROVE  IndexInv'
<1> DEFINE locks == Wanted(req[s])
           r == [next EXCEPT !.held = @ \cup locks]
<1>1. req[s] \in Requests /\ req[s].id \in LeaseIds /\ Free(s, locks)
  BY DEF IndexInv, TypeOK, Named, Runs
<1>2. locks \subseteq Locks  BY <1>1, WantedTyped DEF IndexInv
<1>3. req' = [req EXCEPT ![s] = r] /\ UNCHANGED <<lease, unit>>  BY DEF Continue
<1> HIDE DEF locks
<1>4. r \in Requests /\ r.id = next.id /\ r.stage = next.stage /\ r.row = next.row
        /\ r.held = next.held \cup locks
  BY <1>2 DEF Requests
<1> HIDE DEF r
<1>5. r.stage >= 3 /\ Occupies(r.row) =>
           /\ <<"active", r.row.unit>> \in r.held
           /\ \A l \in LeaseIds \ {r.id} : ~(Occupies(lease[l]) /\ lease[l].unit = r.row.unit)
  BY <1>4 DEF Occupies, locks
<1> QED  BY <1>1, <1>3, <1>4, <1>5, GoesOn

(* The same, for the statements before the UPDATE.                          *)
LEMMA EarlyKept ==
  ASSUME IndexInv, NEW s \in Sessions, NEW stage, Runs(s, stage), NEW next, Continue(s, next),
         next \in Requests, next.id = req[s].id, next.held = req[s].held, next.stage \in {1, 2}
  PROVE  IndexInv'
<1>1. ~(next.stage >= 3 /\ Occupies(next.row))  OBVIOUS
<1>2. next.stage >= 3 /\ Occupies(next.row) =>
           /\ <<"active", next.row.unit>> \in req[s].held \cup Wanted(req[s])
           /\ \A l \in LeaseIds \ {next.id} : ~(Occupies(lease[l]) /\ lease[l].unit = next.row.unit)
  BY <1>1
<1> QED  BY <1>2, ContinueKept

LEMMA ReadKept ==
  ASSUME IndexInv, NEW s \in Sessions, ReadLease(s)
  PROVE  IndexInv'
<1> DEFINE r == req[s]
<1>1. r \in Requests /\ r.id \in LeaseIds /\ lease[r.id] \in Rows
  BY DEF IndexInv, TypeOK, Named, ReadLease, Runs
<1>2. Runs(s, 0)  BY DEF ReadLease
<1>3. CASE r.op = "create"
  <2> DEFINE next == [r EXCEPT !.stage = 1]
  <2>1. next \in Requests /\ next.id = r.id /\ next.held = r.held /\ next.stage = 1
    BY <1>1 DEF Requests
  <2>2. Continue(s, next)  BY <1>3 DEF ReadLease
  <2> HIDE DEF next
  <2> QED  BY <1>2, <2>1, <2>2, EarlyKept
<1>4. CASE r.op # "create"
  <2> DEFINE a == [r EXCEPT !.stage = 1]
             b == [a EXCEPT !.read = lease[r.id]]
             next == [b EXCEPT !.row = Merged(r, lease[r.id])]
  <2>1. Merged(r, lease[r.id]) \in Rows
    <3> DEFINE row == [lease[r.id] EXCEPT !.state = r.row.state]
    <3>1. r.row \in Rows  BY <1>1 DEF Requests
    <3>2. row \in Rows  BY <1>1, <3>1 DEF Rows
    <3> HIDE DEF row
    <3>3. [row EXCEPT !.unit = r.row.unit] \in Rows  BY <3>1, <3>2 DEF Rows
    <3>4. [lease[r.id] EXCEPT !.state = r.row.state, !.unit = r.row.unit] \in Rows  BY <3>3 DEF row
    <3> QED  BY <3>1, <3>4 DEF Merged
  <2>2. a \in Requests /\ a.id = r.id /\ a.held = r.held /\ a.stage = 1  BY <1>1 DEF Requests
  <2> HIDE DEF a
  <2>3. b \in Requests /\ b.id = r.id /\ b.held = r.held /\ b.stage = 1  BY <1>1, <2>2 DEF Requests
  <2> HIDE DEF b
  <2>4. next \in Requests /\ next.id = r.id /\ next.held = r.held /\ next.stage = 1
    BY <2>1, <2>3 DEF Requests
  <2> HIDE DEF next
  <2>5. Continue(s, next)  BY <1>4 DEF ReadLease, next, b, a
  <2> QED  BY <1>2, <2>4, <2>5, EarlyKept
<1> QED  BY <1>3, <1>4

LEMMA CheckKept ==
  ASSUME IndexInv, NEW s \in Sessions, CheckConflict(s)
  PROVE  IndexInv'
<1> DEFINE next == [req[s] EXCEPT !.stage = 2]
<1>1. req[s] \in Requests  BY DEF IndexInv, TypeOK
<1>2. next \in Requests /\ next.id = req[s].id /\ next.held = req[s].held /\ next.stage = 2
  BY <1>1 DEF Requests
<1>3. Runs(s, 1) /\ Continue(s, next)  BY DEF CheckConflict
<1> HIDE DEF next
<1> QED  BY <1>2, <1>3, EarlyKept

(* The UPDATE takes the key of the index and finds it free.                 *)
LEMMA WriteKept ==
  ASSUME IndexInv, NEW s \in Sessions, WriteLease(s)
  PROVE  IndexInv'
<1> DEFINE r == req[s]
           row == Written(r)
           alone == \A l \in LeaseIds \ {r.id} : ~(Let(lease[l]) /\ lease[l].unit = Target(r))
           own == IF Occupying(r) THEN "OCCUPIED" ELSE IF Freeing(r) /\ alone THEN "VACANT" ELSE "none"
           a == [r EXCEPT !.stage = 3]
           b == [a EXCEPT !.row = row]
           next == [b EXCEPT !.own = own]
<1>1. r \in Requests /\ r.id \in LeaseIds /\ Runs(s, 2) /\ r.stage = 2
  BY DEF IndexInv, TypeOK, Named, WriteLease, Runs
<1>2. row \in Rows  BY <1>1, WrittenTyped DEF IndexInv
<1>3. Occupies(row) =>
        \A l \in LeaseIds \ {r.id} : ~(Occupies(lease[l]) /\ lease[l].unit = row.unit)
  BY DEF WriteLease
<1>4. Occupies(row) => <<"active", row.unit>> \in Wanted(r)
  BY <1>1 DEF Wanted
<1>5. Continue(s, next)  BY DEF WriteLease
<1>6. own \in {"none", "VACANT", "OCCUPIED"}  OBVIOUS
<1> HIDE DEF own, row
<1>7. a \in Requests /\ a.id = r.id /\ a.held = r.held /\ a.stage = 3  BY <1>1 DEF Requests
<1> HIDE DEF a
<1>8. b \in Requests /\ b.id = r.id /\ b.held = r.held /\ b.stage = 3 /\ b.row = row
  BY <1>2, <1>7 DEF Requests
<1> HIDE DEF b
<1>9. next \in Requests /\ next.id = r.id /\ next.held = r.held /\ next.row = row
  BY <1>6, <1>8 DEF Requests
<1> HIDE DEF next
<1> QED  BY <1>1, <1>3, <1>4, <1>5, <1>9, ContinueKept

LEMMA BuildingKept ==
  ASSUME IndexInv, NEW s \in Sessions, ReadBuilding(s)
  PROVE  IndexInv'
<1> DEFINE r == req[s]
           own == {u \in {Target(r)} : r.own # "none"}
           mine == IF r.own = "OCCUPIED" /\ Target(r) = Whole THEN Spaces ELSE own
           locks == {"unit"} \X mine
           seen == {l \in LeaseIds : Let(IF l = r.id THEN r.row ELSE lease[l])}
           a == [r EXCEPT !.stage = 4]
           b == [a EXCEPT !.held = r.held \cup locks]
           next == [b EXCEPT !.seen = seen]
<1>1. r \in Requests /\ r.id \in LeaseIds /\ r.stage = 3 /\ r.op # "none"
  BY DEF IndexInv, TypeOK, Named, ReadBuilding, Runs
<1>2. mine \subseteq Spaces  BY <1>1, TargetTyped
<1>3. seen \subseteq LeaseIds  OBVIOUS
<1>4. locks \subseteq Locks  BY <1>2 DEF Locks
<1>5. Free(s, locks) /\ UNCHANGED <<lease, unit>>  BY DEF ReadBuilding
<1>6. req' = [req EXCEPT ![s] = next]  BY <1>1 DEF ReadBuilding, Requests
<1> HIDE DEF own, mine, locks, seen
<1>7. a \in Requests /\ a.id = r.id /\ a.held = r.held /\ a.row = r.row  BY <1>1 DEF Requests
<1> HIDE DEF a
<1>8. b \in Requests /\ b.id = r.id /\ b.held = r.held \cup locks /\ b.row = r.row
  BY <1>1, <1>4, <1>7 DEF Requests
<1> HIDE DEF b
<1>9. next \in Requests /\ next.id = r.id /\ next.held = r.held \cup locks /\ next.row = r.row
  BY <1>3, <1>8 DEF Requests
<1> HIDE DEF next
<1>10. Occupies(r.row) =>
         /\ <<"active", r.row.unit>> \in r.held
         /\ \A l \in LeaseIds \ {r.id} : ~(Occupies(lease[l]) /\ lease[l].unit = r.row.unit)
  BY <1>1 DEF IndexInv, KeyHeld, KeyFree, Writing
<1>11. Occupies(next.row) =>
         /\ <<"active", next.row.unit>> \in next.held
         /\ \A l \in LeaseIds \ {next.id} : ~(Occupies(lease[l]) /\ lease[l].unit = next.row.unit)
  BY <1>9, <1>10
<1> QED  BY <1>1, <1>5, <1>6, <1>9, <1>11, GoesOn

(* The commit publishes a row whose key nobody else has or is about to have. *)
LEMMA CommitKept ==
  ASSUME IndexInv, NEW s \in Sessions, Commit(s)
  PROVE  IndexInv'
<1> DEFINE r == req[s]
<1>1. r \in Requests /\ r.id \in LeaseIds /\ r.row \in Rows /\ Writing(s)
  BY DEF IndexInv, TypeOK, Named, Commit, Runs, Writing, Requests
<1>2. lease' = [lease EXCEPT ![r.id] = r.row] /\ req' = [req EXCEPT ![s] = Idle]  BY DEF Commit
<1>3. req'[s] = Idle /\ \A t \in Sessions \ {s} : req'[t] = req[t]
  BY <1>2 DEF IndexInv, TypeOK
<1>4. lease'[r.id] = r.row /\ \A l \in LeaseIds \ {r.id} : lease'[l] = lease[l]
  BY <1>1, <1>2 DEF IndexInv, TypeOK
<1>5. TypeOK'
  <2> DEFINE Status == {"none", "VACANT", "OCCUPIED"}
             u == Target(r)
             made == [unit EXCEPT ![u] = IF @ = "none" THEN "VACANT" ELSE @]
             own == IF r.own = "none" THEN made ELSE [made EXCEPT ![u] = r.own]
  <2>1. u \in Spaces /\ unit \in [Spaces -> Status] /\ r.own \in Status
    BY <1>1, TargetTyped DEF IndexInv, TypeOK, Requests
  <2>2. made \in [Spaces -> Status]  BY <2>1
  <2> HIDE DEF made
  <2>3. own \in [Spaces -> Status]  BY <2>1, <2>2
  <2>4. unit' = IF Refreshes(r) THEN Refreshed(r, own) ELSE own  BY DEF Commit, made
  <2> HIDE DEF own
  <2>5. Refreshed(r, own) \in [Spaces -> Status]  BY DEF Refreshed
  <2>6. unit' \in [Spaces -> Status]  BY <2>3, <2>4, <2>5
  <2> QED  BY <1>1, <1>2, <2>6, IdleTyped DEF IndexInv, TypeOK
<1>6. ~Writing(s)' /\ Idle.held = {} /\ Idle.op = "none"  BY <1>3 DEF Writing, Idle
<1>7. Named' /\ Exclusion'  BY <1>3, <1>6 DEF IndexInv, Named, Exclusion
<1>8. KeyHeld'  BY <1>3, <1>6 DEF IndexInv, KeyHeld, Writing, Occupies
<1>9. KeyFree'
  <2> SUFFICES ASSUME NEW t \in Sessions, Writing(t)', Occupies(req'[t].row),
                      NEW l \in LeaseIds \ {req'[t].id}, Occupies(lease'[l])
               PROVE  lease'[l].unit # req'[t].row.unit
    BY DEF KeyFree, Occupies
  <2>1. t # s /\ req'[t] = req[t] /\ Writing(t)  BY <1>3, <1>6 DEF Writing
  <2>2. CASE l # r.id  BY <1>4, <2>1, <2>2 DEF IndexInv, KeyFree
  <2>3. CASE l = r.id
    <3>1. <<"active", req[t].row.unit>> \in req[t].held  BY <2>1 DEF IndexInv, KeyHeld
    <3>2. <<"active", r.row.unit>> \in r.held  BY <1>1, <1>4, <2>3 DEF IndexInv, KeyHeld
    <3> QED  BY <1>4, <2>1, <2>3, <3>1, <3>2 DEF IndexInv, Exclusion
  <2> QED  BY <2>2, <2>3
<1>10. Unique'
  <2>1. Occupies(r.row) =>
          \A l \in LeaseIds \ {r.id} : ~(Occupies(lease[l]) /\ lease[l].unit = r.row.unit)
    BY <1>1 DEF IndexInv, KeyFree
  <2> SUFFICES ASSUME NEW l \in LeaseIds, NEW m \in LeaseIds, l # m, Occupies(lease'[l]), Occupies(lease'[m])
               PROVE  lease'[l].unit # lease'[m].unit
    BY DEF Unique, Occupies
  <2>2. CASE l = r.id  BY <1>4, <2>1, <2>2
  <2>3. CASE m = r.id  BY <1>4, <2>1, <2>3
  <2>4. CASE l # r.id /\ m # r.id  BY <1>4, <2>4 DEF IndexInv, Unique
  <2> QED  BY <2>2, <2>3, <2>4
<1> QED  BY <1>5, <1>7, <1>8, <1>9, <1>10 DEF IndexInv

-----------------------------------------------------------------------------
LEMMA InitIndex == Init => IndexInv
<1> SUFFICES ASSUME Init PROVE IndexInv  OBVIOUS
<1>1. TypeOK  BY NoLeaseTyped, IdleTyped DEF Init, TypeOK
<1>2. \A s \in Sessions : req[s] = Idle  BY DEF Init
<1>3. Idle.op = "none" /\ Idle.held = {}  BY DEF Idle
<1>4. Named /\ Exclusion /\ KeyHeld /\ KeyFree
  BY <1>2, <1>3 DEF Named, Exclusion, KeyHeld, KeyFree, Writing
<1>5. Unique  BY DEF Init, Unique, Occupies, NoLease
<1> QED  BY <1>1, <1>4, <1>5 DEF IndexInv

LEMMA NextIndex == IndexInv /\ [Next]_vars => IndexInv'
<1> SUFFICES ASSUME IndexInv, [Next]_vars PROVE IndexInv'  OBVIOUS
<1>1. CASE UNCHANGED vars
  <2>1. lease' = lease /\ unit' = unit /\ req' = req  BY <1>1 DEF vars
  <2> QED  BY <2>1 DEF IndexInv, TypeOK, Named, Exclusion, KeyHeld, KeyFree, Unique, Writing, Occupies
<1>2. ASSUME NEW s \in Sessions, Rollback(s)
      PROVE  IndexInv'
  BY <1>2, EndsIdle DEF Rollback
<1> QED
  BY <1>1, <1>2, RequestKept, ReadKept, CheckKept, WriteKept, BuildingKept, CommitKept DEF Next

LEMMA IndexHolds == Spec => []IndexInv
BY InitIndex, NextIndex, PTL DEF Spec

-----------------------------------------------------------------------------
(* Rows of leases, statuses of units and requests keep their types through  *)
(* creation, edition, activation, termination, trash, archive and purge.    *)
THEOREM LeaseTypes == Spec => []TypeOK
<1>1. IndexInv => TypeOK  BY DEF IndexInv
<1> QED  BY <1>1, IndexHolds, PTL

(* Two leases in force never claim one unit, although the conflict check    *)
(* locks nothing: activateLease, createLease, updateLease and the restore   *)
(* all pass the index leases_one_active_per_unit.                           *)
THEOREM OneLeasePerUnit == Spec => []OneActivePerUnit
<1>1. IndexInv => OneActivePerUnit  BY DEF IndexInv, Unique, OneActivePerUnit, Let, Current, Occupies
<1> QED  BY <1>1, IndexHolds, PTL

-----------------------------------------------------------------------------
(* Maintenance.                                                             *)

(* The session is in its transaction, with the row of the ticket locked.    *)
LockedOps == M!AllEndpoints \ (M!Unlocked \cup {"decide"})
Holds(s) == mReq[s].stage = 3 /\ mReq[s].op \in LockedOps

(* A request names a ticket, the decision on a workflow names the workflow. *)
TicketNamed ==
  \A s \in Sessions :
    /\ mReq[s].op # "cancelWorkflow"
    /\ mReq[s].op \notin {"none", "decide"} => mReq[s].id \in Tickets
    /\ mReq[s].op = "decide" => mReq[s].id \in Flows /\ mReq[s].to \in M!Decisions
    /\ mReq[s].op = "transition" => mReq[s].to \in DOMAIN M!Previous

(* A ticket is locked by one transaction at most, and its status is still   *)
(* one of those that this transaction goes on from.                         *)
TicketLocked == \A s, t \in Sessions : Holds(s) /\ Holds(t) /\ mReq[s].id = mReq[t].id => s = t
SeenIsSo  == \A s \in Sessions : Holds(s) => ticket[mReq[s].id].status \in M!From(mReq[s])

LockInv == M!TypeOK /\ TicketNamed /\ TicketLocked /\ SeenIsSo

-----------------------------------------------------------------------------
LEMMA Ops ==
  /\ DOMAIN M!StatusesFor = {"diagnose", "ask", "assign", "start", "resolve", "validate", "close", "charge"}
  /\ DOMAIN M!Previous = {"APPROVED", "DIAGNOSIS", "ON_HOLD", "IN_PROGRESS", "CANCELLED"}
  /\ DOMAIN M!After = {"assign", "resolve", "close"}
  /\ M!AllEndpoints = {"diagnose", "ask", "assign", "start", "resolve", "validate", "close", "charge",
                     "transition", "decide", "cancelWorkflow"}
<1>1. DOMAIN M!StatusesFor = {"diagnose", "ask", "assign", "start", "resolve", "validate", "close", "charge"}
  BY DEF M!StatusesFor
<1>2. DOMAIN M!Previous = {"APPROVED", "DIAGNOSIS", "ON_HOLD", "IN_PROGRESS", "CANCELLED"}  BY DEF M!Previous
<1>3. DOMAIN M!After = {"assign", "resolve", "close"}  BY DEF M!After
<1> QED  BY <1>1, <1>2, <1>3 DEF M!AllEndpoints

(* No endpoint goes on from a ticket that is closed or cancelled.           *)
LEMMA NothingFromFinished ==
  ASSUME NEW r \in M!Requests, r.op \in M!AllEndpoints \ {"decide", "cancelWorkflow"},
         r.op = "transition" => r.to \in DOMAIN M!Previous
  PROVE  "CLOSED" \notin M!From(r) /\ "CANCELLED" \notin M!From(r) /\ "none" \notin M!From(r)
<1>1. CASE r.op = "transition"
  BY <1>1, Ops DEF M!From, M!Previous
<1>2. CASE r.op # "transition"
  BY <1>2, Ops DEF M!From, M!StatusesFor
<1> QED  BY <1>1, <1>2
-----------------------------------------------------------------------------
(* Every step keeps the types.                                              *)
LEMMA TicketIdle == M!Idle \in M!Requests
BY DEF M!Idle, M!Requests

LEMMA BeginTyped ==
  ASSUME M!TypeOK, NEW s \in Sessions, NEW r \in M!Requests, M!Begin(s, r)
  PROVE  M!TypeOK'
BY DEF M!TypeOK, M!Begin

LEMMA FinishTyped ==
  ASSUME M!TypeOK, NEW s \in Sessions, M!Finish(s)
  PROVE  mReq' \in [Sessions -> M!Requests]
BY TicketIdle DEF M!TypeOK, M!Finish

LEMMA ContinueTyped ==
  ASSUME M!TypeOK, NEW s \in Sessions, NEW n \in 0..3, M!Continue(s, n)
  PROVE  mReq' \in [Sessions -> M!Requests]
BY DEF M!TypeOK, M!Continue, M!Requests

LEMMA SetTyped ==
  ASSUME M!TypeOK, NEW t \in Tickets, NEW status \in M!Statuses, M!SetStatus(t, status)
  PROVE  ticket' \in [Tickets -> M!TicketRows] /\ flow' \in [Flows -> M!FlowRows]
BY DEF M!TypeOK, M!SetStatus, M!TicketRows

LEMMA StartTyped ==
  ASSUME M!TypeOK, NEW t \in Tickets, NEW status \in M!Statuses, M!StartFlow(t, status)
  PROVE  ticket' \in [Tickets -> M!TicketRows] /\ flow' \in [Flows -> M!FlowRows]
<1>1. M!NewFlow \in Flows  BY DEF M!StartFlow, M!CanStart, M!NewFlow
<1>2. [status |-> "PENDING", step |-> "PENDING", actions |-> {}] \in M!FlowRows  BY DEF M!FlowRows, M!Decisions
<1>3. [status |-> status, flow |-> M!NewFlow] \in M!TicketRows  BY <1>1 DEF M!TicketRows
<1> QED  BY <1>1, <1>2, <1>3 DEF M!TypeOK, M!StartFlow

LEMMA RequestTyped ==
  ASSUME M!TypeOK, TicketNamed, NEW s \in Sessions, M!Request(s)
  PROVE  M!TypeOK' /\ TicketNamed' /\ \A q \in Sessions : Holds(q)' => Holds(q) /\ mReq'[q] = mReq[q]
<1>1. ASSUME NEW r \in M!Requests, M!Begin(s, r), r.stage # 3, r.op # "cancelWorkflow",
             r.op \notin {"none", "decide"} => r.id \in Tickets,
             r.op = "decide" => r.id \in Flows /\ r.to \in M!Decisions,
             r.op = "transition" => r.to \in DOMAIN M!Previous
      PROVE  M!TypeOK' /\ TicketNamed' /\ \A q \in Sessions : Holds(q)' => Holds(q) /\ mReq'[q] = mReq[q]
  <2>1. M!TypeOK'  BY <1>1, BeginTyped
  <2>2. mReq'[s] = r /\ \A q \in Sessions \ {s} : mReq'[q] = mReq[q]  BY <1>1 DEF M!Begin, M!TypeOK
  <2>3. TicketNamed'  BY <1>1, <2>2 DEF TicketNamed
  <2> QED  BY <1>1, <2>1, <2>2, <2>3 DEF Holds
<1>2. ASSUME NEW t \in Tickets, M!RequestOn(s, t)
      PROVE  M!TypeOK' /\ TicketNamed' /\ \A q \in Sessions : Holds(q)' => Holds(q) /\ mReq'[q] = mReq[q]
  <2>1. ASSUME NEW op \in DOMAIN M!StatusesFor, NEW starts \in BOOLEAN,
               M!Begin(s, M!Asks(op, 2, t, "none", starts))
        PROVE  M!TypeOK' /\ TicketNamed' /\ \A q \in Sessions : Holds(q)' => Holds(q) /\ mReq'[q] = mReq[q]
    <3> DEFINE r == M!Asks(op, 2, t, "none", starts)
    <3>1. op \in M!AllEndpoints \ {"transition", "decide", "cancelWorkflow"}  BY Ops
    <3>2. r.stage = 2 /\ r.op = op /\ r.id = t  BY DEF M!Asks
    <3>3. r \in M!Requests  BY <3>1 DEF M!Asks, M!Requests
    <3> HIDE DEF r
    <3> QED  BY <1>1, <2>1, <3>1, <3>2, <3>3 DEF r
  <2>2. ASSUME NEW to \in DOMAIN M!Previous,
               M!Begin(s, M!Asks("transition", IF to = "APPROVED" THEN 0 ELSE 2, t, to, FALSE))
        PROVE  M!TypeOK' /\ TicketNamed' /\ \A q \in Sessions : Holds(q)' => Holds(q) /\ mReq'[q] = mReq[q]
    <3> DEFINE stage == IF to = "APPROVED" THEN 0 ELSE 2
               r == M!Asks("transition", stage, t, to, FALSE)
    <3>1. to \in M!Statuses /\ "transition" \in M!AllEndpoints  BY Ops DEF M!Statuses
    <3>2. stage \in 0..3 /\ stage # 3  OBVIOUS
    <3> HIDE DEF stage
    <3>3. r.stage = stage /\ r.op = "transition" /\ r.id = t /\ r.to = to  BY DEF M!Asks
    <3>4. r \in M!Requests  BY <3>1, <3>2 DEF M!Asks, M!Requests
    <3> HIDE DEF r
    <3>5. M!Begin(s, r)  BY <2>2 DEF r, stage
    <3> QED  BY <1>1, <2>2, <3>1, <3>2, <3>3, <3>4, <3>5
  <2> QED  BY <1>2, <2>1, <2>2 DEF M!RequestOn
<1>3. ASSUME NEW f \in Flows, NEW to \in M!Decisions, M!Begin(s, M!Asks("decide", 2, f, to, FALSE))
      PROVE  M!TypeOK' /\ TicketNamed' /\ \A q \in Sessions : Holds(q)' => Holds(q) /\ mReq'[q] = mReq[q]
  <2> DEFINE r == M!Asks("decide", 2, f, to, FALSE)
  <2>1. "decide" \in M!AllEndpoints  BY Ops
  <2>2. r.stage = 2 /\ r.op = "decide" /\ r.id = f /\ r.to = to  BY DEF M!Asks
  <2>3. r \in M!Requests  BY <2>1 DEF M!Asks, M!Requests
  <2> HIDE DEF r
  <2>4. M!Begin(s, r)  BY <1>3 DEF r
  <2> QED  BY <1>1, <2>2, <2>3, <2>4
<1> QED  BY <1>2, <1>3 DEF M!Request

(* A step of a request keeps the types, and the request what it names.      *)
LEMMA StepTyped ==
  ASSUME M!TypeOK, TicketNamed, MaxCharges \in Nat, NEW s \in Sessions, M!Step(s) \/ M!Rollback(s)
  PROVE  M!TypeOK' /\ TicketNamed'
<1> DEFINE Same == \A q \in Sessions \ {s} : mReq'[q] = mReq[q]
           Goes == mReq'[s].op = mReq[s].op /\ mReq'[s].id = mReq[s].id /\ mReq'[s].to = mReq[s].to
<1>1. ASSUME M!Finish(s), ticket' \in [Tickets -> M!TicketRows], flow' \in [Flows -> M!FlowRows],
             charges' \in [Tickets -> 0..MaxCharges]
      PROVE  M!TypeOK' /\ TicketNamed'
  <2>1. M!TypeOK'  BY <1>1, FinishTyped DEF M!TypeOK
  <2>2. mReq'[s] = M!Idle /\ Same  BY <1>1 DEF M!Finish, M!TypeOK
  <2> QED  BY <2>1, <2>2 DEF TicketNamed, M!Idle
<1>2. ASSUME mReq' \in [Sessions -> M!Requests], Goes, Same, UNCHANGED <<ticket, flow, charges>>
      PROVE  M!TypeOK' /\ TicketNamed'
  <2>1. M!TypeOK'  BY <1>2 DEF M!TypeOK
  <2> QED  BY <2>1, <1>2 DEF TicketNamed
<1>3. ASSUME NEW n \in 0..3, M!Continue(s, n), UNCHANGED <<ticket, flow, charges>>
      PROVE  M!TypeOK' /\ TicketNamed'
  <2>1. Goes /\ Same  BY <1>3 DEF M!Continue, M!TypeOK, M!Requests
  <2> QED  BY <1>2, <1>3, <2>1, ContinueTyped
<1>4. ticket \in [Tickets -> M!TicketRows] /\ flow \in [Flows -> M!FlowRows]
        /\ charges \in [Tickets -> 0..MaxCharges]
  BY DEF M!TypeOK
<1>5. CASE M!ReadFlow(s)
  <2> DEFINE read == [mReq[s] EXCEPT !.stage = 1]
             r == [read EXCEPT !.flow = ticket[mReq[s].id].flow]
  <2>1. ticket[mReq[s].id].flow \in Flows \cup {0}  BY <1>5, <1>4 DEF M!ReadFlow, TicketNamed, M!TicketRows
  <2>2. mReq[s] \in M!Requests  BY DEF M!TypeOK
  <2>0. read \in M!Requests /\ read.op = mReq[s].op /\ read.id = mReq[s].id /\ read.to = mReq[s].to
    BY <2>2 DEF M!Requests
  <2> HIDE DEF read
  <2>3. r \in M!Requests /\ r.op = mReq[s].op /\ r.id = mReq[s].id /\ r.to = mReq[s].to
    BY <2>0, <2>1 DEF M!Requests
  <2>4. mReq' = [mReq EXCEPT ![s] = r]  BY <1>5 DEF M!ReadFlow, M!TypeOK, read
  <2> HIDE DEF r
  <2>5. mReq' \in [Sessions -> M!Requests] /\ mReq'[s] = r /\ Same  BY <2>3, <2>4 DEF M!TypeOK
  <2>6. UNCHANGED <<ticket, flow, charges>>  BY <1>5 DEF M!ReadFlow
  <2> QED  BY <1>2, <2>3, <2>5, <2>6
<1>6. CASE M!CheckFlow(s)  BY <1>6, <1>3 DEF M!CheckFlow
<1>7. CASE M!AssertMaintenanceStatus(s)  BY <1>7, <1>3 DEF M!AssertMaintenanceStatus
<1>8. CASE M!ReadStep(s)  BY <1>8, <1>3 DEF M!ReadStep
<1>9. CASE M!DiagnoseMaintenanceRequest(s)
  <2>1. mReq[s].id \in Tickets  BY <1>9 DEF M!DiagnoseMaintenanceRequest, TicketNamed
  <2>2. {"WAITING_APPROVAL", "DIAGNOSIS"} \subseteq M!Statuses  BY DEF M!Statuses
  <2>3. ticket' \in [Tickets -> M!TicketRows] /\ flow' \in [Flows -> M!FlowRows]
    BY <1>9, <2>1, <2>2, SetTyped, StartTyped DEF M!DiagnoseMaintenanceRequest
  <2> QED  BY <1>1, <1>4, <1>9, <2>3 DEF M!DiagnoseMaintenanceRequest
<1>10. CASE M!RequestMaintenanceApproval(s)
  <2>1. mReq[s].id \in Tickets  BY <1>10 DEF M!RequestMaintenanceApproval, TicketNamed
  <2>2. "WAITING_APPROVAL" \in M!Statuses  BY DEF M!Statuses
  <2>3. ticket' \in [Tickets -> M!TicketRows] /\ flow' \in [Flows -> M!FlowRows]
    BY <1>10, <2>1, <2>2, SetTyped, StartTyped DEF M!RequestMaintenanceApproval
  <2> QED  BY <1>1, <1>4, <1>10, <2>3 DEF M!RequestMaintenanceApproval
<1>11. CASE M!Move(s)
  <2> DEFINE to == IF mReq[s].op = "transition" THEN mReq[s].to ELSE M!After[mReq[s].op]
  <2>1. mReq[s].id \in Tickets  BY <1>11, Ops DEF M!Move, TicketNamed
  <2>2. to \in M!Statuses  BY <1>11, Ops DEF M!Move, TicketNamed, M!After, M!Statuses
  <2>3. M!SetStatus(mReq[s].id, to)  BY <1>11 DEF M!Move
  <2> HIDE DEF to
  <2>4. ticket' \in [Tickets -> M!TicketRows] /\ flow' \in [Flows -> M!FlowRows]
    BY <2>1, <2>2, <2>3, SetTyped
  <2> QED  BY <1>1, <1>4, <1>11, <2>4 DEF M!Move
<1>12. CASE M!WriteUnlocked(s)
  <2> DEFINE to == IF mReq[s].op = "start" THEN "IN_PROGRESS" ELSE "VALIDATED"
  <2>1. mReq[s].id \in Tickets  BY <1>12 DEF M!WriteUnlocked, M!Unlocked, TicketNamed
  <2>2. to \in M!Statuses  BY DEF M!Statuses
  <2>3. M!SetStatus(mReq[s].id, to)  BY <1>12 DEF M!WriteUnlocked
  <2> HIDE DEF to
  <2>4. ticket' \in [Tickets -> M!TicketRows] /\ flow' \in [Flows -> M!FlowRows]
    BY <2>1, <2>2, <2>3, SetTyped
  <2> QED  BY <1>1, <1>4, <1>12, <2>4 DEF M!WriteUnlocked
<1>13. CASE M!Charge(s)
  <2>1. mReq[s].id \in Tickets  BY <1>13 DEF M!Charge, TicketNamed
  <2>2. charges[mReq[s].id] + 1 \in 0..MaxCharges  BY <1>4, <1>13, <2>1 DEF M!Charge
  <2>3. charges' \in [Tickets -> 0..MaxCharges]  BY <1>4, <1>13, <2>2 DEF M!Charge
  <2> QED  BY <1>1, <1>4, <1>13, <2>3 DEF M!Charge
<1>14. CASE M!Decide(s)
  <2> DEFINE f == mReq[s].id
             row == [status |-> mReq[s].to,
                     step |-> IF flow[f].step = "PENDING" THEN mReq[s].to ELSE flow[f].step,
                     actions |-> flow[f].actions \cup {mReq[s].to}]
  <2>1. f \in Flows /\ mReq[s].to \in M!Decisions  BY <1>14 DEF M!Decide, TicketNamed
  <2>2. flow[f] \in M!FlowRows  BY <1>4, <2>1
  <2>3. row \in M!FlowRows  BY <2>1, <2>2 DEF M!FlowRows
  <2>4. flow' = [flow EXCEPT ![f] = row]  BY <1>4, <1>14, <2>1 DEF M!Decide
  <2> HIDE DEF row
  <2>5. flow' \in [Flows -> M!FlowRows]  BY <1>4, <2>3, <2>4
  <2> QED  BY <1>1, <1>4, <1>14, <2>5 DEF M!Decide
<1>15. CASE M!Rollback(s)  BY <1>1, <1>4, <1>15 DEF M!Rollback
<1> QED
  BY <1>5, <1>6, <1>7, <1>8, <1>9, <1>10, <1>11, <1>12, <1>13, <1>14, <1>15 DEF M!Step

-----------------------------------------------------------------------------
(* A ticket is locked by one transaction, and keeps its status meanwhile.   *)

(* Nobody new locks a ticket, and those who did find it as it was.          *)
LEMMA Kept ==
  ASSUME TicketLocked, SeenIsSo,
         \A q \in Sessions : Holds(q)' =>
           Holds(q) /\ mReq'[q] = mReq[q] /\ ticket'[mReq[q].id].status = ticket[mReq[q].id].status
  PROVE  TicketLocked' /\ SeenIsSo'
<1>1. TicketLocked'  BY DEF TicketLocked
<1>2. SeenIsSo'  BY DEF SeenIsSo, M!From
<1> QED  BY <1>1, <1>2

LEMMA HolderLocks ==
  ASSUME NEW q \in Sessions, NEW t, mReq[q].id = t, Holds(q)
  PROVE  M!Locked(t)
BY DEF Holds, M!Locked, LockedOps

(* A request that ends, after it wrote a ticket nobody else holds.          *)
LEMMA EndsKept ==
  ASSUME M!TypeOK, TicketNamed, TicketLocked, SeenIsSo, NEW s \in Sessions, M!Finish(s), NEW t,
         \A u \in Tickets \ {t} : ticket'[u] = ticket[u],
         \A q \in Sessions \ {s} : Holds(q) => mReq[q].id # t
  PROVE  TicketLocked' /\ SeenIsSo'
<1>1. mReq'[s] = M!Idle /\ \A q \in Sessions \ {s} : mReq'[q] = mReq[q]  BY DEF M!Finish, M!TypeOK
<1>2. ~Holds(s)'  BY <1>1 DEF Holds, M!Idle
<1>3. ASSUME NEW q \in Sessions, Holds(q)'
      PROVE  Holds(q) /\ mReq'[q] = mReq[q] /\ ticket'[mReq[q].id] = ticket[mReq[q].id]
  <2>1. q # s /\ mReq'[q] = mReq[q]  BY <1>1, <1>2, <1>3
  <2>2. Holds(q)  BY <1>3, <2>1 DEF Holds
  <2>3. mReq[q].id \in Tickets  BY <2>2, Ops DEF Holds, LockedOps, TicketNamed
  <2> QED  BY <2>1, <2>2, <2>3
<1> QED  BY <1>3, Kept

LEMMA StepLocks ==
  ASSUME LockInv, NEW s \in Sessions, M!Step(s) \/ M!Rollback(s)
  PROVE  TicketLocked' /\ SeenIsSo'
<1> DEFINE t == mReq[s].id
<1>1. M!TypeOK /\ TicketNamed /\ TicketLocked /\ SeenIsSo  BY DEF LockInv
<1>2. ASSUME Holds(s), M!Finish(s), \A u \in Tickets \ {t} : ticket'[u] = ticket[u]
      PROVE  TicketLocked' /\ SeenIsSo'
  <2>1. \A q \in Sessions \ {s} : Holds(q) => mReq[q].id # t  BY <1>1, <1>2 DEF TicketLocked
  <2> QED  BY <1>1, <1>2, <2>1, EndsKept
<1>3. ASSUME NEW status, M!SetStatus(t, status) \/ M!StartFlow(t, status)
      PROVE  \A u \in Tickets \ {t} : ticket'[u] = ticket[u]
  BY <1>1, <1>3 DEF M!TypeOK, M!SetStatus, M!StartFlow
<1>4. ASSUME NEW n, n # 3, M!Continue(s, n), UNCHANGED ticket
      PROVE  TicketLocked' /\ SeenIsSo'
  <2>1. mReq'[s].stage = n /\ \A q \in Sessions \ {s} : mReq'[q] = mReq[q]
    BY <1>1, <1>4 DEF M!Continue, M!TypeOK, M!Requests
  <2> QED  BY <1>1, <1>4, <2>1, Kept DEF Holds
<1>5. CASE M!ReadFlow(s)
  <2>1. mReq'[s].op = mReq[s].op /\ mReq'[s].stage = 1 /\ \A q \in Sessions \ {s} : mReq'[q] = mReq[q]
    BY <1>1, <1>5 DEF M!ReadFlow, M!TypeOK, M!Requests
  <2>2. ticket' = ticket  BY <1>5 DEF M!ReadFlow
  <2>3. ASSUME NEW q \in Sessions, Holds(q)'
        PROVE  Holds(q) /\ mReq'[q] = mReq[q]
    BY <2>1, <2>3 DEF Holds
  <2> QED  BY <1>1, <2>2, <2>3, Kept
<1>6. CASE M!CheckFlow(s)  BY <1>6, <1>4 DEF M!CheckFlow
<1>7. CASE M!ReadStep(s)
  <2>1. mReq'[s].op = "decide" /\ \A q \in Sessions \ {s} : mReq'[q] = mReq[q]
    BY <1>1, <1>7 DEF M!ReadStep, M!Continue, M!TypeOK, M!Requests
  <2> QED  BY <1>1, <1>7, <2>1, Kept DEF Holds, LockedOps, M!ReadStep
<1>8. CASE M!AssertMaintenanceStatus(s)
  <2>1. /\ mReq'[s].op = mReq[s].op /\ mReq'[s].id = t /\ mReq'[s].to = mReq[s].to
        /\ \A q \in Sessions \ {s} : mReq'[q] = mReq[q]
    BY <1>1, <1>8 DEF M!AssertMaintenanceStatus, M!Continue, M!TypeOK, M!Requests
  <2>2. ~M!Locked(t) /\ ticket' = ticket /\ ticket[t].status \in M!From(mReq[s])
    BY <1>8 DEF M!AssertMaintenanceStatus
  <2>3. M!From(mReq'[s]) = M!From(mReq[s])  BY <2>1 DEF M!From
  <2>4. ASSUME NEW q \in Sessions \ {s}, Holds(q)'
        PROVE  Holds(q) /\ mReq[q].id # t
    BY <2>1, <2>2, <2>4, HolderLocks DEF Holds
  <2>5. TicketLocked'  BY <1>1, <2>1, <2>4 DEF TicketLocked
  <2>6. ASSUME NEW q \in Sessions, Holds(q)'
        PROVE  ticket'[mReq'[q].id].status \in M!From(mReq'[q])
    <3>1. CASE q = s  BY <3>1, <2>1, <2>2, <2>3
    <3>2. CASE q # s  BY <1>1, <3>2, <2>1, <2>2, <2>4, <2>6 DEF SeenIsSo
    <3> QED  BY <3>1, <3>2
  <2>7. SeenIsSo'  BY <2>6 DEF SeenIsSo, M!From
  <2> QED  BY <2>5, <2>7
<1>9. CASE M!DiagnoseMaintenanceRequest(s) \/ M!RequestMaintenanceApproval(s)
  <2>1. Holds(s) /\ M!Finish(s)
    BY <1>9, Ops DEF M!DiagnoseMaintenanceRequest, M!RequestMaintenanceApproval, Holds, LockedOps, M!Unlocked
  <2>2. \A u \in Tickets \ {t} : ticket'[u] = ticket[u]
    BY <1>3, <1>9 DEF M!DiagnoseMaintenanceRequest, M!RequestMaintenanceApproval
  <2> QED  BY <1>2, <2>1, <2>2
<1>10. CASE M!Move(s)
  <2>1. Holds(s) /\ M!Finish(s)  BY <1>10, Ops DEF M!Move, Holds, LockedOps, M!Unlocked
  <2>2. \A u \in Tickets \ {t} : ticket'[u] = ticket[u]  BY <1>3, <1>10 DEF M!Move
  <2> QED  BY <1>2, <2>1, <2>2
<1>11. CASE M!WriteUnlocked(s)
  <2>1. \A u \in Tickets \ {t} : ticket'[u] = ticket[u]  BY <1>3, <1>11 DEF M!WriteUnlocked
  <2>2. \A q \in Sessions : Holds(q) => mReq[q].id # t  BY <1>11, HolderLocks DEF M!WriteUnlocked
  <2> QED  BY <1>1, <1>11, <2>1, <2>2, EndsKept DEF M!WriteUnlocked
<1>12. ASSUME M!Finish(s), UNCHANGED ticket
       PROVE  TicketLocked' /\ SeenIsSo'
  <2>1. mReq'[s] = M!Idle /\ \A q \in Sessions \ {s} : mReq'[q] = mReq[q]  BY <1>1, <1>12 DEF M!Finish, M!TypeOK
  <2> QED  BY <1>1, <1>12, <2>1, Kept DEF Holds, M!Idle
<1>13. CASE M!Charge(s) \/ M!Decide(s) \/ M!Rollback(s)  BY <1>12, <1>13 DEF M!Charge, M!Decide, M!Rollback
<1> QED
  BY <1>5, <1>6, <1>7, <1>8, <1>9, <1>10, <1>11, <1>13 DEF M!Step

-----------------------------------------------------------------------------
LEMMA InitLocks ==
  ASSUME MaxCharges \in Nat, M!Init
  PROVE  LockInv
<1>1. M!TypeOK
  <2>1. [status |-> "none", flow |-> 0] \in M!TicketRows  BY DEF M!TicketRows
  <2>2. [status |-> "none", step |-> "none", actions |-> {}] \in M!FlowRows  BY DEF M!FlowRows
  <2> QED  BY <2>1, <2>2, TicketIdle DEF M!Init, M!TypeOK
<1>2. \A s \in Sessions : mReq[s] = M!Idle  BY DEF M!Init
<1>3. TicketNamed /\ TicketLocked /\ SeenIsSo  BY <1>2 DEF TicketNamed, TicketLocked, SeenIsSo, Holds, M!Idle
<1> QED  BY <1>1, <1>3 DEF LockInv

LEMMA NextLocks ==
  ASSUME MaxCharges \in Nat, LockInv, [M!Next]_M!vars
  PROVE  LockInv'
<1>0. M!TypeOK /\ TicketNamed /\ TicketLocked /\ SeenIsSo  BY DEF LockInv
<1>1. CASE UNCHANGED M!vars
  BY <1>1 DEF M!vars, LockInv, M!TypeOK, TicketNamed, TicketLocked, SeenIsSo, Holds, M!From
<1>2. ASSUME NEW t \in Tickets, M!CreateMaintenanceRequest(t)
      PROVE  LockInv'
  <2>1. M!TypeOK'
    <3>1. "NEW" \in M!Statuses  BY DEF M!Statuses
    <3> QED  BY <1>0, <1>2, <3>1 DEF M!CreateMaintenanceRequest, M!TypeOK, M!TicketRows
  <2>2. TicketNamed'  BY <1>0, <1>2 DEF M!CreateMaintenanceRequest, TicketNamed
  <2>3. ASSUME NEW q \in Sessions, Holds(q)'
        PROVE  Holds(q) /\ mReq'[q] = mReq[q] /\ ticket'[mReq[q].id] = ticket[mReq[q].id]
    <3>1. mReq' = mReq  BY <1>2 DEF M!CreateMaintenanceRequest
    <3>2. Holds(q)  BY <2>3, <3>1 DEF Holds
    <3>3. mReq[q].op \in M!AllEndpoints \ {"decide", "cancelWorkflow"}
      BY <3>2, <1>0 DEF Holds, LockedOps, TicketNamed
    <3>4. ticket[mReq[q].id].status # "none"
      BY <1>0, <3>2, <3>3, NothingFromFinished DEF SeenIsSo, TicketNamed, M!TypeOK
    <3>5. mReq[q].id \in Tickets /\ mReq[q].id # t
      BY <1>0, <1>2, <3>3, <3>4, Ops DEF TicketNamed, M!CreateMaintenanceRequest
    <3> QED  BY <1>0, <1>2, <3>1, <3>2, <3>5 DEF M!CreateMaintenanceRequest, M!TypeOK
  <2>4. TicketLocked' /\ SeenIsSo'  BY <1>0, <2>3, Kept
  <2> QED  BY <2>1, <2>2, <2>4 DEF LockInv
<1>3. ASSUME NEW f \in Flows, M!CancelWorkflow(f)
      PROVE  LockInv'
  <2>1. M!TypeOK'  BY <1>0, <1>3 DEF M!CancelWorkflow, M!TypeOK, M!FlowRows
  <2>2. TicketNamed'  BY <1>0, <1>3 DEF M!CancelWorkflow, TicketNamed
  <2>3. TicketLocked' /\ SeenIsSo'  BY <1>0, <1>3, Kept DEF M!CancelWorkflow, Holds
  <2> QED  BY <2>1, <2>2, <2>3 DEF LockInv
<1>4. ASSUME NEW s \in Sessions, M!Request(s)
      PROVE  LockInv'
  <2>1. M!TypeOK' /\ TicketNamed' /\ \A q \in Sessions : Holds(q)' => Holds(q) /\ mReq'[q] = mReq[q]
    BY <1>0, <1>4, RequestTyped
  <2>2. ticket' = ticket  BY <1>4 DEF M!Request, M!RequestOn, M!Begin
  <2>3. TicketLocked' /\ SeenIsSo'  BY <1>0, <2>1, <2>2, Kept
  <2> QED  BY <2>1, <2>3 DEF LockInv
<1>5. ASSUME NEW s \in Sessions, M!Step(s) \/ M!Rollback(s)
      PROVE  LockInv'
  BY <1>0, <1>5, StepTyped, StepLocks DEF LockInv
<1> QED  BY <1>1, <1>2, <1>3, <1>4, <1>5 DEF M!Next

LEMMA LocksHold == ASSUME MaxCharges \in Nat PROVE M!Spec => []LockInv
<1>1. M!Init => LockInv  BY InitLocks
<1>2. LockInv /\ [M!Next]_M!vars => LockInv'  BY NextLocks
<1> QED  BY <1>1, <1>2, PTL DEF M!Spec

-----------------------------------------------------------------------------
(* Tables and requests keep their types, through every interleaving of the  *)
(* endpoints of maintenance and of its workflows.                           *)
THEOREM TicketTypes == ASSUME MaxCharges \in Nat PROVE M!Spec => []M!TypeOK
<1>1. LockInv => M!TypeOK  BY DEF LockInv
<1> QED  BY <1>1, LocksHold, PTL

(* An expense or a consumption goes to a ticket that is IN_PROGRESS at that *)
(* moment, whoever resolves, stops, starts or validates it beside:          *)
(* createMaintenanceExpense keeps the lock under which it looked.           *)
THEOREM ChargesWhileInProgress == ASSUME MaxCharges \in Nat PROVE M!Spec => M!ChargedInProgress
<1>1. ASSUME LockInv, [M!Next]_M!vars, NEW t \in Tickets, charges'[t] # charges[t]
      PROVE  ticket[t].status = "IN_PROGRESS"
  <2>1. CASE UNCHANGED M!vars  BY <1>1, <2>1 DEF M!vars
  <2>2. ASSUME NEW s \in Sessions, M!Charge(s)
        PROVE  ticket[t].status = "IN_PROGRESS"
    <3>1. mReq[s].id = t  BY <1>1, <2>2 DEF M!Charge, LockInv, M!TypeOK
    <3>2. Holds(s) /\ M!From(mReq[s]) = {"IN_PROGRESS"}
      BY <2>2, Ops DEF M!Charge, Holds, LockedOps, M!Unlocked, M!From, M!StatusesFor
    <3> QED  BY <1>1, <3>1, <3>2 DEF LockInv, SeenIsSo
  <2>3. CASE \E u \in Tickets : M!CreateMaintenanceRequest(u)  BY <1>1, <2>3 DEF M!CreateMaintenanceRequest
  <2>4. CASE \E f \in Flows : M!CancelWorkflow(f)  BY <1>1, <2>4 DEF M!CancelWorkflow
  <2>5. ASSUME NEW s \in Sessions, M!Request(s) \/ M!Rollback(s)
        PROVE  charges' = charges
    BY <2>5 DEF M!Request, M!RequestOn, M!Begin, M!Rollback
  <2>6. ASSUME NEW s \in Sessions, M!Step(s), ~M!Charge(s)
        PROVE  charges' = charges
    BY <2>6 DEF M!Step, M!ReadFlow, M!CheckFlow, M!AssertMaintenanceStatus, M!DiagnoseMaintenanceRequest,
                M!RequestMaintenanceApproval, M!Move, M!WriteUnlocked, M!ReadStep, M!Decide
  <2> QED  BY <1>1, <2>1, <2>2, <2>3, <2>4, <2>5, <2>6 DEF M!Next
<1>2. LockInv /\ [M!Next]_M!vars =>
        [\A t \in Tickets : charges'[t] # charges[t] => ticket[t].status = "IN_PROGRESS"]_M!vars
  BY <1>1
<1> QED  BY <1>2, LocksHold, PTL DEF M!Spec, M!ChargedInProgress

(* Starting and validating write without a lock; while one of them runs,    *)
(* nobody else is served.                                                   *)
Alone == \A s, t \in Sessions : s # t /\ mReq[s].op \in M!Unlocked => mReq[t].op = "none"

(* What such a request found is still so when it writes.                    *)
FoundIsSo ==
  \A s \in Sessions :
    mReq[s].op \in M!Unlocked /\ mReq[s].stage = 3 => ticket[mReq[s].id].status \in M!From(mReq[s])

LEMMA FoundKept ==
  ASSUME LockInv, FoundIsSo, Alone, [M!Next]_M!vars
  PROVE  FoundIsSo'
<1> SUFFICES ASSUME NEW q \in Sessions, mReq'[q].op \in M!Unlocked, mReq'[q].stage = 3
             PROVE  ticket'[mReq'[q].id].status \in M!From(mReq'[q])
  BY DEF FoundIsSo, M!From
<1>0. M!TypeOK /\ TicketNamed  BY DEF LockInv
<1>1. ASSUME mReq'[q] = mReq[q], ticket' = ticket
      PROVE  ticket'[mReq'[q].id].status \in M!From(mReq'[q])
  BY <1>1 DEF FoundIsSo
<1>2. CASE UNCHANGED M!vars  BY <1>1, <1>2 DEF M!vars
<1>3. ASSUME NEW t \in Tickets, M!CreateMaintenanceRequest(t)
      PROVE  ticket'[mReq'[q].id].status \in M!From(mReq'[q])
  <2>1. mReq' = mReq  BY <1>3 DEF M!CreateMaintenanceRequest
  <2>2. mReq[q] \in M!Requests /\ mReq[q].op \in M!AllEndpoints \ {"decide", "cancelWorkflow"}
          /\ mReq[q].op # "transition"
    BY <1>0, <2>1, Ops DEF M!TypeOK, M!Unlocked
  <2>3. ticket[mReq[q].id].status \in M!From(mReq[q]) /\ mReq[q].id \in Tickets
    BY <1>0, <2>1, <2>2 DEF FoundIsSo, TicketNamed, M!Unlocked
  <2>4. ticket[mReq[q].id].status # "none"  BY <2>2, <2>3, NothingFromFinished
  <2>5. ticket'[mReq[q].id] = ticket[mReq[q].id]
    BY <1>0, <1>3, <2>3, <2>4 DEF M!CreateMaintenanceRequest, M!TypeOK
  <2> QED  BY <2>1, <2>3, <2>5
<1>4. CASE \E f \in Flows : M!CancelWorkflow(f)  BY <1>1, <1>4 DEF M!CancelWorkflow
<1>5. ASSUME NEW s \in Sessions, M!Request(s)
      PROVE  ticket'[mReq'[q].id].status \in M!From(mReq'[q])
  <2>1. ticket' = ticket  BY <1>5 DEF M!Request, M!RequestOn, M!Begin
  <2>2. ASSUME NEW r, M!Begin(s, r), r.stage # 3
        PROVE  mReq'[q] = mReq[q]
    BY <1>0, <2>2 DEF M!Begin, M!TypeOK
  <2>3. ASSUME NEW op, NEW id, NEW to, NEW starts, M!Begin(s, M!Asks(op, 2, id, to, starts))
        PROVE  mReq'[q] = mReq[q]
    <3>1. M!Asks(op, 2, id, to, starts).stage # 3  BY DEF M!Asks
    <3> QED  BY <2>2, <2>3, <3>1
  <2>4. ASSUME NEW id, NEW to, M!Begin(s, M!Asks("transition", IF to = "APPROVED" THEN 0 ELSE 2, id, to, FALSE))
        PROVE  mReq'[q] = mReq[q]
    <3> DEFINE stage == IF to = "APPROVED" THEN 0 ELSE 2
    <3>1. stage # 3  OBVIOUS
    <3> HIDE DEF stage
    <3>2. M!Asks("transition", stage, id, to, FALSE).stage # 3  BY <3>1 DEF M!Asks
    <3>3. M!Begin(s, M!Asks("transition", stage, id, to, FALSE))  BY <2>4 DEF stage
    <3> QED  BY <2>2, <3>2, <3>3
  <2>5. mReq'[q] = mReq[q]
    <3>1. ASSUME NEW t \in Tickets, M!RequestOn(s, t)
          PROVE  mReq'[q] = mReq[q]
      BY <3>1, <2>3, <2>4 DEF M!RequestOn
    <3> QED  BY <1>5, <2>3, <3>1 DEF M!Request
  <2> QED  BY <1>1, <2>1, <2>5
<1>6. ASSUME NEW s \in Sessions, M!Step(s) \/ M!Rollback(s)
      PROVE  ticket'[mReq'[q].id].status \in M!From(mReq'[q])
  <2>1. ASSUME NEW r, mReq' = [mReq EXCEPT ![s] = r]
        PROVE  mReq'[s] = r /\ \A p \in Sessions \ {s} : mReq'[p] = mReq[p]
    BY <1>0, <2>1 DEF M!TypeOK
  <2>2. CASE M!Finish(s)
    <3>1. mReq'[s].op = "none"  BY <2>1, <2>2 DEF M!Finish, M!Idle
    <3>2. q # s /\ mReq'[q] = mReq[q]  BY <2>1, <2>2, <3>1 DEF M!Finish, M!Unlocked
    <3>3. mReq[s].op = "none"  BY <3>2 DEF Alone
    <3>4. M!Rollback(s)
      BY <1>6, <3>3, Ops DEF M!Step, M!ReadFlow, M!CheckFlow, M!AssertMaintenanceStatus,
         M!DiagnoseMaintenanceRequest, M!RequestMaintenanceApproval, M!Move, M!WriteUnlocked, M!Unlocked,
         M!Charge, M!ReadStep, M!Decide
    <3> QED  BY <1>1, <3>2, <3>4 DEF M!Rollback
  <2>3. CASE M!ReadFlow(s)
    <3>1. mReq'[s].stage = 1 /\ \A p \in Sessions \ {s} : mReq'[p] = mReq[p]
      BY <1>0, <2>3 DEF M!ReadFlow, M!TypeOK, M!Requests
    <3>2. q # s  BY <3>1
    <3>4. ticket' = ticket  BY <2>3 DEF M!ReadFlow
    <3> QED  BY <1>1, <3>1, <3>2, <3>4
  <2>4. ASSUME NEW n, M!Continue(s, n)
        PROVE  /\ mReq'[s].stage = n /\ mReq'[s].op = mReq[s].op /\ mReq'[s].id = mReq[s].id
               /\ mReq'[s].to = mReq[s].to /\ \A p \in Sessions \ {s} : mReq'[p] = mReq[p]
    BY <1>0, <2>4 DEF M!Continue, M!TypeOK, M!Requests
  <2>5. CASE M!CheckFlow(s)  BY <1>1, <2>4, <2>5 DEF M!CheckFlow
  <2>6. CASE M!ReadStep(s)  BY <1>1, <2>4, <2>6 DEF M!ReadStep, M!Unlocked
  <2>7. CASE M!AssertMaintenanceStatus(s)
    <3>1. M!Continue(s, 3) /\ ticket' = ticket /\ ticket[mReq[s].id].status \in M!From(mReq[s])
      BY <2>7 DEF M!AssertMaintenanceStatus
    <3>2. CASE q = s  BY <2>4, <3>1, <3>2 DEF M!From
    <3>3. CASE q # s  BY <1>1, <2>4, <3>1, <3>3
    <3> QED  BY <3>2, <3>3
  <2> QED
    BY <1>6, <2>2, <2>3, <2>5, <2>6, <2>7 DEF M!Step, M!Rollback, M!DiagnoseMaintenanceRequest,
       M!RequestMaintenanceApproval, M!Move, M!WriteUnlocked, M!Charge, M!Decide
<1> QED  BY <1>2, <1>3, <1>4, <1>5, <1>6 DEF M!Next

(* A ticket that is closed or cancelled stays so, however the endpoints     *)
(* interleave, as long as starting and validating, which write without a    *)
(* lock, are served alone.                                                  *)
THEOREM ClosedForGood == ASSUME MaxCharges \in Nat PROVE M!Spec /\ []Alone => M!FinishedStays
<1>1. M!Init => FoundIsSo  BY DEF M!Init, M!Idle, FoundIsSo
<1>2. LockInv /\ FoundIsSo /\ Alone /\ [M!Next]_M!vars => FoundIsSo'  BY FoundKept
<1>3. ASSUME LockInv, FoundIsSo, [M!Next]_M!vars, NEW t \in Tickets,
             ticket[t].status \in {"CLOSED", "CANCELLED"}
      PROVE  ticket'[t] = ticket[t]
  <2>0. M!TypeOK /\ TicketNamed /\ SeenIsSo  BY <1>3 DEF LockInv
  <2>1. CASE UNCHANGED M!vars  BY <2>1 DEF M!vars
  <2>2. ASSUME NEW u \in Tickets, M!CreateMaintenanceRequest(u)
        PROVE  ticket'[t] = ticket[t]
    BY <1>3, <2>0, <2>2 DEF M!CreateMaintenanceRequest, M!TypeOK
  <2>3. CASE \E f \in Flows : M!CancelWorkflow(f)  BY <2>3 DEF M!CancelWorkflow
  <2>4. ASSUME NEW s \in Sessions, M!Request(s) \/ M!Rollback(s)
        PROVE  ticket' = ticket
    BY <2>4 DEF M!Request, M!RequestOn, M!Begin, M!Rollback
  <2>5. ASSUME NEW s \in Sessions, Holds(s)
        PROVE  mReq[s].id # t
    <3>1. mReq[s].op \in M!AllEndpoints \ {"decide", "cancelWorkflow"}
      BY <2>0, <2>5 DEF Holds, LockedOps, TicketNamed
    <3>2. "CLOSED" \notin M!From(mReq[s]) /\ "CANCELLED" \notin M!From(mReq[s])
      BY <2>0, <3>1, NothingFromFinished DEF TicketNamed, M!TypeOK
    <3> QED  BY <1>3, <2>0, <2>5, <3>2 DEF SeenIsSo
  <2>6. ASSUME NEW s \in Sessions, NEW status,
               M!SetStatus(mReq[s].id, status) \/ M!StartFlow(mReq[s].id, status), Holds(s)
        PROVE  ticket'[t] = ticket[t]
    BY <2>0, <2>5, <2>6 DEF M!SetStatus, M!StartFlow, M!TypeOK
  <2>7. ASSUME NEW s \in Sessions, M!DiagnoseMaintenanceRequest(s) \/ M!RequestMaintenanceApproval(s)
        PROVE  ticket'[t] = ticket[t]
    <3>1. Holds(s)
      BY <2>7, Ops DEF M!DiagnoseMaintenanceRequest, M!RequestMaintenanceApproval, Holds, LockedOps, M!Unlocked
    <3> QED  BY <2>6, <2>7, <3>1 DEF M!DiagnoseMaintenanceRequest, M!RequestMaintenanceApproval
  <2>8. ASSUME NEW s \in Sessions, M!Move(s)
        PROVE  ticket'[t] = ticket[t]
    <3>1. Holds(s)  BY <2>8, Ops DEF M!Move, Holds, LockedOps, M!Unlocked
    <3> QED  BY <2>6, <2>8, <3>1 DEF M!Move
  <2>10. ASSUME NEW s \in Sessions, M!WriteUnlocked(s)
         PROVE  ticket'[t] = ticket[t]
    <3>1. mReq[s] \in M!Requests /\ mReq[s].op \in M!AllEndpoints \ {"decide", "cancelWorkflow", "transition"}
      BY <2>0, <2>10, Ops DEF M!WriteUnlocked, M!Unlocked, M!TypeOK
    <3>2. "CLOSED" \notin M!From(mReq[s]) /\ "CANCELLED" \notin M!From(mReq[s])
      BY <3>1, NothingFromFinished
    <3>3. mReq[s].id # t  BY <1>3, <2>10, <3>2 DEF FoundIsSo, M!WriteUnlocked
    <3> QED  BY <2>0, <2>10, <3>3 DEF M!WriteUnlocked, M!SetStatus, M!TypeOK
  <2>9. ASSUME NEW s \in Sessions, M!Step(s), ~M!Move(s), ~M!WriteUnlocked(s),
               ~M!DiagnoseMaintenanceRequest(s), ~M!RequestMaintenanceApproval(s)
        PROVE  ticket' = ticket
    BY <1>3, <2>9 DEF M!Step, M!ReadFlow, M!CheckFlow, M!AssertMaintenanceStatus, M!Charge,
                      M!ReadStep, M!Decide
  <2> QED  BY <1>3, <2>1, <2>2, <2>3, <2>4, <2>7, <2>8, <2>9, <2>10 DEF M!Next
<1>4. LockInv /\ FoundIsSo /\ [M!Next]_M!vars => [M!KeepsFinished]_M!vars
  BY <1>3 DEF M!KeepsFinished
<1> QED  BY <1>1, <1>2, <1>4, LocksHold, PTL DEF M!Spec, M!FinishedStays

-----------------------------------------------------------------------------
(* Emails.                                                                  *)

(* Rows are numbered.                                                       *)
MailsNumbered == Mails \subseteq Int /\ IsFiniteSet(Mails)

(* A tick reads the queue while nobody sends, and no answer of the mail     *)
(* server is lost.                                                          *)
QueueReadAlone ==
  \A w, v \in E!Senders :
    w # v /\ eReq[w].op = "tick" /\ eReq[w].stage = "begin" => eReq[v] = E!Idle
AnswersArrive ==
  \A w \in E!Senders : eReq[w].stage = "transmit" /\ eReq'[w].stage = "failed" => mail' = mail

Workers ==
  [op: {"none", "send", "tick"}, stage: {"begin", "insert", "mark", "transmit", "accepted", "failed"},
   key: Keys \cup {"none"}, row: Mails \cup {0}, todo: Seq(Mails)]

(* The rows a worker has taken: that of the email it sends, and those of    *)
(* the emails it will send.                                                 *)
Out(r)    == r.stage \notin {"begin", "insert"}
Taken(r)  == {r.row} \cup {r.todo[n] : n \in DOMAIN r.todo}
Claims(r) == IF Out(r) THEN Taken(r) ELSE {}

(* What a worker has taken waits; what it is sending is marked so, and has  *)
(* gone out if and only if it was accepted.                                 *)
Waiting(row) == row.status \in {"PENDING", "FAILED"}
InOrder(r, table) ==
  /\ r.row \in Mails
  /\ \A n \in DOMAIN r.todo : r.todo[n] # r.row /\ Waiting(table[r.todo[n]])
  /\ \A m, n \in DOMAIN r.todo : r.todo[m] = r.todo[n] => m = n
  /\ r.stage = "mark" => Waiting(table[r.row])
  /\ r.stage # "mark" =>
       /\ table[r.row].status = "SENDING"
       /\ table[r.row].delivered = IF r.stage = "accepted" THEN 1 ELSE 0
WorkerOK(r, table) ==
  /\ ~Out(r) => Len(r.todo) = 0
  /\ Out(r) => InOrder(r, table)

(* An email has gone out at most once, and only if its row is SENDING or    *)
(* SENT; the index allows one such row of a key.                            *)
RowsOnce(table) ==
  \A m \in Mails :
    /\ table[m].delivered <= 1
    /\ table[m].status \notin {"SENDING", "SENT"} => table[m].delivered = 0
Unrepeated(table) ==
  \A m, n \in Mails :
    m # n /\ table[m].status \in Indexed /\ table[n].status \in Indexed => table[m].key # table[n].key
TableOK(table) == table \in [Mails -> MailRows] /\ RowsOnce(table) /\ Unrepeated(table)

MailInv ==
  /\ TableOK(mail) /\ eReq \in [E!Senders -> Workers]
  /\ \A w \in E!Senders : WorkerOK(eReq[w], mail)
  /\ \A v, w \in E!Senders : v # w => Claims(eReq[v]) \cap Claims(eReq[w]) = {}

-----------------------------------------------------------------------------
(* A worker that goes on with a record r2, and changes one row of its own,  *)
(* or one that was not stored yet.                                          *)
LEMMA SameForOthers ==
  ASSUME NEW r \in Workers, NEW t1, NEW t2, WorkerOK(r, t1), \A k \in Claims(r) : t2[k] = t1[k]
  PROVE  WorkerOK(r, t2)
<1> SUFFICES ASSUME Out(r) PROVE InOrder(r, t2)  BY DEF WorkerOK
<1>1. InOrder(r, t1)  BY DEF WorkerOK
<1>2. t2[r.row] = t1[r.row] /\ \A n \in DOMAIN r.todo : t2[r.todo[n]] = t1[r.todo[n]]
  BY DEF Claims, Taken
<1> QED  BY <1>1, <1>2 DEF InOrder, Waiting

LEMMA OneGoesOn ==
  ASSUME MailInv, NEW w \in E!Senders, NEW r2 \in Workers, NEW t2, NEW m,
         eReq' = [eReq EXCEPT ![w] = r2], mail' = t2, TableOK(t2), WorkerOK(r2, t2),
         \A k \in Mails \ {m} : t2[k] = mail[k],
         m \in Claims(eReq[w]) \/ mail[m].status = "none",
         Claims(r2) \subseteq Claims(eReq[w]) \cup {m}
  PROVE  MailInv'
<1>1. eReq' \in [E!Senders -> Workers]  BY DEF MailInv
<1>2. \A v \in E!Senders : eReq[v] \in Workers /\ WorkerOK(eReq[v], mail)  BY DEF MailInv
<1>3. ASSUME NEW v \in E!Senders \ {w} PROVE Claims(eReq[v]) \subseteq Mails \ {m}
  <2>1. CASE ~Out(eReq[v])  BY <2>1 DEF Claims
  <2>2. CASE Out(eReq[v])
    <3>1. InOrder(eReq[v], mail) /\ eReq[v].todo \in Seq(Mails)  BY <1>2, <2>2 DEF WorkerOK, Workers
    <3>2. Claims(eReq[v]) \subseteq Mails  BY <2>2, <3>1 DEF Claims, Taken, InOrder
    <3>3. \A k \in Claims(eReq[v]) : mail[k].status # "none"
      BY <2>2, <3>1 DEF Claims, Taken, InOrder, Waiting
    <3>4. Claims(eReq[v]) \cap Claims(eReq[w]) = {}  BY DEF MailInv
    <3> QED  BY <3>2, <3>3, <3>4
  <2> QED  BY <2>1, <2>2
<1>4. ASSUME NEW v \in E!Senders PROVE WorkerOK(eReq'[v], mail')
  <2>1. CASE v = w  BY <2>1 DEF MailInv
  <2>2. CASE v # w
    <3>1. eReq'[v] = eReq[v]  BY <2>2 DEF MailInv
    <3>2. \A k \in Claims(eReq[v]) : t2[k] = mail[k]  BY <1>3, <2>2
    <3> QED  BY <1>2, <3>1, <3>2, SameForOthers
  <2> QED  BY <2>1, <2>2
<1>5. ASSUME NEW u \in E!Senders, NEW v \in E!Senders, u # v
      PROVE  Claims(eReq'[u]) \cap Claims(eReq'[v]) = {}
  <2>1. \A x \in E!Senders \ {w} : Claims(r2) \cap Claims(eReq[x]) = {}
    BY <1>3 DEF MailInv
  <2>2. \A x \in E!Senders : eReq'[x] = IF x = w THEN r2 ELSE eReq[x]  BY DEF MailInv
  <2>3. Claims(eReq[u]) \cap Claims(eReq[v]) = {}  BY <1>5 DEF MailInv
  <2> QED  BY <1>5, <2>1, <2>2, <2>3
<1> QED  BY <1>1, <1>4, <1>5 DEF MailInv

(* Nothing is written.                                                      *)
LEMMA NothingWritten ==
  ASSUME MailInv, NEW w \in E!Senders, NEW r2 \in Workers,
         eReq' = [eReq EXCEPT ![w] = r2], mail' = mail, WorkerOK(r2, mail),
         Claims(r2) \subseteq Claims(eReq[w])
  PROVE  MailInv'
<1>1. TableOK(mail)  BY DEF MailInv
<1>2. \A v \in E!Senders : eReq[v] \in Workers /\ WorkerOK(eReq[v], mail)  BY DEF MailInv
<1>3. eReq' \in [E!Senders -> Workers] /\ \A x \in E!Senders : eReq'[x] = IF x = w THEN r2 ELSE eReq[x]
  BY DEF MailInv
<1>4. \A v \in E!Senders : WorkerOK(eReq'[v], mail')  BY <1>2, <1>3
<1>5. \A u, v \in E!Senders : u # v => Claims(eReq[u]) \cap Claims(eReq[v]) = {}  BY DEF MailInv
<1>6. \A u, v \in E!Senders : u # v => Claims(eReq'[u]) \cap Claims(eReq'[v]) = {}
  BY <1>3, <1>5
<1> QED  BY <1>1, <1>3, <1>4, <1>6 DEF MailInv

LEMMA IdleWorker ==
  /\ E!Idle \in Workers /\ E!Idle.stage = "begin" /\ Len(E!Idle.todo) = 0
  /\ Claims(E!Idle) = {} /\ \A t : WorkerOK(E!Idle, t)
<1>1. E!Idle \in Workers  BY DEF E!Idle, Workers
<1>2. E!Idle.stage = "begin" /\ Len(E!Idle.todo) = 0  BY DEF E!Idle
<1> QED  BY <1>1, <1>2 DEF Claims, Out, WorkerOK

(* A worker whose row is done goes on with the next.                        *)
Following(r) ==
  IF r.todo = <<>> THEN E!Idle
  ELSE [r EXCEPT !.stage = "mark", !.row = Head(r.todo), !.todo = Tail(@)]
LEMMA SendsOn ==
  ASSUME NEW r \in Workers, NEW t1, NEW t2, Out(r), InOrder(r, t1), \A k \in Mails \ {r.row} : t2[k] = t1[k]
  PROVE  Following(r) \in Workers /\ WorkerOK(Following(r), t2) /\ Claims(Following(r)) \subseteq Claims(r)
<1> DEFINE n == Following(r)
<1>0. r.todo \in Seq(Mails)  BY DEF Workers
<1>1. CASE r.todo = <<>>  BY <1>1, IdleWorker DEF Following
<1>2. CASE r.todo # <<>>
  <2>1. /\ n = [r EXCEPT !.stage = "mark", !.row = Head(r.todo), !.todo = Tail(r.todo)]
        /\ Head(r.todo) = r.todo[1] /\ Head(r.todo) \in Mails /\ Tail(r.todo) \in Seq(Mails)
        /\ 1 \in DOMAIN r.todo
    BY <1>0, <1>2 DEF Following
  <2>2. /\ DOMAIN Tail(r.todo) = 1..(Len(r.todo) - 1) /\ DOMAIN r.todo = 1..Len(r.todo) /\ Len(r.todo) \in Nat
        /\ \A k \in DOMAIN Tail(r.todo) : Tail(r.todo)[k] = r.todo[k + 1]
    BY <1>0, <1>2
  <2>3. n \in Workers /\ n.stage = "mark" /\ n.row = r.todo[1] /\ n.todo = Tail(r.todo)
    BY <2>1 DEF Workers
  <2> HIDE DEF n
  <2>4. \A k \in DOMAIN r.todo : r.todo[k] \in Mails /\ r.todo[k] # r.row  BY <1>0 DEF InOrder
  <2>5. \A k \in DOMAIN r.todo : Waiting(t2[r.todo[k]])  BY <2>4 DEF InOrder
  <2>6. \A k \in DOMAIN n.todo : k + 1 \in DOMAIN r.todo /\ n.todo[k] = r.todo[k + 1] /\ k + 1 # 1 /\ k \in Int
    BY <2>2, <2>3
  <2>7. \A k \in DOMAIN n.todo : n.todo[k] # n.row /\ Waiting(t2[n.todo[k]])
    BY <2>1, <2>3, <2>5, <2>6 DEF InOrder
  <2>8. \A j, k \in DOMAIN n.todo : n.todo[j] = n.todo[k] => j = k
    <3> SUFFICES ASSUME NEW j \in DOMAIN n.todo, NEW k \in DOMAIN n.todo, n.todo[j] = n.todo[k] PROVE j = k
      OBVIOUS
    <3>1. j + 1 = k + 1  BY <2>6 DEF InOrder
    <3> QED  BY <2>6, <3>1
  <2>9. InOrder(n, t2)  BY <2>1, <2>3, <2>4, <2>5, <2>7, <2>8 DEF InOrder
  <2>10. Claims(n) \subseteq Claims(r)  BY <2>1, <2>3, <2>6 DEF Claims, Taken, Out
  <2> QED  BY <2>3, <2>9, <2>10 DEF n, WorkerOK, Out
<1> QED  BY <1>1, <1>2

LEMMA DoneIs ==
  ASSUME NEW w, E!Done(w) PROVE eReq' = [eReq EXCEPT ![w] = Following(eReq[w])]
BY DEF E!Done, E!Continue, Following

-----------------------------------------------------------------------------
(* The steps.                                                               *)
LEMMA SelectStep ==
  ASSUME MailsNumbered, MailInv, QueueReadAlone, NEW w \in E!Senders, E!SelectQueued(w)
  PROVE  MailInv'
<1> DEFINE todo == E!Oldest({r \in Mails : E!Queued(r)})
<1>c. \A S : E!Cardinality(S) = Cardinality(S)  BY DEF E!Cardinality, Cardinality
<1>1. PICK order \in [1..Cardinality(todo) -> todo] :
        /\ \A i, j \in DOMAIN order : i < j => order[i] < order[j]
        /\ E!Continue(w, IF todo = {} THEN E!Idle
                         ELSE [eReq[w] EXCEPT !.stage = "mark", !.row = Head(order), !.todo = Tail(order)])
  BY <1>c DEF E!SelectQueued
<1>2. mail' = mail /\ eReq[w].op = "tick" /\ eReq[w].stage = "begin" /\ eReq[w] \in Workers
  BY DEF E!SelectQueued, E!At, MailInv
<1>3. \A v \in E!Senders \ {w} : Claims(eReq[v]) = {}  BY <1>2, IdleWorker DEF QueueReadAlone
<1>4. todo \subseteq Mails /\ \A m \in todo : Waiting(mail[m])
  BY DEF E!Oldest, E!Queued, Waiting
<1> HIDE DEF todo
<1>5. CASE todo = {}
  <2>1. eReq' = [eReq EXCEPT ![w] = E!Idle]  BY <1>1, <1>5 DEF E!Continue
  <2> QED  BY <1>2, <2>1, IdleWorker, NothingWritten
<1>6. CASE todo # {}
  <2> DEFINE n == [eReq[w] EXCEPT !.stage = "mark", !.row = Head(order), !.todo = Tail(order)]
  <2>1. eReq' = [eReq EXCEPT ![w] = n]  BY <1>1, <1>6 DEF E!Continue
  <2>2. IsFiniteSet(todo) /\ Cardinality(todo) \in Nat /\ Cardinality(todo) # 0
    <3>1. IsFiniteSet(todo)  BY <1>4, FS_Subset DEF MailsNumbered
    <3> QED  BY <1>6, <3>1, FS_CardinalityType, FS_EmptySet
  <2>3. order \in Seq(Mails) /\ Len(order) = Cardinality(todo) /\ order # <<>>
    <3>1. order \in [1..Cardinality(todo) -> Mails]  BY <1>4
    <3> QED  BY <2>2, <3>1
  <2>4. Head(order) = order[1] /\ Tail(order) \in Seq(Mails) /\ 1 \in DOMAIN order
        /\ DOMAIN order = 1..Len(order) /\ Len(order) \in Nat
        /\ DOMAIN Tail(order) = 1..(Len(order) - 1)
        /\ \A k \in DOMAIN Tail(order) : Tail(order)[k] = order[k + 1]
    BY <2>2, <2>3
  <2>5. \A k \in DOMAIN order : order[k] \in todo /\ order[k] \in Mails /\ order[k] \in Int
    BY <1>4 DEF MailsNumbered
  <2>6. \A j, k \in DOMAIN order : order[j] = order[k] => j = k
    <3> SUFFICES ASSUME NEW j \in DOMAIN order, NEW k \in DOMAIN order, j # k PROVE order[j] # order[k]
      OBVIOUS
    <3>1. j < k \/ k < j  BY <2>4
    <3>2. order[j] < order[k] \/ order[k] < order[j]  BY <1>1, <3>1
    <3> QED  BY <2>5, <3>2
  <2>7. n \in Workers /\ n.stage = "mark" /\ n.row = order[1] /\ n.todo = Tail(order)
    BY <1>2, <2>4, <2>5 DEF Workers
  <2> HIDE DEF n
  <2>8. \A k \in DOMAIN n.todo : k + 1 \in DOMAIN order /\ n.todo[k] = order[k + 1] /\ k + 1 # 1 /\ k \in Int
    BY <2>4, <2>7
  <2>9. \A k \in DOMAIN n.todo : n.todo[k] # n.row /\ Waiting(mail[n.todo[k]])
    BY <1>4, <2>4, <2>5, <2>6, <2>7, <2>8
  <2>10. \A j, k \in DOMAIN n.todo : n.todo[j] = n.todo[k] => j = k
    <3> SUFFICES ASSUME NEW j \in DOMAIN n.todo, NEW k \in DOMAIN n.todo, n.todo[j] = n.todo[k] PROVE j = k
      OBVIOUS
    <3>1. j + 1 = k + 1  BY <2>6, <2>8
    <3> QED  BY <2>8, <3>1
  <2>11. WorkerOK(n, mail)  BY <1>4, <2>4, <2>5, <2>7, <2>9, <2>10 DEF WorkerOK, InOrder, Out
  <2>12. eReq' \in [E!Senders -> Workers] /\ \A x \in E!Senders : eReq'[x] = IF x = w THEN n ELSE eReq[x]
    BY <2>1, <2>7 DEF MailInv
  <2>13. \A v \in E!Senders : WorkerOK(eReq'[v], mail')  BY <1>2, <2>11, <2>12 DEF MailInv
  <2>14. \A u, v \in E!Senders : u # v => Claims(eReq'[u]) \cap Claims(eReq'[v]) = {}
    BY <1>3, <2>12
  <2> QED  BY <1>2, <2>12, <2>13, <2>14 DEF MailInv
<1> QED  BY <1>5, <1>6

LEMMA CallerSteps ==
  ASSUME MailInv, NEW w \in E!Senders,
         E!Tick(w) \/ E!FindDuplicateLog(w) \/ E!InsertLog(w) \/ \E key \in Keys : E!Send(w, key)
  PROVE  MailInv'
<1>0. eReq[w] \in Workers /\ WorkerOK(eReq[w], mail)  BY DEF MailInv
<1>1. CASE E!Tick(w)
  <2> DEFINE n == [E!Idle EXCEPT !.op = "tick"]
  <2>1. eReq' = [eReq EXCEPT ![w] = n] /\ mail' = mail  BY <1>1 DEF E!Tick, E!Continue
  <2>2. n \in Workers /\ n.stage = "begin" /\ Len(n.todo) = 0  BY IdleWorker DEF Workers
  <2> HIDE DEF n
  <2>3. WorkerOK(n, mail) /\ Claims(n) = {}  BY <2>2 DEF WorkerOK, Claims, Out
  <2> QED  BY <2>1, <2>2, <2>3, NothingWritten
<1>2. ASSUME NEW key \in Keys, E!Send(w, key) PROVE MailInv'
  <2> DEFINE n == [E!Idle EXCEPT !.op = "send", !.key = key]
  <2>1. eReq' = [eReq EXCEPT ![w] = n] /\ mail' = mail  BY <1>2 DEF E!Send, E!Continue
  <2>2. n \in Workers /\ n.stage = "begin" /\ Len(n.todo) = 0  BY IdleWorker DEF Workers
  <2> HIDE DEF n
  <2>3. WorkerOK(n, mail) /\ Claims(n) = {}  BY <2>2 DEF WorkerOK, Claims, Out
  <2> QED  BY <2>1, <2>2, <2>3, NothingWritten
<1>3. CASE E!FindDuplicateLog(w)
  <2> DEFINE n == [eReq[w] EXCEPT !.stage = "insert"]
  <2>1. mail' = mail /\ eReq[w].stage = "begin"  BY <1>3 DEF E!FindDuplicateLog, E!At
  <2>2. eReq' = [eReq EXCEPT ![w] = E!Idle] \/ eReq' = [eReq EXCEPT ![w] = n]
    BY <1>3 DEF E!FindDuplicateLog, E!Continue
  <2>3. n \in Workers /\ n.stage = "insert" /\ n.todo = eReq[w].todo  BY <1>0 DEF Workers
  <2> HIDE DEF n
  <2>4. WorkerOK(n, mail) /\ Claims(n) = {}  BY <1>0, <2>1, <2>3 DEF WorkerOK, Claims, Out
  <2> QED  BY <2>1, <2>2, <2>3, <2>4, IdleWorker, NothingWritten
<1>4. CASE E!InsertLog(w)
  <2>1. PICK r \in Mails :
          /\ E!NextRow(r)
          /\ IF E!Clashes(r, eReq[w].key)
             THEN E!Continue(w, E!Idle) /\ mail' = mail
             ELSE /\ E!Continue(w, [eReq[w] EXCEPT !.stage = "mark", !.row = r])
                  /\ mail' = [mail EXCEPT ![r].status = "PENDING", ![r].key = eReq[w].key]
    BY <1>4 DEF E!InsertLog
  <2>2. eReq[w].stage = "insert" /\ mail[r].status = "none"  BY <1>4, <2>1 DEF E!InsertLog, E!At, E!NextRow
  <2>3. CASE E!Clashes(r, eReq[w].key)
    BY <2>1, <2>3, IdleWorker, NothingWritten DEF E!Continue
  <2>4. CASE ~E!Clashes(r, eReq[w].key)
    <3> DEFINE n == [eReq[w] EXCEPT !.stage = "mark", !.row = r]
               t == [mail EXCEPT ![r].status = "PENDING", ![r].key = eReq[w].key]
    <3>1. eReq' = [eReq EXCEPT ![w] = n] /\ mail' = t  BY <2>1, <2>4 DEF E!Continue
    <3>2. n \in Workers /\ n.stage = "mark" /\ n.row = r /\ n.todo = eReq[w].todo  BY <1>0 DEF Workers
    <3>3. Len(n.todo) = 0 /\ n.todo \in Seq(Mails)  BY <1>0, <2>2, <3>2 DEF WorkerOK, Out, Workers
    <3>4. DOMAIN n.todo = {}  BY <3>3
    <3>5. mail \in [Mails -> MailRows] /\ eReq[w].key \in Keys \cup {"none"}  BY <1>0 DEF MailInv, TableOK, Workers
    <3>6. t \in [Mails -> MailRows] /\ t[r].status = "PENDING" /\ t[r].key = eReq[w].key
          /\ t[r].delivered = mail[r].delivered /\ \A k \in Mails \ {r} : t[k] = mail[k]
      BY <3>5 DEF MailRows
    <3>7. ~\E q \in Mails \ {r} : mail[q].key = eReq[w].key /\ mail[q].status \in Indexed
      BY <2>4 DEF E!Clashes, E!Indexed, Indexed
    <3> HIDE DEF n, t
    <3>8. TableOK(t)
      <4>1. RowsOnce(t)  BY <2>2, <3>6 DEF MailInv, TableOK, RowsOnce
      <4>2. Unrepeated(t)  BY <3>6, <3>7 DEF MailInv, TableOK, Unrepeated
      <4> QED  BY <3>6, <4>1, <4>2 DEF TableOK
    <3>9. WorkerOK(n, t)  BY <3>2, <3>4, <3>6 DEF WorkerOK, InOrder, Waiting, Out
    <3>10. Claims(n) \subseteq {r}  BY <3>2, <3>4 DEF Claims, Taken
    <3> QED  BY <2>2, <3>1, <3>2, <3>6, <3>8, <3>9, <3>10, OneGoesOn
  <2> QED  BY <2>3, <2>4
<1> QED  BY <1>1, <1>2, <1>3, <1>4

(* The row of an email under way: what becomes of the table when it is      *)
(* written.                                                                 *)
LEMMA RowWritten ==
  ASSUME TableOK(mail), NEW r \in Mails, NEW row \in MailRows, NEW t, t = [mail EXCEPT ![r] = row],
         row.key = mail[r].key, row.delivered <= 1,
         row.status \notin {"SENDING", "SENT"} => row.delivered = 0,
         (row.status \in Indexed /\ mail[r].status \notin Indexed) =>
            ~\E q \in Mails \ {r} : mail[q].key = mail[r].key /\ mail[q].status \in Indexed
  PROVE  TableOK(t) /\ t[r] = row /\ \A k \in Mails \ {r} : t[k] = mail[k]
<1>1. t \in [Mails -> MailRows] /\ \A k \in Mails : t[k] = IF k = r THEN row ELSE mail[k]  BY DEF TableOK
<1>2. RowsOnce(t)  BY <1>1 DEF TableOK, RowsOnce
<1>3. Unrepeated(t)  BY <1>1 DEF TableOK, Unrepeated
<1> QED  BY <1>1, <1>2, <1>3 DEF TableOK

LEMMA SendingSteps ==
  ASSUME MailInv, AnswersArrive, NEW w \in E!Senders,
         \/ E!MarkSending(w) \/ E!FinalizeSkipped(w) \/ E!Transmit(w)
         \/ E!RecordSent(w) \/ E!RecordFailed(w)
  PROVE  MailInv'
<1> DEFINE r == eReq[w]
           m == r.row
<1>0. r \in Workers /\ WorkerOK(r, mail) /\ TableOK(mail) /\ Out(r)
  BY DEF MailInv, E!MarkSending, E!FinalizeSkipped, E!Transmit, E!RecordSent, E!RecordFailed, E!At, Out
<1>1. InOrder(r, mail) /\ m \in Mails /\ m \in Claims(r) /\ mail[m] \in MailRows
  BY <1>0 DEF WorkerOK, InOrder, Claims, Taken, TableOK
<1>2. ASSUME NEW t, TableOK(t), mail' = t, \A k \in Mails \ {m} : t[k] = mail[k],
             eReq' = [eReq EXCEPT ![w] = Following(r)]
      PROVE  MailInv'
  <2>1. Following(r) \in Workers /\ WorkerOK(Following(r), t) /\ Claims(Following(r)) \subseteq Claims(r)
    BY <1>0, <1>1, <1>2, SendsOn
  <2> QED  BY <1>1, <1>2, <2>1, OneGoesOn
<1>3. ASSUME NEW stage \in {"transmit", "accepted", "failed"}, NEW t, TableOK(t), mail' = t,
             \A k \in Mails \ {m} : t[k] = mail[k],
             eReq' = [eReq EXCEPT ![w] = [r EXCEPT !.stage = stage]],
             t[m].status = "SENDING", t[m].delivered = IF stage = "accepted" THEN 1 ELSE 0
      PROVE  MailInv'
  <2> DEFINE n == [r EXCEPT !.stage = stage]
  <2>1. n \in Workers /\ n.stage = stage /\ n.row = m /\ n.todo = r.todo  BY <1>0 DEF Workers
  <2>2. r.todo \in Seq(Mails)  BY <1>0 DEF Workers
  <2> HIDE DEF n
  <2>3. \A k \in DOMAIN r.todo : t[r.todo[k]] = mail[r.todo[k]]  BY <1>1, <1>3, <2>2 DEF InOrder
  <2>4. InOrder(n, t)  BY <1>1, <1>3, <2>1, <2>3 DEF InOrder
  <2>5. WorkerOK(n, t) /\ Claims(n) \subseteq Claims(r)
    BY <1>0, <2>1, <2>4 DEF WorkerOK, Claims, Taken, Out
  <2>6. eReq' = [eReq EXCEPT ![w] = n]  BY <1>3 DEF n
  <2> QED  BY <1>1, <1>3, <2>1, <2>5, <2>6, OneGoesOn
<1>4. r.stage # "mark" => mail[m].status = "SENDING" /\ mail[m].delivered = IF r.stage = "accepted" THEN 1 ELSE 0
  BY <1>1 DEF InOrder
<1>5. r.stage = "mark" => mail[m].delivered = 0
  BY <1>0, <1>1 DEF InOrder, Waiting, TableOK, RowsOnce
<1>6. CASE E!MarkSending(w)
  <2>1. r.stage = "mark"  BY <1>6 DEF E!MarkSending, E!At
  <2>2. CASE E!Clashes(m, mail[m].key)
    BY <1>0, <1>2, <1>6, <2>2, DoneIs DEF E!MarkSending
  <2>3. CASE ~E!Clashes(m, mail[m].key)
    <3> DEFINE row == [mail[m] EXCEPT !.status = "SENDING"]
               t == [mail EXCEPT ![m] = row]
    <3>1. mail' = t /\ eReq' = [eReq EXCEPT ![w] = [r EXCEPT !.stage = "transmit"]]
      BY <1>6, <2>3 DEF E!MarkSending, E!Continue
    <3>2. row \in MailRows /\ row.status = "SENDING" /\ row.key = mail[m].key /\ row.delivered = mail[m].delivered
      BY <1>1 DEF MailRows
    <3>3. ~\E q \in Mails \ {m} : mail[q].key = mail[m].key /\ mail[q].status \in Indexed
      BY <2>3 DEF E!Clashes, E!Indexed, Indexed
    <3> HIDE DEF row
    <3>4. TableOK(t) /\ t[m] = row /\ \A k \in Mails \ {m} : t[k] = mail[k]
      BY <1>0, <1>1, <1>5, <2>1, <3>2, <3>3, RowWritten
    <3> HIDE DEF t
    <3> QED  BY <1>3, <1>5, <2>1, <3>1, <3>2, <3>4
  <2> QED  BY <2>2, <2>3
<1>7. CASE E!FinalizeSkipped(w)
  <2> DEFINE row == [mail[m] EXCEPT !.status = "SKIPPED"]
             t == [mail EXCEPT ![m] = row]
  <2>1. r.stage = "transmit" /\ mail' = t  BY <1>7 DEF E!FinalizeSkipped, E!At
  <2>2. eReq' = [eReq EXCEPT ![w] = Following(r)]  BY <1>7, DoneIs DEF E!FinalizeSkipped
  <2>3. row \in MailRows /\ row.status = "SKIPPED" /\ row.key = mail[m].key /\ row.delivered = mail[m].delivered
    BY <1>1 DEF MailRows
  <2> HIDE DEF row
  <2>4. mail[m].status = "SENDING" /\ mail[m].delivered = 0  BY <1>4, <2>1
  <2>5. TableOK(t) /\ \A k \in Mails \ {m} : t[k] = mail[k]
    BY <1>0, <1>1, <2>3, <2>4, RowWritten DEF Indexed
  <2> HIDE DEF t
  <2> QED  BY <1>2, <2>1, <2>2, <2>5
<1>8. CASE E!Transmit(w)
  <2>1. PICK gone \in BOOLEAN, answered \in BOOLEAN :
          /\ answered => gone
          /\ mail' = [mail EXCEPT ![m].delivered = IF gone THEN @ + 1 ELSE @]
          /\ E!Continue(w, [r EXCEPT !.stage = IF answered THEN "accepted" ELSE "failed"])
    BY <1>8 DEF E!Transmit
  <2>2. r.stage = "transmit" /\ mail[m].status = "SENDING" /\ mail[m].delivered = 0
    BY <1>4, <1>8 DEF E!Transmit, E!At
  <2>3. CASE answered
    <3> DEFINE row == [mail[m] EXCEPT !.delivered = 1]
               t == [mail EXCEPT ![m] = row]
    <3>1. mail' = t  BY <2>1, <2>2, <2>3
    <3>2. eReq' = [eReq EXCEPT ![w] = [r EXCEPT !.stage = "accepted"]]  BY <2>1, <2>3 DEF E!Continue
    <3>3. row \in MailRows /\ row.status = "SENDING" /\ row.key = mail[m].key /\ row.delivered = 1
      BY <1>1, <2>2 DEF MailRows
    <3> HIDE DEF row
    <3>4. TableOK(t) /\ t[m] = row /\ \A k \in Mails \ {m} : t[k] = mail[k]
      BY <1>0, <1>1, <2>2, <3>3, RowWritten DEF Indexed
    <3> HIDE DEF t
    <3> QED  BY <1>3, <3>1, <3>2, <3>3, <3>4
  <2>4. CASE ~answered
    <3>1. eReq' = [eReq EXCEPT ![w] = [r EXCEPT !.stage = "failed"]]  BY <2>1, <2>4 DEF E!Continue
    <3>2. eReq'[w].stage = "failed"  BY <1>0, <3>1 DEF MailInv, Workers
    <3>3. mail' = mail  BY <2>2, <3>2 DEF AnswersArrive
    <3> QED  BY <1>0, <1>3, <2>2, <3>1, <3>3
  <2> QED  BY <2>3, <2>4
<1>9. CASE E!RecordSent(w)
  <2>1. r.stage = "accepted" /\ mail[m].status = "SENDING" /\ mail[m].delivered = 1
    BY <1>4, <1>9 DEF E!RecordSent, E!At
  <2>2. ~E!Clashes(m, mail[m].key)
    BY <1>0, <1>1, <2>1 DEF E!Clashes, E!Indexed, Indexed, TableOK, Unrepeated
  <2> DEFINE row == [mail[m] EXCEPT !.status = "SENT", !.attempts = @ + 1, !.recent = FALSE]
             t == [mail EXCEPT ![m] = row]
  <2>3. mail' = t  BY <1>1, <1>9, <2>2 DEF E!RecordSent, TableOK
  <2>4. eReq' = [eReq EXCEPT ![w] = Following(r)]  BY <1>9, <2>2, DoneIs DEF E!RecordSent
  <2>. mail[m].attempts + 1 \in Nat  BY <1>1 DEF MailRows
  <2>5. row \in MailRows /\ row.status = "SENT" /\ row.key = mail[m].key /\ row.delivered = mail[m].delivered
    BY <1>1 DEF MailRows
  <2> HIDE DEF row
  <2>6. TableOK(t) /\ \A k \in Mails \ {m} : t[k] = mail[k]
    BY <1>0, <1>1, <2>1, <2>5, RowWritten DEF Indexed
  <2> HIDE DEF t
  <2> QED  BY <1>2, <2>3, <2>4, <2>6
<1>10. CASE E!RecordFailed(w)
  <2>1. r.stage = "failed" /\ mail[m].status = "SENDING" /\ mail[m].delivered = 0
    BY <1>4, <1>10 DEF E!RecordFailed, E!At
  <2> DEFINE row == [mail[m] EXCEPT !.status = "FAILED", !.attempts = @ + 1, !.recent = TRUE]
             t == [mail EXCEPT ![m] = row]
  <2>2. mail' = t  BY <1>1, <1>10 DEF E!RecordFailed, TableOK
  <2>3. eReq' = [eReq EXCEPT ![w] = Following(r)]  BY <1>10, DoneIs DEF E!RecordFailed
  <2>. mail[m].attempts + 1 \in Nat  BY <1>1 DEF MailRows
  <2>4. row \in MailRows /\ row.status = "FAILED" /\ row.key = mail[m].key /\ row.delivered = mail[m].delivered
    BY <1>1 DEF MailRows
  <2> HIDE DEF row
  <2>5. TableOK(t) /\ \A k \in Mails \ {m} : t[k] = mail[k]
    BY <1>0, <1>1, <2>1, <2>4, RowWritten DEF Indexed
  <2> HIDE DEF t
  <2> QED  BY <1>2, <2>2, <2>3, <2>5
<1> QED  BY <1>6, <1>7, <1>8, <1>9, <1>10

LEMMA MailInit == ASSUME E!Init PROVE MailInv
<1> DEFINE blank == [status |-> "none", key |-> "none", attempts |-> 0, recent |-> FALSE, delivered |-> 0]
<1>1. blank \in MailRows /\ blank.status = "none" /\ blank.delivered = 0  BY DEF MailRows
<1>2. mail = [m \in Mails |-> blank] /\ eReq = [w \in E!Senders |-> E!Idle]  BY DEF E!Init
<1> HIDE DEF blank
<1>3. TableOK(mail)  BY <1>1, <1>2 DEF TableOK, RowsOnce, Unrepeated, Indexed
<1> QED  BY <1>2, <1>3, IdleWorker DEF MailInv

LEMMA MailStep ==
  ASSUME MailsNumbered, MailInv, QueueReadAlone, [E!Next]_E!vars, AnswersArrive \/ UNCHANGED E!vars
  PROVE  MailInv'
<1>1. CASE UNCHANGED E!vars
  <2>1. mail' = mail /\ eReq' = eReq  BY <1>1 DEF E!vars
  <2> QED  BY <2>1 DEF MailInv
<1>2. CASE E!Next /\ AnswersArrive
  <2>1. ASSUME NEW w \in E!Senders, E!Tick(w) \/ E!Progress(w) \/ \E key \in Keys : E!Send(w, key)
        PROVE  MailInv'
    BY <1>2, <2>1, SelectStep, CallerSteps, SendingSteps DEF E!Progress
  <2>2. ASSUME NEW m \in Mails, E!DelayOver(m) PROVE MailInv'
    <3> DEFINE row == [mail[m] EXCEPT !.recent = FALSE]
               t == [mail EXCEPT ![m] = row]
    <3>0. TableOK(mail) /\ mail[m] \in MailRows  BY DEF MailInv, TableOK
    <3>1. mail' = t /\ eReq' = eReq  BY <2>2 DEF E!DelayOver
    <3>2. /\ row \in MailRows /\ row.status = mail[m].status /\ row.key = mail[m].key
          /\ row.delivered = mail[m].delivered
      BY <3>0 DEF MailRows
    <3> HIDE DEF row
    <3>. /\ mail[m].delivered <= 1
         /\ mail[m].status \notin {"SENDING", "SENT"} => mail[m].delivered = 0
      BY <3>0 DEF TableOK, RowsOnce
    <3>3. TableOK(t) /\ t[m] = row /\ \A k \in Mails \ {m} : t[k] = mail[k]
      BY <3>0, <3>2, RowWritten
    <3>4. \A k \in Mails : t[k].status = mail[k].status /\ t[k].delivered = mail[k].delivered
      BY <3>2, <3>3
    <3> HIDE DEF t
    <3>5. ASSUME NEW w \in E!Senders PROVE WorkerOK(eReq[w], t)
      <4>1. WorkerOK(eReq[w], mail) /\ eReq[w].todo \in Seq(Mails)  BY DEF MailInv, Workers
      <4>2. \A n \in DOMAIN eReq[w].todo : eReq[w].todo[n] \in Mails  BY <4>1
      <4> QED  BY <3>4, <4>1, <4>2 DEF WorkerOK, InOrder, Waiting
    <3> QED  BY <3>1, <3>3, <3>5 DEF MailInv
  <2>3. CASE E!Crash
    <3>1. mail' = mail /\ eReq' = [w \in E!Senders |-> E!Idle]  BY <2>3 DEF E!Crash
    <3> QED  BY <3>1, IdleWorker DEF MailInv
  <2> QED  BY <1>2, <2>1, <2>2, <2>3 DEF E!Next
<1> QED  BY <1>1, <1>2

(* At most one row of a key has gone out, and once.                         *)
LEMMA OnceOfAKey == ASSUME MailsNumbered, MailInv PROVE DeliveredOnce
<1> SUFFICES ASSUME NEW key \in Keys
             PROVE  SumFunctionOnSet([r \in Mails |-> mail[r].delivered], {r \in Mails : mail[r].key = key}) <= 1
  BY DEF DeliveredOnce
<1> DEFINE f == [r \in Mails |-> mail[r].delivered]
           S == {r \in Mails : mail[r].key = key}
<1>1. TableOK(mail) /\ mail \in [Mails -> MailRows]  BY DEF MailInv, TableOK
<1>2. IsFiniteSet(S) /\ S \subseteq Mails  BY FS_Subset DEF MailsNumbered
<1>3. \A r \in Mails : f[r] \in Nat /\ f[r] <= 1  BY <1>1 DEF MailRows, TableOK, RowsOnce
<1>4. \A q, r \in S : f[q] # 0 /\ f[r] # 0 => q = r
  BY <1>1 DEF TableOK, RowsOnce, Unrepeated, Indexed
<1> HIDE DEF f, S
<1>5. \A r \in S : f[r] \in Int  BY <1>2, <1>3
<1>6. CASE \A r \in S : f[r] = 0
  <2>1. SumFunctionOnSet(f, S) = 0  BY <1>2, <1>6, SumZero
  <2> QED  BY <2>1 DEF f, S
<1>7. ASSUME NEW q \in S, f[q] # 0 PROVE SumFunctionOnSet(f, S) <= 1
  <2>1. IsFiniteSet(S \ {q}) /\ \A r \in S \ {q} : f[r] = 0  BY <1>2, <1>4, <1>7, FS_Subset
  <2>2. SumFunctionOnSet(f, S \ {q}) = 0  BY <2>1, SumZero
  <2>3. SumFunctionOnSet(f, S) = f[q] + SumFunctionOnSet(f, S \ {q})  BY <1>2, <1>5, SumTakeOne
  <2>4. f[q] \in Nat /\ f[q] <= 1  BY <1>2, <1>3
  <2> QED  BY <2>2, <2>3, <2>4
<1> QED  BY <1>6, <1>7 DEF f, S

(* Where a tick reads the queue while nobody sends and no answer is lost,   *)
(* the email of a key goes out once, through retries and crashes: a row     *)
(* that is taken is taken by one worker, and the index does the rest.       *)
THEOREM SentOnce ==
  ASSUME MailsNumbered
  PROVE  E!Spec /\ []QueueReadAlone /\ [][AnswersArrive]_E!vars => []DeliveredOnce
<1>1. E!Init => MailInv  BY MailInit
<1>2. MailInv /\ QueueReadAlone /\ [E!Next]_E!vars /\ [AnswersArrive]_E!vars => MailInv'  BY MailStep
<1>3. MailInv => DeliveredOnce  BY OnceOfAKey
<1> QED  BY <1>1, <1>2, <1>3, PTL DEF E!Spec

-----------------------------------------------------------------------------
(* Staff.                                                                   *)

(* Advances, leaves and employees are rows of different tables, employees   *)
(* are in an order, and amounts are not negative.                           *)
StaffRows ==
  /\ IsFiniteSet(Advances) /\ Advances \cap Employees = {} /\ Advances \cap Leaves = {}
  /\ Employees \subseteq Nat
  /\ MaxAdvance \in Nat /\ Salaries \subseteq Nat /\ Salaries # {} /\ Bonuses \subseteq Int

Absences == [status: {"none", "DRAFT", "VALIDATED"}, deduction: Int]
Pays ==
  [status: {"none"} \cup H!PayrollStatuses, advances: Int, deduction: Int, net: Int, recorded: BOOLEAN]
StaffRequests ==
  [op: H!AllEndpoints \cup {"none"}, stage: 0..3, id: H!Approved \cup Employees \cup {0},
   to: {"none"} \cup H!PayrollStatuses \cup H!Decisions, halves: 0..2, amount: Int,
   todo: SUBSET Employees, entry: [Employees -> Absences], gross: [Employees -> Int],
   advances: Int, pending: [Employees -> Pays]]

StaffTyped ==
  /\ salary \in [Employees -> Nat]
  /\ advance \in [Advances -> H!AdvanceRows]
  /\ attendance \in [Employees -> Absences]
  /\ payroll \in [Employees -> Pays]
  /\ cash \in [Advances \cup Employees -> Seq(Int)]
  /\ hReq \in [Sessions -> StaffRequests]

(* What a request names exists.                                             *)
IdOK(r) ==
  /\ r.op = "payAdvance" => r.id \in Advances /\ advance[r.id].status # "none"
  /\ r.op \in {"attend", "pay"} => r.id \in Employees
  /\ r.op = "attend" => r.to \in {"DRAFT", "VALIDATED"}
  /\ r.op = "generate" => r.to \in H!PayrollStatuses
  /\ r.op = "generate" /\ r.stage \in {2, 3} => r.todo # {}
  /\ r.op = "decide" => r.id \in H!Approved /\ r.to \in H!Decisions
  /\ r.op = "approveLeave" => r.id \in Leaves

(* An advance that is marked paid was had, and one that was had exists.     *)
HandedOut ==
  \A a \in Advances :
    /\ Had(a) => advance[a].status # "none"
    /\ advance[a].status = "PAID" => Had(a)

(* What each employee has had bounds what is deducted from him, in the      *)
(* table and in what a request is about to write.                           *)
Handed(e) == {a \in Advances : advance[a].employee = e /\ Had(a)}
Bounds == [e \in Employees |-> AmountOf(Handed(e))]
Within(r, bounds) ==
  \A e \in Employees :
    /\ r.pending[e].advances <= bounds[e]
    /\ r.op = "generate" /\ r.stage = 3 /\ e = H!Min(r.todo) => r.advances <= bounds[e]

AdvanceInv ==
  /\ StaffTyped /\ HandedOut
  /\ \A s \in Sessions : IdOK(hReq[s]) /\ Within(hReq[s], Bounds)
  /\ \A e \in Employees : payroll[e].advances <= Bounds[e]

-----------------------------------------------------------------------------
(* The operators of the libraries are the same in the instance.             *)
LEMMA AmountIs == \A S : H!AmountOf(S) = AmountOf(S)
<1>1. \A f, S : H!SumFunctionOnSet(f, S) = SumFunctionOnSet(f, S)
  BY DEF H!SumFunctionOnSet, SumFunctionOnSet, H!FoldFunctionOnSet, FoldFunctionOnSet,
         H!MapThenFoldSet, MapThenFoldSet
<1> QED  BY <1>1 DEF H!AmountOf, AmountOf

LEMMA MinIs == ASSUME NEW S, S \subseteq Nat, S # {} PROVE H!Min(S) \in S /\ H!Min(S) \in Nat
<1>1. PICK x \in S : \A y \in S : x <= y  BY LeastNumber
<1> QED  BY <1>1 DEF H!Min

LEMMA MaxIs == ASSUME NEW i \in Int PROVE H!Max({i, 0}) \in Int
<1>1. \E x \in {i, 0} : \A y \in {i, 0} : x >= y  OBVIOUS
<1> QED  BY <1>1 DEF H!Max

(* What advances add up to.                                                 *)
LEMMA AmountNat ==
  ASSUME StaffRows, StaffTyped
  PROVE  /\ \A S \in SUBSET Advances : AmountOf(S) \in Nat
         /\ \A S \in SUBSET Advances : \A R \in SUBSET S : AmountOf(R) <= AmountOf(S)
<1> DEFINE f == [a \in Advances |-> advance[a].amount]
<1>1. \A a \in Advances : f[a] \in Nat  BY DEF StaffRows, StaffTyped, H!AdvanceRows
<1>2. \A S \in SUBSET Advances : IsFiniteSet(S)  BY FS_Subset DEF StaffRows
<1> HIDE DEF f
<1>3. ASSUME NEW S \in SUBSET Advances
      PROVE  /\ SumFunctionOnSet(f, S) \in Nat
             /\ \A R \in SUBSET S : SumFunctionOnSet(f, R) <= SumFunctionOnSet(f, S)
  <2>1. IsFiniteSet(S) /\ \A a \in S : f[a] \in Nat  BY <1>1, <1>2
  <2> QED  BY <2>1, SumNat, SumGrows
<1> QED  BY <1>3 DEF AmountOf, f

(* No advance that was had is taken back or changed.                        *)
AdvanceKept ==
  \A a \in Advances :
    /\ advance[a].status # "none" => advance'[a].status # "none"
    /\ Had(a) => Had(a)' /\ advance'[a].employee = advance[a].employee /\ advance'[a].amount = advance[a].amount

LEMMA BoundsGrow ==
  ASSUME StaffRows, StaffTyped, StaffTyped', AdvanceKept
  PROVE  \A e \in Employees : Bounds[e] \in Nat /\ Bounds'[e] \in Nat /\ Bounds[e] <= Bounds'[e]
<1> SUFFICES ASSUME NEW e \in Employees
             PROVE  AmountOf(Handed(e)) \in Nat /\ AmountOf(Handed(e))' \in Nat /\ AmountOf(Handed(e)) <= AmountOf(Handed(e))'
  BY DEF Bounds
<1> DEFINE f == [a \in Advances |-> advance[a].amount]
           g == [a \in Advances |-> advance'[a].amount]
           A == Handed(e)
           B == Handed(e)'
<1>1. A \subseteq B /\ B \subseteq Advances /\ \A a \in A : g[a] = f[a]  BY DEF AdvanceKept, Handed
<1>2. \A a \in Advances : f[a] \in Nat /\ g[a] \in Nat
  BY DEF StaffRows, StaffTyped, H!AdvanceRows
<1>3. IsFiniteSet(A) /\ IsFiniteSet(B)  BY <1>1, FS_Subset DEF StaffRows
<1>4. AmountOf(A) = SumFunctionOnSet(f, A) /\ AmountOf(Handed(e))' = SumFunctionOnSet(g, B)
  BY DEF AmountOf
<1> HIDE DEF A, B, f, g
<1>5. SumFunctionOnSet(g, A) = SumFunctionOnSet(f, A)
  <2>1. \A a \in A : f[a] \in Int /\ g[a] = f[a]  BY <1>1, <1>2
  <2> QED  BY <1>3, <2>1, SumEqual
<1>6. SumFunctionOnSet(g, A) <= SumFunctionOnSet(g, B) /\ SumFunctionOnSet(g, B) \in Nat
  <2>1. \A a \in B : g[a] \in Nat  BY <1>1, <1>2
  <2> QED  BY <1>1, <1>3, <2>1, SumGrows, SumNat
<1>7. SumFunctionOnSet(f, A) \in Nat
  <2>1. \A a \in A : f[a] \in Nat  BY <1>1, <1>2
  <2> QED  BY <1>3, <2>1, SumNat
<1> QED  BY <1>4, <1>5, <1>6, <1>7 DEF A

(* A step that keeps the advances, and lets a request go on within what was *)
(* handed out before.                                                       *)
LEMMA AdvanceStep ==
  ASSUME StaffRows, AdvanceInv, StaffTyped', AdvanceKept, HandedOut',
         \A s \in Sessions : hReq'[s] # hReq[s] => IdOK(hReq'[s]) /\ Within(hReq'[s], Bounds),
         \A e \in Employees : payroll'[e].advances <= Bounds[e]
  PROVE  AdvanceInv'
<1>1. \A e \in Employees : Bounds[e] \in Nat /\ Bounds'[e] \in Nat /\ Bounds[e] <= Bounds'[e]
  BY BoundsGrow DEF AdvanceInv
<1>2. ASSUME NEW s \in Sessions PROVE IdOK(hReq[s])' /\ Within(hReq[s], Bounds)'
  <2>1. IdOK(hReq'[s]) /\ Within(hReq'[s], Bounds)  BY DEF AdvanceInv
  <2>2. hReq'[s] \in StaffRequests  BY DEF StaffTyped
  <2>3. \A e \in Employees : hReq'[s].pending[e].advances \in Int /\ hReq'[s].advances \in Int
    BY <2>2 DEF StaffRequests, Pays
  <2>4. Within(hReq'[s], Bounds')  BY <1>1, <2>1, <2>3 DEF Within
  <2>5. IdOK(hReq[s])'  BY <2>1 DEF IdOK, AdvanceKept
  <2>6. Within(hReq[s], Bounds)'  BY <2>4 DEF Within
  <2> QED  BY <2>5, <2>6
<1>3. ASSUME NEW e \in Employees PROVE payroll'[e].advances <= Bounds'[e]
  <2>1. payroll'[e].advances \in Int  BY DEF StaffTyped, Pays
  <2> QED  BY <1>1, <2>1
<1> QED  BY <1>2, <1>3 DEF AdvanceInv

(* The advances and the payrolls stay as they are.                          *)
LEMMA NothingPaid ==
  ASSUME StaffRows, AdvanceInv, StaffTyped', UNCHANGED <<advance, cash>>,
         \A s \in Sessions : hReq'[s] # hReq[s] => IdOK(hReq'[s]) /\ Within(hReq'[s], Bounds),
         \A e \in Employees : payroll'[e].advances <= Bounds[e]
  PROVE  AdvanceInv'
<1>1. AdvanceKept  BY DEF AdvanceKept, Had
<1>2. HandedOut'  BY DEF AdvanceInv, HandedOut, Had
<1> QED  BY <1>1, <1>2, AdvanceStep

LEMMA StatementAdvances ==
  ASSUME StaffRows, AdvanceInv, NEW op, H!Statement(op)
  PROVE  AdvanceInv'
<1>0. StaffTyped /\ HandedOut /\ \A e \in Employees : payroll[e].advances <= Bounds[e]  BY DEF AdvanceInv
<1>1. ASSUME NEW e \in Employees, NEW amount \in Salaries, H!SetSalary(e, amount) PROVE AdvanceInv'
  <2>1. StaffTyped' /\ UNCHANGED <<advance, payroll, cash, hReq>>
    BY <1>0, <1>1 DEF H!SetSalary, StaffTyped, StaffRows
  <2> QED  BY <1>0, <2>1, NothingPaid
<1>2. ASSUME NEW a \in Advances, NEW e \in Employees, NEW amount \in 1..MaxAdvance, NEW approval \in BOOLEAN,
             NEW status \in H!AdvanceStatuses, H!CreateAdvance(a, e, amount, approval, status)
      PROVE  AdvanceInv'
  <2> DEFINE row == [status |-> IF approval THEN "PENDING" ELSE status, employee |-> e, amount |-> amount,
                     approval |-> approval, recorded |-> ~approval /\ status = "PAID"]
  <2>1. /\ advance[a].status = "none" /\ advance' = [advance EXCEPT ![a] = row]
        /\ UNCHANGED <<salary, attendance, payroll, cash, hReq>>
    BY <1>2 DEF H!CreateAdvance
  <2>2. row \in H!AdvanceRows /\ row.status # "none" /\ (row.status = "PAID" => row.recorded)
    <3>1. row.status \in H!AdvanceStatuses /\ row.status # "none" /\ (row.status = "PAID" => row.recorded)
      BY DEF H!AdvanceStatuses, H!Decisions
    <3>2. row.recorded \in BOOLEAN /\ row.amount \in 0..MaxAdvance /\ row.employee = e /\ row.approval = approval
      BY DEF StaffRows
    <3> QED  BY <3>1, <3>2 DEF H!AdvanceRows
  <2> HIDE DEF row
  <2>3. StaffTyped'  BY <1>0, <2>1, <2>2 DEF StaffTyped
  <2>4. AdvanceKept /\ HandedOut'  BY <1>0, <2>1, <2>2 DEF AdvanceKept, HandedOut, Had, StaffTyped
  <2> QED  BY <1>0, <2>1, <2>3, <2>4, AdvanceStep
<1>3. ASSUME NEW a \in Advances, NEW to \in H!Decisions, H!UpdateSalaryAdvanceStatus(a, to) PROVE AdvanceInv'
  <2>1. /\ advance[a].status # "none" /\ advance' = [advance EXCEPT ![a].status = to]
        /\ UNCHANGED <<salary, attendance, payroll, cash, hReq>>
    BY <1>3 DEF H!UpdateSalaryAdvanceStatus
  <2>2. to \notin {"none", "PAID"}  BY DEF H!Decisions
  <2>3. [advance[a] EXCEPT !.status = to] \in H!AdvanceRows
    BY <1>0 DEF StaffTyped, H!AdvanceRows, H!AdvanceStatuses
  <2>4. StaffTyped'  BY <1>0, <2>1, <2>3 DEF StaffTyped
  <2>5. \A x \in Advances : /\ advance'[x].status = IF x = a THEN to ELSE advance[x].status
                            /\ advance'[x].employee = advance[x].employee /\ advance'[x].amount = advance[x].amount
                            /\ advance'[x].recorded = advance[x].recorded
    BY <1>0, <2>1 DEF StaffTyped, H!AdvanceRows
  <2>6. AdvanceKept /\ HandedOut'  BY <1>0, <2>1, <2>2, <2>5 DEF AdvanceKept, HandedOut, Had
  <2> QED  BY <1>0, <2>1, <2>4, <2>6, AdvanceStep
<1>4. ASSUME NEW l, NEW approval, NEW status, H!CreateLeave(l, approval, status) PROVE AdvanceInv'
  <2>1. StaffTyped' /\ UNCHANGED <<advance, payroll, cash, hReq>>  BY <1>0, <1>4 DEF H!CreateLeave, StaffTyped
  <2> QED  BY <1>0, <2>1, NothingPaid
<1>5. ASSUME NEW l, NEW to, H!WriteLeave(l, to) PROVE AdvanceInv'
  <2>1. StaffTyped' /\ UNCHANGED <<advance, payroll, cash, hReq>>  BY <1>0, <1>5 DEF H!WriteLeave, StaffTyped
  <2> QED  BY <1>0, <2>1, NothingPaid
<1>6. ASSUME NEW x, H!CancelWorkflow(x) PROVE AdvanceInv'
  <2>1. StaffTyped' /\ UNCHANGED <<advance, payroll, cash, hReq>>  BY <1>0, <1>6 DEF H!CancelWorkflow, StaffTyped
  <2> QED  BY <1>0, <2>1, NothingPaid
<1>7. ASSUME NEW some \in SUBSET Employees, H!ValidateAttendance(some) PROVE AdvanceInv'
  <2>1. \A e \in Employees : [attendance[e] EXCEPT !.status = "VALIDATED"] \in Absences /\ attendance[e] \in Absences
    BY <1>0 DEF StaffTyped, Absences
  <2>2. attendance' \in [Employees -> Absences] /\ UNCHANGED <<salary, advance, payroll, cash, hReq>>
    BY <1>7, <2>1 DEF H!ValidateAttendance
  <2>3. StaffTyped'  BY <1>0, <2>2 DEF StaffTyped
  <2> QED  BY <1>0, <2>2, <2>3, NothingPaid
<1>8. ASSUME NEW e \in Employees, H!ValidatePayroll(e) PROVE AdvanceInv'
  <2>1. payroll' = [payroll EXCEPT ![e].status = "VALIDATED"] /\ UNCHANGED <<salary, advance, attendance, cash, hReq>>
    BY <1>8 DEF H!ValidatePayroll
  <2>2. [payroll[e] EXCEPT !.status = "VALIDATED"] \in Pays
    BY <1>0 DEF StaffTyped, Pays, H!PayrollStatuses
  <2>3. StaffTyped'  BY <1>0, <2>1, <2>2 DEF StaffTyped
  <2>4. \A x \in Employees : payroll'[x].advances = payroll[x].advances  BY <1>0, <2>1 DEF StaffTyped, Pays
  <2> QED  BY <1>0, <2>1, <2>3, <2>4, NothingPaid
<1> QED  BY <1>1, <1>2, <1>3, <1>4, <1>5, <1>6, <1>7, <1>8 DEF H!Statement

-----------------------------------------------------------------------------
(* One request goes on with the record r.                                   *)
LEMMA ContinueTo ==
  ASSUME StaffTyped, NEW s \in Sessions, NEW r \in StaffRequests, H!Continue(s, r)
  PROVE  /\ hReq' \in [Sessions -> StaffRequests] /\ hReq'[s] = r
         /\ \A t \in Sessions : hReq'[t] # hReq[t] => t = s
BY DEF H!Continue, StaffTyped

LEMMA StaffIdle ==
  ASSUME StaffRows
  PROVE  /\ H!Idle \in StaffRequests /\ H!Idle.op = "none"
         /\ \A e \in Employees : H!Idle.pending[e] = H!NoPayroll
<1>1. H!Min(Salaries) \in Int
  <2>1. Salaries \subseteq Nat /\ Salaries # {}  BY DEF StaffRows
  <2>2. H!Min(Salaries) \in Nat  BY <2>1, MinIs
  <2> QED  BY <2>2
<1>2. H!NoPayroll \in Pays  BY DEF H!NoPayroll, Pays, H!PayrollStatuses
<1>3. [e \in Employees |-> [status |-> "none", deduction |-> 0]] \in [Employees -> Absences]  BY DEF Absences
<1> QED  BY <1>1, <1>2, <1>3 DEF H!Idle, StaffRequests

LEMMA IdleWithin ==
  ASSUME StaffRows, AdvanceInv, NEW r, r.pending = H!Idle.pending, r.op = "generate" => r.stage = 0
  PROVE  Within(r, Bounds)
<1>1. \A e \in Employees : H!Idle.pending[e].advances = 0  BY StaffIdle DEF H!NoPayroll
<1>2. StaffTyped /\ \A e \in Employees : Bounds[e] \in Nat
  <2>1. \A e \in Employees : Handed(e) \in SUBSET Advances  BY DEF Handed
  <2> QED  BY <2>1, AmountNat DEF AdvanceInv, Bounds
<1> QED  BY <1>1, <1>2 DEF Within

LEMMA RequestAdvances ==
  ASSUME StaffRows, AdvanceInv, NEW s \in Sessions, H!Request(s) \/ H!Rollback(s)
  PROVE  AdvanceInv'
<1>0. StaffTyped /\ H!Idle \in StaffRequests  BY StaffIdle DEF AdvanceInv
<1>1. ASSUME NEW r \in StaffRequests, IdOK(r), r.pending = H!Idle.pending, r.op = "generate" => r.stage = 0,
             H!Begin(s, r)
      PROVE  AdvanceInv'
  <2>1. H!Continue(s, r) /\ UNCHANGED <<salary, advance, attendance, payroll, cash>>  BY <1>1 DEF H!Begin
  <2>2. StaffTyped'  BY <1>0, <2>1, ContinueTo DEF StaffTyped
  <2>3. Within(r, Bounds)  BY <1>1, IdleWithin
  <2>4. \A t \in Sessions : hReq'[t] # hReq[t] => hReq'[t] = r  BY <1>0, <2>1, ContinueTo
  <2> QED  BY <1>1, <2>1, <2>2, <2>3, <2>4, NothingPaid DEF AdvanceInv
<1>2. ASSUME NEW a \in Advances, advance[a].status # "none", H!Begin(s, [H!Idle EXCEPT !.op = "payAdvance", !.id = a])
      PROVE  AdvanceInv'
  <2> DEFINE r == [H!Idle EXCEPT !.op = "payAdvance", !.id = a]
  <2>1. r \in StaffRequests /\ r.op = "payAdvance" /\ r.id = a /\ r.pending = H!Idle.pending
    BY <1>0 DEF StaffRequests, H!AllEndpoints, H!Approved
  <2> HIDE DEF r
  <2> QED  BY <1>1, <1>2, <2>1 DEF r, IdOK
<1>3. ASSUME NEW l \in Leaves, H!Begin(s, [H!Idle EXCEPT !.op = "approveLeave", !.id = l]) PROVE AdvanceInv'
  <2> DEFINE r == [H!Idle EXCEPT !.op = "approveLeave", !.id = l]
  <2>1. r \in StaffRequests /\ r.op = "approveLeave" /\ r.id = l /\ r.pending = H!Idle.pending
    BY <1>0 DEF StaffRequests, H!AllEndpoints, H!Approved
  <2> HIDE DEF r
  <2> QED  BY <1>1, <1>3, <2>1 DEF r, IdOK
<1>4. ASSUME NEW x \in H!Approved, NEW to \in H!Decisions,
             H!Begin(s, [H!Idle EXCEPT !.op = "decide", !.id = x, !.to = to])
      PROVE  AdvanceInv'
  <2> DEFINE r == [H!Idle EXCEPT !.op = "decide", !.id = x, !.to = to]
  <2>1. r \in StaffRequests /\ r.op = "decide" /\ r.id = x /\ r.to = to /\ r.pending = H!Idle.pending
    BY <1>0 DEF StaffRequests, H!AllEndpoints
  <2> HIDE DEF r
  <2> QED  BY <1>1, <1>4, <2>1 DEF r, IdOK
<1>5. ASSUME NEW e \in Employees, NEW halves \in H!Halves, NEW to \in {"DRAFT", "VALIDATED"},
             H!Begin(s, [H!Idle EXCEPT !.op = "attend", !.id = e, !.halves = halves, !.to = to])
      PROVE  AdvanceInv'
  <2> DEFINE r == [H!Idle EXCEPT !.op = "attend", !.id = e, !.halves = halves, !.to = to]
  <2>1. r \in StaffRequests /\ r.op = "attend" /\ r.id = e /\ r.to = to /\ r.pending = H!Idle.pending
    BY <1>0 DEF StaffRequests, H!AllEndpoints, H!Halves, H!PayrollStatuses
  <2> HIDE DEF r
  <2> QED  BY <1>1, <1>5, <2>1 DEF r, IdOK
<1>6. ASSUME NEW e \in Employees \cup {0}, NEW to \in H!PayrollStatuses, NEW bonus \in Bonuses,
             H!Begin(s, [H!Idle EXCEPT !.op = "generate", !.id = e, !.to = to, !.amount = bonus])
      PROVE  AdvanceInv'
  <2> DEFINE r == [H!Idle EXCEPT !.op = "generate", !.id = e, !.to = to, !.amount = bonus]
  <2>0. bonus \in Int  BY DEF StaffRows
  <2>1. r \in StaffRequests /\ r.op = "generate" /\ r.stage = H!Idle.stage /\ r.to = to /\ r.pending = H!Idle.pending
    BY <1>0, <2>0 DEF StaffRequests, H!AllEndpoints
  <2>2. H!Idle.stage = 0  BY DEF H!Idle
  <2>3. H!Begin(s, r)  BY <1>6
  <2> HIDE DEF r
  <2>4. IdOK(r) /\ r.stage = 0  BY <2>1, <2>2 DEF IdOK
  <2> QED  BY <1>1, <2>1, <2>3, <2>4
<1>7. ASSUME NEW e \in Employees, H!Begin(s, [H!Idle EXCEPT !.op = "pay", !.id = e]) PROVE AdvanceInv'
  <2> DEFINE r == [H!Idle EXCEPT !.op = "pay", !.id = e]
  <2>1. r \in StaffRequests /\ r.op = "pay" /\ r.id = e /\ r.pending = H!Idle.pending
    BY <1>0 DEF StaffRequests, H!AllEndpoints
  <2> HIDE DEF r
  <2> QED  BY <1>1, <1>7, <2>1 DEF r, IdOK
<1>8. CASE H!Rollback(s)
  <2>1. H!Continue(s, H!Idle) /\ UNCHANGED <<salary, advance, attendance, payroll, cash>>
    BY <1>8 DEF H!Rollback, H!Finish
  <2>2. StaffTyped'  BY <1>0, <2>1, ContinueTo DEF StaffTyped
  <2>3. Within(H!Idle, Bounds) /\ IdOK(H!Idle)  BY StaffIdle, IdleWithin DEF IdOK
  <2>4. \A t \in Sessions : hReq'[t] # hReq[t] => hReq'[t] = H!Idle  BY <1>0, <2>1, ContinueTo
  <2> QED  BY <2>1, <2>2, <2>3, <2>4, NothingPaid DEF AdvanceInv
<1> QED  BY <1>2, <1>3, <1>4, <1>5, <1>6, <1>7, <1>8 DEF H!Request

(* A movement is added.                                                     *)
LEMMA PaidIsNot ==
  ASSUME NEW list \in Seq(Int), NEW n \in Int
  PROVE  Append(list, n) \in Seq(Int) /\ Append(list, n) # NoCash
<1>1. Append(list, n) \in Seq(Int) /\ Len(Append(list, n)) = Len(list) + 1  OBVIOUS
<1>2. Len(NoCash) = 0  BY DEF NoCash
<1>3. Len(list) \in Nat  OBVIOUS
<1>4. Len(Append(list, n)) # 0  BY <1>1, <1>3
<1> QED  BY <1>1, <1>2, <1>4

(* What is generated.                                                       *)
LEMMA GeneratedIs ==
  ASSUME NEW r \in StaffRequests, NEW e \in Employees, NEW row \in Pays, r.to \in H!PayrollStatuses
  PROVE  /\ H!Generated(r, e, row) \in Pays
         /\ H!Generated(r, e, row).advances = r.advances
         /\ H!Generated(r, e, row).deduction = r.entry[e].deduction
         /\ H!Generated(r, e, row).status = IF row.status \in {"VALIDATED", "PAID"} THEN row.status ELSE r.to
         /\ H!Generated(r, e, row).recorded =
              IF row.status \in {"VALIDATED", "PAID"} THEN row.recorded ELSE r.to = "PAID"
<1> DEFINE left  == r.gross[e] - r.entry[e].deduction - r.advances + r.amount
           final == row.status \in {"VALIDATED", "PAID"}
           g == [status    |-> IF final THEN row.status ELSE r.to,
                 advances  |-> r.advances,
                 deduction |-> r.entry[e].deduction,
                 net       |-> H!Max({left, 0}),
                 recorded  |-> IF final THEN row.recorded ELSE r.to = "PAID"]
<1>1. r.entry[e] \in Absences /\ r.gross[e] \in Int /\ r.advances \in Int /\ r.amount \in Int  BY DEF StaffRequests
<1>2. left \in Int /\ r.entry[e].deduction \in Int  BY <1>1 DEF Absences
<1>3. H!Max({left, 0}) \in Int
  <2> HIDE DEF left
  <2> QED  BY <1>2, MaxIs
<1>4. H!Generated(r, e, row) = g  BY DEF H!Generated
<1> HIDE DEF left
<1>5. g \in Pays  BY <1>1, <1>2, <1>3 DEF Pays
<1> QED  BY <1>4, <1>5

(* A request that reads, and goes on with the record r.                     *)
LEMMA ReadsOn ==
  ASSUME StaffRows, AdvanceInv, NEW s \in Sessions, NEW r \in StaffRequests, H!Continue(s, r),
         UNCHANGED <<salary, advance, attendance, payroll, cash>>, IdOK(r), Within(r, Bounds)
  PROVE  AdvanceInv'
<1>1. StaffTyped'  BY ContinueTo DEF AdvanceInv, StaffTyped
<1>2. \A t \in Sessions : hReq'[t] # hReq[t] => hReq'[t] = r  BY ContinueTo DEF AdvanceInv
<1> QED  BY <1>1, <1>2, NothingPaid DEF AdvanceInv

(* What a session was doing.                                                *)
LEMMA Doing ==
  ASSUME AdvanceInv, NEW s \in Sessions
  PROVE  /\ StaffTyped /\ hReq[s] \in StaffRequests /\ IdOK(hReq[s]) /\ Within(hReq[s], Bounds)
         /\ \A e \in Employees : hReq[s].pending[e] \in Pays /\ hReq[s].entry[e] \in Absences
         /\ hReq[s].amount \in Int /\ hReq[s].advances \in Int
BY DEF AdvanceInv, StaffTyped, StaffRequests

(* The records a request goes on with.                                      *)
Same(r, q) == r.op = q.op /\ r.id = q.id /\ r.to = q.to /\ r.pending = q.pending
Priced(q, amount)   == [q EXCEPT !.stage = 1, !.amount = amount]
Opened(q, todo, entry, gross) ==
  [q EXCEPT !.stage = 1, !.todo = todo, !.entry = entry, !.gross = gross]
Totalled(q, total)  == [q EXCEPT !.stage = 3, !.advances = total]
Computed(q, todo, pend) == [q EXCEPT !.stage = 1, !.todo = todo, !.pending = pend]

With(q, stage, amount, todo, entry, gross, advances, pending) ==
  [op |-> q.op, stage |-> stage, id |-> q.id, to |-> q.to, halves |-> q.halves, amount |-> amount,
   todo |-> todo, entry |-> entry, gross |-> gross, advances |-> advances, pending |-> pending]
LEMMA WithTyped ==
  ASSUME NEW q \in StaffRequests, NEW stage \in 0..3, NEW amount \in Int, NEW todo \in SUBSET Employees,
         NEW entry \in [Employees -> Absences], NEW gross \in [Employees -> Int], NEW advances \in Int,
         NEW pending \in [Employees -> Pays]
  PROVE  With(q, stage, amount, todo, entry, gross, advances, pending) \in StaffRequests
BY DEF StaffRequests, With

LEMMA Fields ==
  ASSUME NEW q \in StaffRequests
  PROVE  /\ q.stage \in 0..3 /\ q.amount \in Int /\ q.todo \in SUBSET Employees
         /\ q.entry \in [Employees -> Absences] /\ q.gross \in [Employees -> Int] /\ q.advances \in Int
         /\ q.pending \in [Employees -> Pays]
BY DEF StaffRequests

LEMMA WithAmount ==
  ASSUME NEW q \in StaffRequests, NEW amount \in Int, NEW r, r = Priced(q, amount)
  PROVE  r \in StaffRequests /\ Same(r, q) /\ r.stage = 1 /\ r.amount = amount
<1>1. r = With(q, 1, amount, q.todo, q.entry, q.gross, q.advances, q.pending)
  BY DEF StaffRequests, With, Priced
<1>2. r \in StaffRequests
  <2>1. 1 \in 0..3  OBVIOUS
  <2> QED  BY <1>1, <2>1, Fields, WithTyped
<1> QED  BY <1>1, <1>2 DEF With, Same

LEMMA WithEntries ==
  ASSUME NEW q \in StaffRequests, NEW todo \in SUBSET Employees, NEW entry \in [Employees -> Absences],
         NEW gross \in [Employees -> Int], NEW r, r = Opened(q, todo, entry, gross)
  PROVE  r \in StaffRequests /\ Same(r, q) /\ r.stage = 1 /\ r.todo = todo /\ r.entry = entry
<1>1. r = With(q, 1, q.amount, todo, entry, gross, q.advances, q.pending)
  BY DEF StaffRequests, With, Opened
<1>2. r \in StaffRequests
  <2>1. 1 \in 0..3  OBVIOUS
  <2> QED  BY <1>1, <2>1, Fields, WithTyped
<1> QED  BY <1>1, <1>2 DEF With, Same

LEMMA WithAdvances ==
  ASSUME NEW q \in StaffRequests, NEW total \in Int, NEW r, r = Totalled(q, total)
  PROVE  /\ r \in StaffRequests /\ Same(r, q) /\ r.stage = 3 /\ r.todo = q.todo /\ r.entry = q.entry
         /\ r.advances = total
<1>1. r = With(q, 3, q.amount, q.todo, q.entry, q.gross, total, q.pending)
  BY DEF StaffRequests, With, Totalled
<1>2. r \in StaffRequests
  <2>1. 3 \in 0..3  OBVIOUS
  <2> QED  BY <1>1, <2>1, Fields, WithTyped
<1> QED  BY <1>1, <1>2 DEF With, Same

LEMMA WithPending ==
  ASSUME NEW q \in StaffRequests, NEW todo \in SUBSET Employees, NEW pend \in [Employees -> Pays],
         NEW r, r = Computed(q, todo, pend)
  PROVE  /\ r \in StaffRequests /\ r.op = q.op /\ r.id = q.id /\ r.to = q.to /\ r.pending = pend
         /\ r.stage = 1 /\ r.todo = todo /\ r.entry = q.entry
<1>1. r = With(q, 1, q.amount, todo, q.entry, q.gross, q.advances, pend)
  BY DEF StaffRequests, With, Computed
<1>2. r \in StaffRequests
  <2>1. 1 \in 0..3  OBVIOUS
  <2> QED  BY <1>1, <2>1, Fields, WithTyped
<1> QED  BY <1>1, <1>2 DEF With

LEMMA StepAdvances ==
  ASSUME StaffRows, AdvanceInv, NEW s \in Sessions, H!Step(s)
  PROVE  AdvanceInv'
<1> DEFINE q == hReq[s]
<1>0. /\ StaffTyped /\ q \in StaffRequests /\ IdOK(q) /\ Within(q, Bounds)
      /\ \A e \in Employees : q.pending[e] \in Pays /\ q.entry[e] \in Absences
      /\ q.amount \in Int /\ q.advances \in Int
  BY Doing
<1>q. q \in StaffRequests  BY <1>0
<1>i. H!Idle \in StaffRequests /\ IdOK(H!Idle) /\ Within(H!Idle, Bounds)
  BY StaffIdle, IdleWithin DEF IdOK
<1> HIDE DEF q
<1>r. ASSUME NEW r \in StaffRequests, r.op = q.op, r.id = q.id, r.to = q.to, r.pending = q.pending,
             q.op # "generate",
             H!Continue(s, r), UNCHANGED <<salary, advance, attendance, payroll, cash>>
      PROVE  AdvanceInv'
  <2>1. IdOK(r) /\ Within(r, Bounds)  BY <1>0, <1>r DEF IdOK, Within
  <2> QED  BY <1>r, <2>1, ReadsOn
<1>s. ASSUME NEW stage \in 0..3, q.op # "generate", H!Continue(s, [q EXCEPT !.stage = stage]),
             UNCHANGED <<salary, advance, attendance, payroll, cash>>
      PROVE  AdvanceInv'
  <2> DEFINE r == [q EXCEPT !.stage = stage]
  <2>1. r \in StaffRequests /\ r.op = q.op /\ r.id = q.id /\ r.to = q.to /\ r.pending = q.pending  BY <1>0 DEF StaffRequests
  <2>2. H!Continue(s, r)  BY <1>s
  <2> HIDE DEF r
  <2> QED  BY <1>r, <1>s, <2>1, <2>2
<1>1. CASE H!ReadAdvance(s)
  <2>1. q.op = "payAdvance" /\ q.id \in Advances  BY <1>0, <1>1 DEF H!ReadAdvance, H!At, q, IdOK
  <2>2. advance[q.id].amount \in Int  BY <1>0, <2>1 DEF StaffTyped, H!AdvanceRows
  <2> DEFINE amount == advance[q.id].amount
             r == [q EXCEPT !.stage = 1, !.amount = amount]
  <2>3. H!Continue(s, r) /\ UNCHANGED <<salary, advance, attendance, payroll, cash>>
    BY <1>1 DEF H!ReadAdvance, q
  <2> HIDE DEF amount, r
  <2>4. r \in StaffRequests /\ Same(r, q)
    <3>1. amount \in Int /\ r = Priced(q, amount)  BY <2>2 DEF amount, r, Priced, Priced
    <3> QED  BY <1>0, <3>1, WithAmount
  <2> QED  BY <1>r, <2>1, <2>3, <2>4 DEF Same
<1>2. CASE H!CheckAdvance(s)
  BY <1>2, <1>s DEF H!CheckAdvance, H!At, q
<1>3. CASE H!PayAdvance(s)
  <2>1. q.op = "payAdvance" /\ q.id \in Advances /\ advance[q.id].status # "none"
    BY <1>0, <1>3 DEF H!PayAdvance, H!At, q, IdOK
  <2>2. /\ advance' = [advance EXCEPT ![q.id].status = "PAID"]
        /\ cash' = [cash EXCEPT ![q.id] = Append(@, q.amount)]
        /\ H!Continue(s, H!Idle) /\ UNCHANGED <<salary, attendance, payroll>>
    BY <1>3 DEF H!PayAdvance, H!PaysOut, H!Finish, q
  <2>3. [advance[q.id] EXCEPT !.status = "PAID"] \in H!AdvanceRows
    BY <1>0, <2>1 DEF StaffTyped, H!AdvanceRows, H!AdvanceStatuses
  <2>4. cash[q.id] \in Seq(Int) /\ Append(cash[q.id], q.amount) \in Seq(Int)
        /\ Append(cash[q.id], q.amount) # NoCash
    <3>1. cash[q.id] \in Seq(Int)  BY <1>0, <2>1 DEF StaffTyped
    <3> QED  BY <1>0, <3>1, PaidIsNot
  <2>5. StaffTyped'  BY <1>0, <1>i, <2>1, <2>2, <2>3, <2>4, ContinueTo DEF StaffTyped
  <2>6. \A x \in Advances :
          /\ advance'[x].status = IF x = q.id THEN "PAID" ELSE advance[x].status
          /\ advance'[x].employee = advance[x].employee /\ advance'[x].amount = advance[x].amount
          /\ advance'[x].recorded = advance[x].recorded
          /\ cash'[x] = IF x = q.id THEN Append(cash[x], q.amount) ELSE cash[x]
    BY <1>0, <2>1, <2>2 DEF StaffTyped, H!AdvanceRows
  <2>7. \A x \in Advances :
          /\ cash[x] # NoCash => cash'[x] # NoCash
          /\ cash'[x] # NoCash => x = q.id \/ cash[x] # NoCash
          /\ x = q.id => cash'[x] # NoCash
    BY <2>4, <2>6
  <2>8. AdvanceKept  BY <2>6, <2>7 DEF AdvanceKept, Had
  <2>9. HandedOut'  BY <2>1, <2>6, <2>7 DEF HandedOut, Had, AdvanceInv
  <2>10. \A t \in Sessions : hReq'[t] # hReq[t] => hReq'[t] = H!Idle  BY <1>0, <1>i, <2>2, ContinueTo
  <2> QED  BY <1>i, <2>2, <2>5, <2>8, <2>9, <2>10, AdvanceStep DEF AdvanceInv
<1>4. CASE H!CheckLeave(s)
  BY <1>4, <1>s DEF H!CheckLeave, H!At, q
<1>5. CASE H!ApproveLeave(s)
  BY <1>5, <1>i, ReadsOn DEF H!ApproveLeave, H!Finish
<1>6. CASE H!ReadStep(s)
  BY <1>6, <1>s DEF H!ReadStep, H!At, q
<1>7. CASE H!Decide(s)
  BY <1>7, <1>i, ReadsOn DEF H!Decide, H!Finish
<1>8. CASE H!ReadAttendance(s)
  <2>1. q.op = "attend" /\ q.id \in Employees /\ q.halves \in 0..2
    BY <1>0, <1>8 DEF H!ReadAttendance, H!At, q, IdOK, StaffRequests
  <2>2. salary[q.id] \in Nat /\ salary[q.id] * q.halves \in Nat
    <3>1. salary[q.id] \in Nat  BY <1>0, <2>1 DEF StaffTyped
    <3> QED  BY <2>1, <3>1
  <2>3. (salary[q.id] * q.halves) \div 2 \in Int  BY <2>2
  <2> DEFINE amount == (salary[q.id] * q.halves) \div 2
             r == [q EXCEPT !.stage = 1, !.amount = amount]
  <2>4. H!Continue(s, r) /\ UNCHANGED <<salary, advance, attendance, payroll, cash>>
    BY <1>8 DEF H!ReadAttendance, q
  <2> HIDE DEF amount, r
  <2>5. r \in StaffRequests /\ Same(r, q)
    <3>1. amount \in Int /\ r = Priced(q, amount)  BY <2>3 DEF amount, r, Priced, Priced
    <3> QED  BY <1>0, <3>1, WithAmount
  <2> QED  BY <1>r, <2>1, <2>4, <2>5 DEF Same
<1>9. CASE H!WriteAttendance(s)
  <2> DEFINE row == [status |-> IF attendance[q.id].status = "VALIDATED" THEN attendance[q.id].status ELSE q.to,
                     deduction |-> q.amount]
  <2>1. q.op = "attend" /\ q.id \in Employees  BY <1>0, <1>9 DEF H!WriteAttendance, H!At, q, IdOK
  <2>2. /\ attendance' = [attendance EXCEPT ![q.id] = row]
        /\ H!Continue(s, H!Idle) /\ UNCHANGED <<salary, advance, payroll, cash>>
    BY <1>9 DEF H!WriteAttendance, H!Finish, q
  <2>i. q.to \in {"DRAFT", "VALIDATED"}  BY <1>0, <2>1 DEF IdOK
  <2>3. row \in Absences
    <3>1. row.status \in {"none", "DRAFT", "VALIDATED"}
      BY <2>i
    <3> QED  BY <1>0, <3>1 DEF Absences
  <2> HIDE DEF row
  <2>4. StaffTyped'  BY <1>0, <1>i, <2>2, <2>3, ContinueTo DEF StaffTyped
  <2>5. \A t \in Sessions : hReq'[t] # hReq[t] => hReq'[t] = H!Idle  BY <1>0, <1>i, <2>2, ContinueTo
  <2> QED  BY <1>i, <2>2, <2>4, <2>5, NothingPaid DEF AdvanceInv
<1>10. CASE H!ReadEntries(s)
  <2> DEFINE valid == {e \in Employees : attendance[e].status = "VALIDATED" /\ q.id \in {0, e}}
             r == [q EXCEPT !.stage = 1, !.todo = valid, !.entry = attendance, !.gross = salary]
  <2>1. H!Continue(s, r) /\ UNCHANGED <<salary, advance, attendance, payroll, cash>>
    BY <1>10 DEF H!ReadEntries, q
  <2>2. salary \in [Employees -> Int] /\ attendance \in [Employees -> Absences] /\ valid \in SUBSET Employees
    BY <1>0 DEF StaffTyped
  <2> HIDE DEF valid
  <2>r. r = Opened(q, valid, attendance, salary)  BY DEF Opened
  <2> HIDE DEF r
  <2>3. r \in StaffRequests /\ Same(r, q) /\ r.stage = 1  BY <1>q, <2>2, <2>r, WithEntries
  <2>4. IdOK(r) /\ Within(r, Bounds)  BY <1>0, <2>1, <2>3 DEF IdOK, Within, Same
  <2> QED  BY <2>1, <2>3, <2>4, ReadsOn
<1>11. CASE H!ReadPayroll(s)
  <2> DEFINE r1 == [q EXCEPT !.todo = @ \ {H!Entry(s)}]
             r2 == [q EXCEPT !.stage = 2]
  <2>1. /\ H!Continue(s, r1) \/ H!Continue(s, r2)
        /\ UNCHANGED <<salary, advance, attendance, payroll, cash>>
        /\ q.op = "generate" /\ q.stage = 1 /\ q.todo # {}
    BY <1>11 DEF H!ReadPayroll, H!At, q
  <2>2. r1 \in StaffRequests /\ r1.op = q.op /\ r1.id = q.id /\ r1.to = q.to /\ r1.pending = q.pending /\ r1.stage = 1
    BY <1>0, <2>1 DEF StaffRequests
  <2>3. r2 \in StaffRequests /\ r2.op = q.op /\ r2.id = q.id /\ r2.to = q.to /\ r2.pending = q.pending /\ r2.stage = 2 /\ r2.todo = q.todo
    BY <1>0, <2>1 DEF StaffRequests
  <2> HIDE DEF r1, r2
  <2>4. IdOK(r1) /\ Within(r1, Bounds) /\ IdOK(r2) /\ Within(r2, Bounds)
    BY <1>0, <2>1, <2>2, <2>3 DEF IdOK, Within
  <2> QED  BY <2>1, <2>2, <2>3, <2>4, ReadsOn
<1>12. CASE H!ReadAdvances(s)
  <2> DEFINE total == H!AdvanceTotal(H!Min(q.todo))
             r == [q EXCEPT !.stage = 3, !.advances = total]
  <2>1. H!Continue(s, r) /\ UNCHANGED <<salary, advance, attendance, payroll, cash>>
        /\ q.op = "generate" /\ q.stage = 2
    BY <1>12 DEF H!ReadAdvances, H!Entry, H!At, q
  <2>2. total \in Int /\ \A e \in Employees : e = H!Min(q.todo) => total <= Bounds[e]
    <3> DEFINE paid(e) == {a \in Advances : advance[a].employee = e /\ advance[a].status = "PAID"}
    <3>1. \A e : H!AdvanceTotal(e) = AmountOf(paid(e))  BY AmountIs DEF H!AdvanceTotal
    <3>2. \A e : paid(e) \in SUBSET Handed(e) /\ Handed(e) \in SUBSET Advances
      BY DEF Handed, AdvanceInv, HandedOut
    <3>3. \A e : paid(e) \in SUBSET Advances  OBVIOUS
    <3> HIDE DEF paid
    <3>4. \A e : AmountOf(paid(e)) \in Nat /\ AmountOf(paid(e)) <= AmountOf(Handed(e))
      BY <1>0, <3>2, <3>3, AmountNat
    <3>5. total \in Int  BY <3>1, <3>4
    <3>6. \A e \in Employees : e = H!Min(q.todo) => total <= Bounds[e]
      <4> SUFFICES ASSUME NEW e \in Employees, e = H!Min(q.todo) PROVE total <= Bounds[e]  OBVIOUS
      <4>1. total = AmountOf(paid(e)) /\ Bounds[e] = AmountOf(Handed(e))  BY <3>1 DEF Bounds
      <4> QED  BY <3>4, <4>1
    <3> QED  BY <3>5, <3>6
  <2> HIDE DEF total
  <2>r. r = Totalled(q, total)  BY DEF Totalled
  <2>t. total \in Int  BY <2>2
  <2> HIDE DEF r
  <2>3. r \in StaffRequests /\ Same(r, q) /\ r.advances = total /\ r.todo = q.todo
    BY <1>q, <2>t, <2>r, WithAdvances
  <2>4. IdOK(r) /\ Within(r, Bounds)  BY <1>0, <2>1, <2>2, <2>3 DEF IdOK, Within, Same
  <2> QED  BY <2>1, <2>3, <2>4, ReadsOn
<1>13. CASE H!WritePayroll(s)
  <2> DEFINE e == H!Min(q.todo)
             row == H!Generated(q, e, payroll[e])
             pend == [q.pending EXCEPT ![e] = row]
             r == [q EXCEPT !.stage = 1, !.todo = @ \ {e}, !.pending[e] = row]
  <2>1. /\ H!Continue(s, r) /\ UNCHANGED <<salary, advance, attendance, payroll, cash>>
        /\ q.op = "generate" /\ q.stage = 3
    BY <1>13 DEF H!WritePayroll, H!Entry, H!At, q
  <2>2. e \in Employees /\ q.to \in H!PayrollStatuses
    <3>1. q.todo # {} /\ q.todo \subseteq Nat /\ q.todo \subseteq Employees
      BY <1>0, <2>1 DEF IdOK, StaffRequests, StaffRows
    <3> HIDE DEF q
    <3> QED  BY <1>0, <2>1, <3>1, MinIs DEF IdOK
  <2>3. row \in Pays /\ row.advances = q.advances /\ q.advances <= Bounds[e]
    <3>1. payroll[e] \in Pays  BY <1>0, <2>2 DEF StaffTyped
    <3> HIDE DEF e
    <3> QED  BY <1>0, <2>1, <2>2, <3>1, GeneratedIs DEF Within, e
  <2> HIDE DEF e, row
  <2>4. pend \in [Employees -> Pays] /\ \A k \in Employees : pend[k] = IF k = e THEN row ELSE q.pending[k]
    BY <1>0, <2>2, <2>3 DEF StaffRequests
  <2>p. pend \in [Employees -> Pays]  BY <2>4
  <2>5. r = [q EXCEPT !.stage = 1, !.todo = q.todo \ {e}, !.pending = pend]
    BY <1>0 DEF StaffRequests
  <2> HIDE DEF pend, r
  <2>6. r \in StaffRequests /\ r.op = q.op /\ r.id = q.id /\ r.to = q.to /\ r.pending = pend /\ r.stage = 1
    <3> DEFINE rest == q.todo \ {e}
    <3>1. rest \in SUBSET Employees  BY <1>0, Fields
    <3>2. r = Computed(q, rest, pend)  BY <2>5 DEF Computed
    <3> HIDE DEF rest
    <3> QED  BY <1>q, <2>p, <3>1, <3>2, WithPending
  <2>7. IdOK(r) /\ Within(r, Bounds)
    <3>1. IdOK(r)  BY <1>0, <2>6 DEF IdOK
    <3> QED  BY <1>0, <2>3, <2>4, <2>6, <3>1 DEF Within
  <2> QED  BY <2>1, <2>6, <2>7, ReadsOn
<1>14. CASE H!CommitPayrolls(s)
  <2>1. /\ payroll' = [e \in Employees |-> IF q.pending[e] = H!NoPayroll THEN payroll[e] ELSE q.pending[e]]
        /\ H!Continue(s, H!Idle) /\ UNCHANGED <<salary, advance, attendance, cash>>
    BY <1>14 DEF H!CommitPayrolls, H!Finish, q
  <2>2. payroll' \in [Employees -> Pays]  BY <1>0, <2>1 DEF StaffTyped
  <2>3. StaffTyped'  BY <1>0, <1>i, <2>1, <2>2, ContinueTo DEF StaffTyped
  <2>4. \A e \in Employees : payroll'[e].advances <= Bounds[e]
    <3>1. \A e \in Employees : q.pending[e].advances <= Bounds[e] /\ payroll[e].advances <= Bounds[e]
      BY <1>0 DEF Within, AdvanceInv
    <3> QED  BY <2>1, <3>1
  <2>5. \A t \in Sessions : hReq'[t] # hReq[t] => hReq'[t] = H!Idle  BY <1>0, <1>i, <2>1, ContinueTo
  <2> QED  BY <1>i, <2>1, <2>3, <2>4, <2>5, NothingPaid
<1>15. CASE H!ReadForPayment(s)
  <2>1. q.op = "pay" /\ q.id \in Employees  BY <1>0, <1>15 DEF H!ReadForPayment, H!At, q, IdOK
  <2>2. payroll[q.id].net \in Int  BY <1>0, <2>1 DEF StaffTyped, Pays
  <2> DEFINE amount == payroll[q.id].net
             r == [q EXCEPT !.stage = 1, !.amount = amount]
  <2>3. H!Continue(s, r) /\ UNCHANGED <<salary, advance, attendance, payroll, cash>>
    BY <1>15 DEF H!ReadForPayment, q
  <2> HIDE DEF amount, r
  <2>4. r \in StaffRequests /\ Same(r, q)
    <3>1. amount \in Int /\ r = Priced(q, amount)  BY <2>2 DEF amount, r, Priced, Priced
    <3> QED  BY <1>0, <3>1, WithAmount
  <2> QED  BY <1>r, <2>1, <2>3, <2>4 DEF Same
<1>16. CASE H!PayPayroll(s)
  <2>1. q.op = "pay" /\ q.id \in Employees /\ q.id \notin Advances
    BY <1>0, <1>16 DEF H!PayPayroll, H!At, q, IdOK, StaffRows
  <2>2. /\ payroll' = [payroll EXCEPT ![q.id].status = "PAID"]
        /\ cash' = [cash EXCEPT ![q.id] = Append(@, q.amount)]
        /\ H!Continue(s, H!Idle) /\ UNCHANGED <<salary, advance, attendance>>
    BY <1>16 DEF H!PayPayroll, H!PaysOut, H!Finish, q
  <2>3. [payroll[q.id] EXCEPT !.status = "PAID"] \in Pays
    <3>1. payroll[q.id] \in Pays  BY <1>0, <2>1 DEF StaffTyped
    <3> QED  BY <3>1 DEF Pays, H!PayrollStatuses
  <2>4. cash[q.id] \in Seq(Int) /\ Append(cash[q.id], q.amount) \in Seq(Int)  BY <1>0, <2>1 DEF StaffTyped
  <2>5. StaffTyped'  BY <1>0, <1>i, <2>1, <2>2, <2>3, <2>4, ContinueTo DEF StaffTyped
  <2>6. \A x \in Advances : cash'[x] = cash[x]  BY <1>0, <2>1, <2>2 DEF StaffTyped
  <2>7. \A e \in Employees : payroll'[e].advances = payroll[e].advances  BY <1>0, <2>2 DEF StaffTyped, Pays
  <2>8. AdvanceKept /\ HandedOut'  BY <2>2, <2>6 DEF AdvanceKept, HandedOut, Had, AdvanceInv
  <2>9. \A t \in Sessions : hReq'[t] # hReq[t] => hReq'[t] = H!Idle  BY <1>0, <1>i, <2>2, ContinueTo
  <2> QED  BY <1>i, <2>5, <2>7, <2>8, <2>9, AdvanceStep DEF AdvanceInv
<1> QED
  BY <1>1, <1>2, <1>3, <1>4, <1>5, <1>6, <1>7, <1>8, <1>9, <1>10, <1>11, <1>12, <1>13, <1>14, <1>15, <1>16
  DEF H!Step

LEMMA AdvanceInit == ASSUME StaffRows PROVE H!Init => AdvanceInv
<1> SUFFICES ASSUME H!Init PROVE AdvanceInv  OBVIOUS
<1>1. advance = [a \in Advances |->
         [status |-> "none", employee |-> 0, amount |-> 0, approval |-> FALSE, recorded |-> FALSE]]
      /\ cash = [x \in Advances \cup Employees |-> NoCash]
  BY DEF H!Init, H!NoCash, NoCash
<1>2. [status |-> "none", employee |-> 0, amount |-> 0, approval |-> FALSE, recorded |-> FALSE] \in H!AdvanceRows
  BY DEF H!AdvanceRows, StaffRows
<1>3. advance \in [Advances -> H!AdvanceRows] /\ cash \in [Advances \cup Employees -> Seq(Int)]
  <2>1. NoCash \in Seq(Int)  BY DEF NoCash
  <2> QED  BY <1>1, <1>2, <2>1
<1>4. salary \in [Employees -> Nat] /\ attendance \in [Employees -> Absences]
  <2>1. [status |-> "none", deduction |-> 0] \in Absences  BY DEF Absences
  <2> QED  BY <2>1 DEF H!Init, StaffRows
<1>5. payroll = [e \in Employees |-> H!NoPayroll] /\ hReq = [s \in Sessions |-> H!Idle]  BY DEF H!Init
<1>6. H!NoPayroll \in Pays /\ H!NoPayroll.advances = 0  BY DEF H!NoPayroll, Pays, H!PayrollStatuses
<1>7. StaffTyped  BY <1>3, <1>4, <1>5, <1>6, StaffIdle DEF StaffTyped
<1>8. HandedOut  BY <1>1 DEF HandedOut, Had
<1>9. \A e \in Employees : Bounds[e] \in Nat
  <2>1. \A e \in Employees : Handed(e) \in SUBSET Advances  BY DEF Handed
  <2> QED  BY <1>7, <2>1, AmountNat DEF Bounds
<1>10. Within(H!Idle, Bounds) /\ IdOK(H!Idle)
  <2>1. Within(H!Idle, Bounds)  BY <1>6, <1>9, StaffIdle DEF Within
  <2> QED  BY <2>1, StaffIdle DEF IdOK
<1> QED  BY <1>5, <1>6, <1>7, <1>8, <1>9, <1>10 DEF AdvanceInv

LEMMA AdvanceNext == ASSUME StaffRows PROVE AdvanceInv /\ [H!Next]_H!vars => AdvanceInv'
<1> SUFFICES ASSUME AdvanceInv, [H!Next]_H!vars PROVE AdvanceInv'  OBVIOUS
<1>1. CASE UNCHANGED H!vars
  <2>1. StaffTyped'  BY <1>1 DEF H!vars, AdvanceInv, StaffTyped
  <2> QED  BY <1>1, <2>1, NothingPaid DEF H!vars, AdvanceInv
<1>2. CASE H!Next  BY <1>2, StatementAdvances, RequestAdvances, StepAdvances DEF H!Next
<1> QED  BY <1>1, <1>2

LEMMA AdvancesKept == ASSUME StaffRows PROVE H!Spec => []AdvanceInv
<1>1. H!Init => AdvanceInv  BY AdvanceInit
<1>2. AdvanceInv /\ [H!Next]_H!vars => AdvanceInv'  BY AdvanceNext
<1> QED  BY <1>1, <1>2, PTL DEF H!Spec

(* However payments, generations and edits interleave, no payroll deducts   *)
(* more than the advances its employee has had before: those that left the  *)
(* cash desk, and those a client posted as paid.                            *)
THEOREM AdvancesHandedOut == ASSUME StaffRows PROVE H!Spec => []DeductedWasPaid
<1>1. AdvanceInv => DeductedWasPaid  BY DEF AdvanceInv, DeductedWasPaid, Bounds, Handed
<1> QED  BY <1>1, AdvancesKept, PTL

-----------------------------------------------------------------------------
(* What a request has read stays so until it writes, and a payroll that was *)
(* paid stays paid.                                                         *)
RowsWait ==
  \A s \in Sessions : hReq'[s] = hReq[s] =>
    /\ hReq[s].op = "attend" /\ hReq[s].stage = 1 => attendance'[hReq[s].id] = attendance[hReq[s].id]
    /\ hReq[s].op = "pay" /\ hReq[s].stage = 1 => payroll'[hReq[s].id] = payroll[hReq[s].id]
    /\ hReq[s].op = "generate" /\ hReq[s].stage \in {2, 3} =>
         payroll'[H!Min(hReq[s].todo)] = payroll[H!Min(hReq[s].todo)]
PaidStays == \A e \in Employees : payroll[e].status = "PAID" => payroll'[e].status = "PAID"

(* What a request has read, and what it is about to write.                  *)
Final == {"VALIDATED", "PAID"}
PendingOK(p, absence, row) ==
  p # H!NoPayroll =>
    /\ absence.status = "VALIDATED" /\ p.deduction = absence.deduction
    /\ p.status \in H!PayrollStatuses /\ p.recorded = (p.status = "PAID") /\ row.status \notin Final
ReadOK(r, absences, rows) ==
  /\ r.op = "attend" /\ r.stage = 1 => absences[r.id].status # "VALIDATED"
  /\ r.op = "pay" /\ r.stage = 1 => rows[r.id].status \in {"VALIDATED", "DRAFT"} /\ r.amount = rows[r.id].net
  /\ r.op = "generate" /\ r.stage \in {2, 3} => rows[H!Min(r.todo)].status \notin Final
  /\ r.op = "generate" /\ r.stage # 0 =>
       \A e \in r.todo : absences[e].status = "VALIDATED" /\ r.entry[e] = absences[e]
PayOK(r, absences, rows) ==
  ReadOK(r, absences, rows) /\ \A e \in Employees : PendingOK(r.pending[e], absences[e], rows[e])

(* A payroll, the attendance it deducts, and the movement that paid it.     *)
RowOK(row, absence, movements) ==
  /\ row.status # "none" => absence.status = "VALIDATED" /\ row.deduction = absence.deduction
  /\ row.recorded => row.status = "PAID"
  /\ movements = IF row.status = "PAID" /\ ~row.recorded THEN <<row.net>> ELSE NoCash

PayInv ==
  /\ \A s \in Sessions : PayOK(hReq[s], attendance, payroll)
  /\ \A s, t \in Sessions : \A e \in Employees :
       s # t => hReq[s].pending[e] = H!NoPayroll \/ hReq[t].pending[e] = H!NoPayroll
  /\ \A e \in Employees : RowOK(payroll[e], attendance[e], cash[e])

(* What a step may do to the attendance and to the payrolls.                *)
ValidatedKept == \A e \in Employees : attendance[e].status = "VALIDATED" => attendance'[e] = attendance[e]
HeldKept ==
  \A s \in Sessions : \A e \in Employees :
    hReq[s].pending[e] # H!NoPayroll /\ hReq'[s] = hReq[s] => payroll'[e] = payroll[e]

LEMMA StaysOK ==
  ASSUME AdvanceInv, PayInv, RowsWait, ValidatedKept, HeldKept, NEW s \in Sessions, hReq'[s] = hReq[s]
  PROVE  PayOK(hReq[s], attendance', payroll')
<1> DEFINE r == hReq[s]
<1>0. r \in StaffRequests /\ IdOK(r) /\ PayOK(r, attendance, payroll) /\ r.todo \in SUBSET Employees
  BY Doing, Fields DEF PayInv
<1>1. /\ r.op = "attend" /\ r.stage = 1 => attendance'[r.id] = attendance[r.id]
      /\ r.op = "pay" /\ r.stage = 1 => payroll'[r.id] = payroll[r.id]
      /\ r.op = "generate" /\ r.stage \in {2, 3} => payroll'[H!Min(r.todo)] = payroll[H!Min(r.todo)]
  BY DEF RowsWait
<1>2. \A e \in Employees : r.pending[e] # H!NoPayroll => payroll'[e] = payroll[e]  BY DEF HeldKept
<1> HIDE DEF r
<1>3. ReadOK(r, attendance', payroll')  BY <1>0, <1>1 DEF PayOK, ReadOK, ValidatedKept
<1>4. \A e \in Employees : PendingOK(r.pending[e], attendance'[e], payroll'[e])
  BY <1>0, <1>2 DEF PayOK, PendingOK, ValidatedKept
<1> QED  BY <1>3, <1>4 DEF PayOK, r

(* Session w goes on with the record r.                                     *)
LEMMA PayStep ==
  ASSUME AdvanceInv, PayInv, RowsWait, ValidatedKept, HeldKept, NEW w \in Sessions, NEW r \in StaffRequests,
         H!Continue(w, r), PayOK(r, attendance', payroll'),
         \A e \in Employees : r.pending[e] # H!NoPayroll => hReq[w].pending[e] # H!NoPayroll \/ ~H!Held(e),
         \A e \in Employees : RowOK(payroll'[e], attendance'[e], cash'[e])
  PROVE  PayInv'
<1>1. hReq'[w] = r /\ \A t \in Sessions \ {w} : hReq'[t] = hReq[t]
  <2>1. StaffTyped  BY DEF AdvanceInv
  <2> QED  BY <2>1, ContinueTo
<1>2. ASSUME NEW s \in Sessions PROVE PayOK(hReq[s], attendance, payroll)'
  <2>1. PayOK(hReq'[s], attendance', payroll')
    <3>1. CASE s = w  BY <1>1, <3>1
    <3>2. CASE s # w  BY <1>1, <3>2, StaysOK
    <3> QED  BY <3>1, <3>2
  <2> QED  BY <2>1
<1>3. ASSUME NEW s \in Sessions, NEW t \in Sessions, NEW e \in Employees, s # t
      PROVE  hReq'[s].pending[e] = H!NoPayroll \/ hReq'[t].pending[e] = H!NoPayroll
  <2>1. \A v \in Sessions \ {w} : r.pending[e] = H!NoPayroll \/ hReq[v].pending[e] = H!NoPayroll
    BY DEF PayInv, H!Held
  <2>2. hReq[s].pending[e] = H!NoPayroll \/ hReq[t].pending[e] = H!NoPayroll  BY <1>3 DEF PayInv
  <2> QED  BY <1>1, <1>3, <2>1, <2>2
<1>4. \A e \in Employees : RowOK(payroll[e], attendance[e], cash[e])'  OBVIOUS
<1> QED  BY <1>2, <1>3, <1>4 DEF PayInv

(* No session goes on.                                                      *)
LEMMA PayStatement ==
  ASSUME AdvanceInv, PayInv, ValidatedKept, HeldKept, RowsWait, hReq' = hReq,
         \A e \in Employees : RowOK(payroll'[e], attendance'[e], cash'[e])
  PROVE  PayInv'
<1>1. ASSUME NEW s \in Sessions PROVE PayOK(hReq[s], attendance, payroll)'
  <2>1. PayOK(hReq'[s], attendance', payroll')  BY StaysOK
  <2> QED  BY <2>1
<1>2. \A e \in Employees : RowOK(payroll[e], attendance[e], cash[e])'  OBVIOUS
<1> QED  BY <1>1, <1>2 DEF PayInv

(* Nothing is entered, computed or paid.                                    *)
LEMMA RowsSame ==
  ASSUME AdvanceInv, PayInv, ValidatedKept, payroll' = payroll, \A e \in Employees : cash'[e] = cash[e]
  PROVE  HeldKept /\ \A e \in Employees : RowOK(payroll'[e], attendance'[e], cash'[e])
BY DEF HeldKept, PayInv, RowOK, ValidatedKept

LEMMA PayStatements ==
  ASSUME StaffRows, AdvanceInv, PayInv, RowsWait, PaidStays, NEW op, H!Statement(op)
  PROVE  PayInv'
<1>0. StaffTyped /\ \A e \in Employees : RowOK(payroll[e], attendance[e], cash[e])
  BY DEF AdvanceInv, PayInv
<1>1. ASSUME UNCHANGED <<attendance, payroll, cash, hReq>> PROVE PayInv'
  <2>1. ValidatedKept  BY <1>1 DEF ValidatedKept
  <2> QED  BY <1>1, <2>1, RowsSame, PayStatement
<1>2. ASSUME NEW some \in SUBSET Employees, H!ValidateAttendance(some) PROVE PayInv'
  <2>1. /\ attendance' = [e \in Employees |->
             IF e \in some THEN [attendance[e] EXCEPT !.status = "VALIDATED"] ELSE attendance[e]]
        /\ UNCHANGED <<payroll, cash, hReq>>
    BY <1>2 DEF H!ValidateAttendance
  <2>2. \A e \in Employees :
          attendance[e].status = "VALIDATED" => [attendance[e] EXCEPT !.status = "VALIDATED"] = attendance[e]
    <3>1. \A e \in Employees : attendance[e] \in Absences  BY <1>0 DEF StaffTyped
    <3> QED  BY <3>1 DEF Absences
  <2>3. ValidatedKept  BY <2>1, <2>2 DEF ValidatedKept
  <2> QED  BY <2>1, <2>3, RowsSame, PayStatement
<1>3. ASSUME NEW e \in Employees, H!ValidatePayroll(e) PROVE PayInv'
  <2>1. /\ payroll[e].status # "none" /\ ~H!Held(e)
        /\ payroll' = [payroll EXCEPT ![e].status = "VALIDATED"] /\ UNCHANGED <<attendance, cash, hReq>>
    BY <1>3 DEF H!ValidatePayroll
  <2>2. \A x \in Employees \ {e} : payroll'[x] = payroll[x]  BY <1>0, <2>1 DEF StaffTyped
  <2>3. /\ payroll'[e].status = "VALIDATED" /\ payroll'[e].deduction = payroll[e].deduction
        /\ payroll'[e].recorded = payroll[e].recorded
    BY <1>0, <2>1 DEF StaffTyped, Pays
  <2>4. payroll[e].status # "PAID"  BY <2>3 DEF PaidStays
  <2>5. ValidatedKept  BY <2>1 DEF ValidatedKept
  <2>6. HeldKept  BY <2>1, <2>2 DEF HeldKept, H!Held
  <2>7. \A x \in Employees : RowOK(payroll'[x], attendance'[x], cash'[x])
    BY <1>0, <2>1, <2>2, <2>3, <2>4 DEF RowOK
  <2> QED  BY <2>1, <2>5, <2>6, <2>7, PayStatement
<1> QED
  <2>1. ASSUME NEW e, NEW amount, H!SetSalary(e, amount) PROVE PayInv'  BY <1>1, <2>1 DEF H!SetSalary
  <2>2. ASSUME NEW a, NEW e, NEW amount, NEW approval, NEW status, H!CreateAdvance(a, e, amount, approval, status)
        PROVE  PayInv'
    BY <1>1, <2>2 DEF H!CreateAdvance
  <2>3. ASSUME NEW a, NEW to, H!UpdateSalaryAdvanceStatus(a, to) PROVE PayInv'
    BY <1>1, <2>3 DEF H!UpdateSalaryAdvanceStatus
  <2>4. ASSUME NEW l, NEW approval, NEW status, H!CreateLeave(l, approval, status) PROVE PayInv'
    BY <1>1, <2>4 DEF H!CreateLeave
  <2>5. ASSUME NEW l, NEW to, H!WriteLeave(l, to) PROVE PayInv'  BY <1>1, <2>5 DEF H!WriteLeave
  <2>6. ASSUME NEW x, H!CancelWorkflow(x) PROVE PayInv'  BY <1>1, <2>6 DEF H!CancelWorkflow
  <2> QED  BY <1>2, <1>3, <2>1, <2>2, <2>3, <2>4, <2>5, <2>6 DEF H!Statement

(* A request that begins, or ends.                                          *)
LEMMA FreshOK ==
  ASSUME StaffRows, NEW r, r.pending = H!Idle.pending, r.op # "none" => r.stage = 0, NEW absences, NEW rows
  PROVE  PayOK(r, absences, rows) /\ \A e \in Employees : r.pending[e] = H!NoPayroll
<1>1. \A e \in Employees : r.pending[e] = H!NoPayroll  BY StaffIdle
<1> QED  BY <1>1 DEF PayOK, ReadOK, PendingOK

LEMMA PayFresh ==
  ASSUME StaffRows, AdvanceInv, PayInv, RowsWait, ValidatedKept, HeldKept, NEW s \in Sessions,
         NEW r \in StaffRequests, H!Continue(s, r), r.pending = H!Idle.pending, r.op # "none" => r.stage = 0,
         \A e \in Employees : RowOK(payroll'[e], attendance'[e], cash'[e])
  PROVE  PayInv'
<1>1. PayOK(r, attendance', payroll') /\ \A e \in Employees : r.pending[e] = H!NoPayroll  BY FreshOK
<1> QED  BY <1>1, PayStep

LEMMA PayRequests ==
  ASSUME StaffRows, AdvanceInv, PayInv, RowsWait, NEW s \in Sessions, H!Request(s) \/ H!Rollback(s)
  PROVE  PayInv'
<1>0. H!Idle \in StaffRequests /\ H!Idle.stage = 0
  <2>1. H!Idle.stage = 0  BY DEF H!Idle
  <2> QED  BY <2>1, StaffIdle
<1>1. ASSUME NEW r \in StaffRequests, r.pending = H!Idle.pending, r.stage = H!Idle.stage, H!Continue(s, r),
             UNCHANGED <<attendance, payroll, cash>>
      PROVE  PayInv'
  <2>1. ValidatedKept  BY <1>1 DEF ValidatedKept
  <2>2. HeldKept /\ \A e \in Employees : RowOK(payroll'[e], attendance'[e], cash'[e])
    BY <1>1, <2>1, RowsSame
  <2> QED  BY <1>0, <1>1, <2>1, <2>2, PayFresh
<1>2. ASSUME NEW op \in H!AllEndpoints, NEW id \in H!Approved \cup Employees, 
             H!Begin(s, [H!Idle EXCEPT !.op = op, !.id = id])
      PROVE  PayInv'
  <2> DEFINE r == [H!Idle EXCEPT !.op = op, !.id = id]
  <2>1. H!Continue(s, r) /\ UNCHANGED <<attendance, payroll, cash>>  BY <1>2 DEF H!Begin
  <2>2. r \in StaffRequests /\ r.stage = H!Idle.stage /\ r.pending = H!Idle.pending
    BY <1>0 DEF StaffRequests
  <2> HIDE DEF r
  <2> QED  BY <1>1, <2>1, <2>2
<1>3. ASSUME NEW a \in Advances, H!Begin(s, [H!Idle EXCEPT !.op = "payAdvance", !.id = a]) PROVE PayInv'
  <2>1. "payAdvance" \in H!AllEndpoints /\ a \in H!Approved \cup Employees  BY DEF H!AllEndpoints, H!Approved
  <2> QED  BY <1>2, <1>3, <2>1
<1>4. ASSUME NEW l \in Leaves, H!Begin(s, [H!Idle EXCEPT !.op = "approveLeave", !.id = l]) PROVE PayInv'
  <2>1. "approveLeave" \in H!AllEndpoints /\ l \in H!Approved \cup Employees  BY DEF H!AllEndpoints, H!Approved
  <2> QED  BY <1>2, <1>4, <2>1
<1>5. ASSUME NEW e \in Employees, H!Begin(s, [H!Idle EXCEPT !.op = "pay", !.id = e]) PROVE PayInv'
  <2>1. "pay" \in H!AllEndpoints /\ e \in H!Approved \cup Employees  BY DEF H!AllEndpoints
  <2> QED  BY <1>2, <1>5, <2>1
<1>6. ASSUME NEW x \in H!Approved, NEW to \in H!Decisions,
             H!Begin(s, [H!Idle EXCEPT !.op = "decide", !.id = x, !.to = to])
      PROVE  PayInv'
  <2> DEFINE r == [H!Idle EXCEPT !.op = "decide", !.id = x, !.to = to]
  <2>1. H!Continue(s, r) /\ UNCHANGED <<attendance, payroll, cash>>  BY <1>6 DEF H!Begin
  <2>2. r \in StaffRequests /\ r.stage = H!Idle.stage /\ r.pending = H!Idle.pending
    BY <1>0 DEF StaffRequests, H!AllEndpoints
  <2> HIDE DEF r
  <2> QED  BY <1>1, <2>1, <2>2
<1>7. ASSUME NEW e \in Employees, NEW halves \in H!Halves, NEW to \in {"DRAFT", "VALIDATED"},
             H!Begin(s, [H!Idle EXCEPT !.op = "attend", !.id = e, !.halves = halves, !.to = to])
      PROVE  PayInv'
  <2> DEFINE r == [H!Idle EXCEPT !.op = "attend", !.id = e, !.halves = halves, !.to = to]
  <2>1. H!Continue(s, r) /\ UNCHANGED <<attendance, payroll, cash>>  BY <1>7 DEF H!Begin
  <2>2. r \in StaffRequests /\ r.stage = H!Idle.stage /\ r.pending = H!Idle.pending
    BY <1>0 DEF StaffRequests, H!AllEndpoints, H!Halves, H!PayrollStatuses
  <2> HIDE DEF r
  <2> QED  BY <1>1, <2>1, <2>2
<1>8. ASSUME NEW e \in Employees \cup {0}, NEW to \in H!PayrollStatuses, NEW bonus \in Bonuses,
             H!Begin(s, [H!Idle EXCEPT !.op = "generate", !.id = e, !.to = to, !.amount = bonus])
      PROVE  PayInv'
  <2> DEFINE r == [H!Idle EXCEPT !.op = "generate", !.id = e, !.to = to, !.amount = bonus]
  <2>0. bonus \in Int  BY DEF StaffRows
  <2>1. H!Continue(s, r) /\ UNCHANGED <<attendance, payroll, cash>>  BY <1>8 DEF H!Begin
  <2>2. r \in StaffRequests /\ r.stage = H!Idle.stage /\ r.pending = H!Idle.pending
    BY <1>0, <2>0 DEF StaffRequests, H!AllEndpoints
  <2> HIDE DEF r
  <2> QED  BY <1>1, <2>1, <2>2
<1>9. CASE H!Rollback(s)
  BY <1>0, <1>1, <1>9 DEF H!Rollback, H!Finish
<1> QED  BY <1>3, <1>4, <1>5, <1>6, <1>7, <1>8, <1>9 DEF H!Request

(* A request that reads, and goes on with the record r.                     *)
LEMMA PayReads ==
  ASSUME AdvanceInv, PayInv, RowsWait, NEW s \in Sessions, NEW r \in StaffRequests, H!Continue(s, r),
         UNCHANGED <<attendance, payroll, cash>>, r.pending = hReq[s].pending,
         ReadOK(r, attendance, payroll)
  PROVE  PayInv'
<1>1. ValidatedKept  BY DEF ValidatedKept
<1>2. HeldKept /\ \A e \in Employees : RowOK(payroll'[e], attendance'[e], cash'[e])  BY <1>1, RowsSame
<1>3. PayOK(r, attendance', payroll')  BY DEF PayOK, PayInv
<1> QED  BY <1>1, <1>2, <1>3, PayStep

LEMMA PaySteps ==
  ASSUME StaffRows, AdvanceInv, PayInv, RowsWait, NEW s \in Sessions, H!Step(s)
  PROVE  PayInv'
<1> DEFINE q == hReq[s]
<1>q. q \in StaffRequests /\ StaffTyped /\ IdOK(q) /\ ReadOK(q, attendance, payroll)
  BY Doing DEF PayInv, PayOK
<1>p. /\ \A e \in Employees : PendingOK(q.pending[e], attendance[e], payroll[e])
      /\ \A e \in Employees : RowOK(payroll[e], attendance[e], cash[e])
  BY DEF PayInv, PayOK
<1>f. q.amount \in Int /\ q.todo \in SUBSET Employees /\ q.pending \in [Employees -> Pays]  BY <1>q, Fields
<1>i. H!Idle \in StaffRequests /\ H!Idle.op = "none"  BY StaffIdle
<1> HIDE DEF q
<1>e. ASSUME H!Continue(s, H!Idle), ValidatedKept, HeldKept,
             \A e \in Employees : RowOK(payroll'[e], attendance'[e], cash'[e])
      PROVE  PayInv'
  BY <1>e, <1>i, PayFresh
<1>r. ASSUME NEW r \in StaffRequests, H!Continue(s, r), r.pending = q.pending, ReadOK(r, attendance, payroll),
             UNCHANGED <<attendance, payroll, cash>>
      PROVE  PayInv'
  BY <1>r, PayReads DEF q
<1>s. ASSUME q.op \in {"payAdvance", "approveLeave", "decide"}, NEW stage \in 0..3,
             H!Continue(s, [q EXCEPT !.stage = stage]), UNCHANGED <<attendance, payroll, cash>>
      PROVE  PayInv'
  <2> DEFINE r == [q EXCEPT !.stage = stage]
  <2>1. r \in StaffRequests /\ r.op = q.op /\ r.pending = q.pending  BY <1>q DEF StaffRequests
  <2>2. H!Continue(s, r)  BY <1>s
  <2> HIDE DEF r
  <2>3. ReadOK(r, attendance, payroll)  BY <1>s, <2>1 DEF ReadOK
  <2> QED  BY <1>r, <1>s, <2>1, <2>2, <2>3
<1>1. CASE H!ReadAdvance(s)
  <2> DEFINE amount == advance[q.id].amount
             r == Priced(q, amount)
  <2>1. q.op = "payAdvance" /\ H!Continue(s, r) /\ UNCHANGED <<attendance, payroll, cash>>
    BY <1>1 DEF H!ReadAdvance, H!At, q, Priced
  <2>2. amount \in Int
    <3>1. q.id \in Advances  BY <1>q, <2>1 DEF IdOK
    <3> QED  BY <1>q, <3>1 DEF StaffTyped, H!AdvanceRows
  <2> HIDE DEF amount
  <2>r. r = Priced(q, amount)  OBVIOUS
  <2> HIDE DEF r
  <2>3. r \in StaffRequests /\ Same(r, q)  BY <1>q, <2>2, <2>r, WithAmount
  <2>4. ReadOK(r, attendance, payroll)  BY <2>1, <2>3 DEF ReadOK, Same
  <2> QED  BY <1>r, <2>1, <2>3, <2>4 DEF Same
<1>2. CASE H!CheckAdvance(s)
  BY <1>2, <1>s DEF H!CheckAdvance, H!At, q
<1>3. CASE H!PayAdvance(s)
  <2>1. q.id \in Advances /\ q.id \notin Employees
    BY <1>3, <1>q DEF H!PayAdvance, H!At, q, IdOK, StaffRows
  <2>2. /\ cash' = [cash EXCEPT ![q.id] = Append(@, q.amount)]
        /\ H!Continue(s, H!Idle) /\ UNCHANGED <<attendance, payroll>>
    BY <1>3 DEF H!PayAdvance, H!PaysOut, H!Finish, q
  <2>3. \A e \in Employees : cash'[e] = cash[e]  BY <1>q, <2>1, <2>2 DEF StaffTyped
  <2>4. ValidatedKept  BY <2>2 DEF ValidatedKept
  <2> QED  BY <1>e, <2>2, <2>3, <2>4, RowsSame
<1>4. CASE H!CheckLeave(s)
  BY <1>4, <1>s DEF H!CheckLeave, H!At, q
<1>5. CASE H!ApproveLeave(s)
  <2>1. H!Continue(s, H!Idle) /\ UNCHANGED <<attendance, payroll, cash>>  BY <1>5 DEF H!ApproveLeave, H!Finish
  <2>2. ValidatedKept  BY <2>1 DEF ValidatedKept
  <2> QED  BY <1>e, <2>1, <2>2, RowsSame
<1>6. CASE H!ReadStep(s)
  BY <1>6, <1>s DEF H!ReadStep, H!At, q
<1>7. CASE H!Decide(s)
  <2>1. H!Continue(s, H!Idle) /\ UNCHANGED <<attendance, payroll, cash>>  BY <1>7 DEF H!Decide, H!Finish
  <2>2. ValidatedKept  BY <2>1 DEF ValidatedKept
  <2> QED  BY <1>e, <2>1, <2>2, RowsSame
<1>8. CASE H!ReadAttendance(s)
  <2> DEFINE amount == (salary[q.id] * q.halves) \div 2
             r == Priced(q, amount)
  <2>1. /\ q.op = "attend" /\ attendance[q.id].status # "VALIDATED"
        /\ H!Continue(s, r) /\ UNCHANGED <<attendance, payroll, cash>>
    BY <1>8 DEF H!ReadAttendance, H!Correctable, H!At, q, Priced
  <2>2. amount \in Int
    <3>1. q.id \in Employees /\ q.halves \in 0..2  BY <1>q, <2>1 DEF IdOK, StaffRequests
    <3>2. salary[q.id] \in Nat  BY <1>q, <3>1 DEF StaffTyped
    <3>3. salary[q.id] * q.halves \in Nat  BY <3>1, <3>2
    <3> QED  BY <3>3
  <2> HIDE DEF amount
  <2>r. r = Priced(q, amount)  OBVIOUS
  <2> HIDE DEF r
  <2>3. r \in StaffRequests /\ Same(r, q)  BY <1>q, <2>2, <2>r, WithAmount
  <2>4. ReadOK(r, attendance, payroll)  BY <2>1, <2>3 DEF ReadOK, Same
  <2> QED  BY <1>r, <2>1, <2>3, <2>4 DEF Same
<1>9. CASE H!WriteAttendance(s)
  <2> DEFINE row == [status |-> IF attendance[q.id].status = "VALIDATED" THEN attendance[q.id].status ELSE q.to,
                     deduction |-> q.amount]
  <2>1. q.op = "attend" /\ q.stage = 1 /\ q.id \in Employees /\ attendance[q.id].status # "VALIDATED"
    BY <1>q, <1>9 DEF H!WriteAttendance, H!At, q, IdOK, ReadOK
  <2>2. /\ attendance' = [attendance EXCEPT ![q.id] = row]
        /\ H!Continue(s, H!Idle) /\ UNCHANGED <<payroll, cash>>
    BY <1>9 DEF H!WriteAttendance, H!Finish, q
  <2> HIDE DEF row
  <2>3. ValidatedKept  BY <1>q, <2>1, <2>2 DEF ValidatedKept, StaffTyped
  <2> QED  BY <1>e, <2>2, <2>3, RowsSame
<1>10. CASE H!ReadEntries(s)
  <2> DEFINE valid == {e \in Employees : attendance[e].status = "VALIDATED" /\ q.id \in {0, e}}
             r == Opened(q, valid, attendance, salary)
  <2>1. H!Continue(s, r) /\ UNCHANGED <<attendance, payroll, cash>> /\ q.op = "generate"
    BY <1>10 DEF H!ReadEntries, H!At, q, Opened
  <2>2. salary \in [Employees -> Int] /\ attendance \in [Employees -> Absences] /\ valid \in SUBSET Employees
    BY <1>q DEF StaffTyped
  <2>3. \A e \in valid : attendance[e].status = "VALIDATED"  OBVIOUS
  <2> HIDE DEF valid
  <2>r. r = Opened(q, valid, attendance, salary)  OBVIOUS
  <2> HIDE DEF r
  <2>4. r \in StaffRequests /\ Same(r, q) /\ r.stage = 1 /\ r.todo = valid /\ r.entry = attendance
    BY <1>q, <2>2, <2>r, WithEntries
  <2>5. ReadOK(r, attendance, payroll)  BY <2>1, <2>3, <2>4 DEF ReadOK, Same
  <2> QED  BY <1>r, <2>1, <2>4, <2>5 DEF Same
<1>11. CASE H!ReadPayroll(s)
  <2> DEFINE e == H!Min(q.todo)
             r1 == [q EXCEPT !.todo = @ \ {e}]
             r2 == [q EXCEPT !.stage = 2]
  <2>1. /\ \/ H!Continue(s, r1)
           \/ H!Continue(s, r2) /\ payroll[e].status \notin Final
        /\ UNCHANGED <<attendance, payroll, cash>>
        /\ q.op = "generate" /\ q.stage = 1
    BY <1>11 DEF H!ReadPayroll, H!At, H!Entry, H!Kept, Final, q
  <2> HIDE DEF e
  <2>2. /\ r1 \in StaffRequests /\ r1.op = q.op /\ r1.stage = 1 /\ r1.pending = q.pending
        /\ r1.todo \subseteq q.todo /\ r1.entry = q.entry
    BY <1>q, <2>1 DEF StaffRequests
  <2>3. /\ r2 \in StaffRequests /\ r2.op = q.op /\ r2.stage = 2 /\ r2.pending = q.pending
        /\ r2.todo = q.todo /\ r2.entry = q.entry
    BY <1>q DEF StaffRequests
  <2> HIDE DEF r1, r2
  <2>4. \A x \in q.todo : attendance[x].status = "VALIDATED" /\ q.entry[x] = attendance[x]
    BY <1>q, <2>1 DEF ReadOK
  <2>5. ReadOK(r1, attendance, payroll)  BY <2>1, <2>2, <2>4 DEF ReadOK
  <2>6. payroll[e].status \notin Final => ReadOK(r2, attendance, payroll)
    BY <2>1, <2>3, <2>4 DEF ReadOK, e
  <2> QED  BY <1>r, <2>1, <2>2, <2>3, <2>5, <2>6
<1>12. CASE H!ReadAdvances(s)
  <2> DEFINE total == H!AdvanceTotal(H!Min(q.todo))
             r == Totalled(q, total)
  <2>1. /\ H!Continue(s, r) /\ UNCHANGED <<attendance, payroll, cash>>
        /\ q.op = "generate" /\ q.stage = 2
    BY <1>12 DEF H!ReadAdvances, H!Entry, H!At, q, Totalled
  <2>2. total \in Int
    <3> DEFINE paid == {a \in Advances : advance[a].employee = H!Min(q.todo) /\ advance[a].status = "PAID"}
    <3>1. total = AmountOf(paid)  BY AmountIs DEF H!AdvanceTotal
    <3>2. paid \in SUBSET Advances  OBVIOUS
    <3> HIDE DEF paid, total
    <3>3. AmountOf(paid) \in Nat  BY <1>q, <3>2, AmountNat
    <3> QED  BY <3>1, <3>3
  <2> HIDE DEF total
  <2>r. r = Totalled(q, total)  OBVIOUS
  <2> HIDE DEF r
  <2>3. r \in StaffRequests /\ Same(r, q) /\ r.stage = 3 /\ r.todo = q.todo /\ r.entry = q.entry
    BY <1>q, <2>2, <2>r, WithAdvances
  <2>4. ReadOK(r, attendance, payroll)  BY <1>q, <2>1, <2>3 DEF ReadOK, Same
  <2> QED  BY <1>r, <2>1, <2>3, <2>4 DEF Same
<1>13. CASE H!WritePayroll(s)
  <2> DEFINE e == H!Min(q.todo)
             row == H!Generated(q, e, payroll[e])
             pend == [q.pending EXCEPT ![e] = row]
             rest == q.todo \ {e}
             r == [q EXCEPT !.stage = 1, !.todo = @ \ {e}, !.pending[e] = row]
  <2>1. /\ H!Continue(s, r) /\ UNCHANGED <<attendance, payroll, cash>>
        /\ q.op = "generate" /\ q.stage = 3 /\ ~H!Held(e)
    BY <1>13 DEF H!WritePayroll, H!Entry, H!At, q
  <2>2. e \in q.todo /\ e \in Employees /\ q.to \in H!PayrollStatuses
    <3>1. q.todo # {} /\ q.todo \subseteq Nat /\ q.todo \subseteq Employees
      BY <1>f, <1>q, <2>1 DEF IdOK, StaffRows
    <3> QED  BY <1>q, <2>1, <3>1, MinIs DEF IdOK
  <2>3. \A x \in q.todo : attendance[x].status = "VALIDATED" /\ q.entry[x] = attendance[x]
    BY <1>q, <2>1 DEF ReadOK
  <2>4. payroll[e].status \notin Final  BY <1>q, <2>1 DEF ReadOK
  <2>5. /\ row \in Pays /\ row.deduction = q.entry[e].deduction
        /\ row.status = q.to /\ row.recorded = (q.to = "PAID")
    <3>1. payroll[e] \in Pays  BY <1>q, <2>2 DEF StaffTyped
    <3> HIDE DEF e
    <3> QED  BY <1>q, <2>2, <2>4, <3>1, GeneratedIs DEF Final
  <2>6. r = [q EXCEPT !.stage = 1, !.todo = rest, !.pending = pend]  BY <1>q DEF StaffRequests
  <2>7. rest \in SUBSET Employees /\ rest \subseteq q.todo  BY <1>f
  <2> HIDE DEF e, row, rest
  <2>8. pend \in [Employees -> Pays] /\ \A k \in Employees : pend[k] = IF k = e THEN row ELSE q.pending[k]
    BY <1>f, <2>2, <2>5
  <2>p. pend \in [Employees -> Pays]  BY <2>8
  <2> HIDE DEF pend, r
  <2>9. r = Computed(q, rest, pend)  BY <2>6 DEF Computed
  <2>10. /\ r \in StaffRequests /\ r.op = q.op /\ r.pending = pend /\ r.stage = 1 /\ r.todo = rest
         /\ r.entry = q.entry
    BY <1>q, <2>7, <2>9, <2>p, WithPending
  <2>11. ReadOK(r, attendance, payroll)  BY <2>1, <2>3, <2>7, <2>10 DEF ReadOK
  <2>12. \A k \in Employees : PendingOK(r.pending[k], attendance[k], payroll[k])
    BY <1>p, <2>2, <2>3, <2>4, <2>5, <2>8, <2>10 DEF PendingOK
  <2>13. PayOK(r, attendance', payroll')  BY <2>1, <2>11, <2>12 DEF PayOK
  <2>14. \A k \in Employees : r.pending[k] # H!NoPayroll => hReq[s].pending[k] # H!NoPayroll \/ ~H!Held(k)
    BY <2>1, <2>8, <2>10 DEF q
  <2>15. ValidatedKept  BY <2>1 DEF ValidatedKept
  <2>16. HeldKept /\ \A k \in Employees : RowOK(payroll'[k], attendance'[k], cash'[k])
    BY <2>1, <2>15, RowsSame
  <2> QED  BY <2>1, <2>10, <2>13, <2>14, <2>15, <2>16, PayStep
<1>14. CASE H!CommitPayrolls(s)
  <2>1. /\ payroll' = [e \in Employees |-> IF q.pending[e] = H!NoPayroll THEN payroll[e] ELSE q.pending[e]]
        /\ H!Continue(s, H!Idle) /\ UNCHANGED <<attendance, cash>> /\ q.op = "generate"
    BY <1>14 DEF H!CommitPayrolls, H!Finish, H!At, q
  <2>2. ValidatedKept  BY <2>1 DEF ValidatedKept
  <2>3. HeldKept
    <3> SUFFICES ASSUME NEW t \in Sessions, NEW e \in Employees, hReq[t].pending[e] # H!NoPayroll, hReq'[t] = hReq[t]
                 PROVE  payroll'[e] = payroll[e]
      BY DEF HeldKept
    <3>1. t # s
      <4>1. hReq'[s] = H!Idle  BY <1>i, <1>q, <2>1, ContinueTo
      <4> QED  BY <1>i, <2>1, <4>1 DEF q
    <3>2. q.pending[e] = H!NoPayroll  BY <3>1 DEF PayInv, q
    <3> QED  BY <2>1, <3>2
  <2>4. \A e \in Employees : RowOK(payroll'[e], attendance'[e], cash'[e])
    <3> SUFFICES ASSUME NEW e \in Employees PROVE RowOK(payroll'[e], attendance[e], cash[e])  BY <2>1
    <3>1. CASE q.pending[e] = H!NoPayroll  BY <1>p, <2>1, <3>1
    <3>2. CASE q.pending[e] # H!NoPayroll
      <4>1. payroll'[e] = q.pending[e]  BY <2>1, <3>2
      <4>2. cash[e] = NoCash  BY <1>p, <3>2 DEF PendingOK, RowOK, Final
      <4> QED  BY <1>p, <3>2, <4>1, <4>2 DEF PendingOK, RowOK
    <3> QED  BY <3>1, <3>2
  <2> QED  BY <1>e, <2>1, <2>2, <2>3, <2>4
<1>15. CASE H!ReadForPayment(s)
  <2> DEFINE amount == payroll[q.id].net
             r == Priced(q, amount)
  <2>1. /\ q.op = "pay" /\ payroll[q.id].status \in {"VALIDATED", "DRAFT"}
        /\ H!Continue(s, r) /\ UNCHANGED <<attendance, payroll, cash>>
    BY <1>15 DEF H!ReadForPayment, H!At, q, Priced
  <2>2. amount \in Int
    <3>1. q.id \in Employees  BY <1>q, <2>1 DEF IdOK
    <3> QED  BY <1>q, <3>1 DEF StaffTyped, Pays
  <2>i. amount = payroll[q.id].net  OBVIOUS
  <2> HIDE DEF amount
  <2>r. r = Priced(q, amount)  OBVIOUS
  <2> HIDE DEF r
  <2>3. r \in StaffRequests /\ Same(r, q) /\ r.stage = 1 /\ r.amount = amount  BY <1>q, <2>2, <2>r, WithAmount
  <2>4. ReadOK(r, attendance, payroll)  BY <2>1, <2>3, <2>i DEF ReadOK, Same
  <2> QED  BY <1>r, <2>1, <2>3, <2>4 DEF Same
<1>16. CASE H!PayPayroll(s)
  <2>1. /\ q.id \in Employees /\ ~H!Held(q.id)
        /\ payroll[q.id].status \in {"VALIDATED", "DRAFT"} /\ q.amount = payroll[q.id].net
    BY <1>q, <1>16 DEF H!PayPayroll, H!At, q, IdOK, ReadOK
  <2>2. /\ payroll' = [payroll EXCEPT ![q.id].status = "PAID"]
        /\ cash' = [cash EXCEPT ![q.id] = Append(@, q.amount)]
        /\ H!Continue(s, H!Idle) /\ UNCHANGED attendance
    BY <1>16 DEF H!PayPayroll, H!PaysOut, H!Finish, q
  <2>3. \A x \in Employees \ {q.id} : payroll'[x] = payroll[x] /\ cash'[x] = cash[x]
    BY <1>q, <2>1, <2>2 DEF StaffTyped
  <2>4. /\ payroll'[q.id].status = "PAID" /\ payroll'[q.id].deduction = payroll[q.id].deduction
        /\ payroll'[q.id].net = payroll[q.id].net /\ payroll'[q.id].recorded = payroll[q.id].recorded
    BY <1>q, <2>1, <2>2 DEF StaffTyped, Pays
  <2>5. cash'[q.id] = <<payroll'[q.id].net>>
    <3>1. cash[q.id] = NoCash  BY <1>p, <2>1 DEF RowOK
    <3>2. cash'[q.id] = Append(cash[q.id], q.amount)  BY <1>q, <2>1, <2>2 DEF StaffTyped
    <3>3. Append(NoCash, q.amount) = <<q.amount>>  BY <1>f DEF NoCash
    <3> QED  BY <2>1, <2>4, <3>1, <3>2, <3>3
  <2>6. ValidatedKept  BY <2>2 DEF ValidatedKept
  <2>7. HeldKept  BY <2>1, <2>3 DEF HeldKept, H!Held
  <2>8. RowOK(payroll'[q.id], attendance'[q.id], cash'[q.id])
    <3>1. RowOK(payroll[q.id], attendance[q.id], cash[q.id]) /\ payroll[q.id].status # "none"  BY <1>p, <2>1
    <3>2. /\ attendance'[q.id].status = "VALIDATED" /\ payroll'[q.id].deduction = attendance'[q.id].deduction
          /\ ~payroll'[q.id].recorded
      BY <2>1, <2>2, <2>4, <3>1 DEF RowOK
    <3> QED  BY <2>4, <2>5, <3>2 DEF RowOK
  <2>9. \A e \in Employees : RowOK(payroll'[e], attendance'[e], cash'[e])
    BY <1>p, <2>2, <2>3, <2>8
  <2> QED  BY <1>e, <2>2, <2>6, <2>7, <2>9
<1> QED
  BY <1>1, <1>2, <1>3, <1>4, <1>5, <1>6, <1>7, <1>8, <1>9, <1>10, <1>11, <1>12, <1>13, <1>14, <1>15, <1>16
  DEF H!Step

LEMMA PayInit == ASSUME StaffRows PROVE H!Init => PayInv
<1> SUFFICES ASSUME H!Init PROVE PayInv  OBVIOUS
<1>1. /\ payroll = [e \in Employees |-> H!NoPayroll] /\ hReq = [s \in Sessions |-> H!Idle]
      /\ cash = [x \in Advances \cup Employees |-> NoCash]
  BY DEF H!Init, H!NoCash, NoCash
<1>2. H!NoPayroll.status = "none" /\ ~H!NoPayroll.recorded  BY DEF H!NoPayroll
<1>3. PayOK(H!Idle, attendance, payroll) /\ \A e \in Employees : H!Idle.pending[e] = H!NoPayroll
  BY StaffIdle, FreshOK
<1>4. \A e \in Employees : RowOK(payroll[e], attendance[e], cash[e])  BY <1>1, <1>2 DEF RowOK
<1> QED  BY <1>1, <1>3, <1>4 DEF PayInv

LEMMA PayNext ==
  ASSUME StaffRows
  PROVE  AdvanceInv /\ AdvanceInv' /\ PayInv /\ [H!Next]_H!vars /\ [RowsWait /\ PaidStays]_H!vars => PayInv'
<1> SUFFICES ASSUME AdvanceInv, PayInv, [H!Next]_H!vars, [RowsWait /\ PaidStays]_H!vars PROVE PayInv'  OBVIOUS
<1>1. CASE UNCHANGED H!vars
  BY <1>1 DEF H!vars, PayInv
<1>2. CASE H!Next /\ RowsWait /\ PaidStays
  BY <1>2, PayStatements, PayRequests, PaySteps DEF H!Next
<1> QED  BY <1>1, <1>2

(* Where what a request has read of the attendance and of the payrolls      *)
(* stays so until it writes, and nobody validates a payroll that was paid,  *)
(* payrolls follow what was handed out, entered and paid.                   *)
THEOREM PayrollIsKept ==
  ASSUME StaffRows
  PROVE  H!Spec /\ [][RowsWait /\ PaidStays]_H!vars => []PayrollFollows
<1>1. H!Init => PayInv  BY PayInit
<1>2. AdvanceInv /\ AdvanceInv' /\ PayInv /\ [H!Next]_H!vars /\ [RowsWait /\ PaidStays]_H!vars => PayInv'
  BY PayNext
<1>3. H!Spec => []AdvanceInv  BY AdvancesKept
<1>4. AdvanceInv /\ PayInv => PayrollFollows
  BY DEF AdvanceInv, PayInv, RowOK, PayrollFollows, DeductedWasPaid, PaidIsNet, PayrollFollowsAttendance,
         Bounds, Handed
<1> QED  BY <1>1, <1>2, <1>3, <1>4, PTL DEF H!Spec

-----------------------------------------------------------------------------
(* What a request may act on was approved, or needs no approval.            *)
Was(x)      == "APPROVED" \in workflow[x].actions
Cleared(row, x) == row.approval => Was(x)
AskedOK(r) ==
  /\ r.op = "payAdvance" /\ r.stage = 2 => Cleared(advance[r.id], r.id)
  /\ r.op = "approveLeave" => leave[r.id].status # "none"
  /\ r.op = "approveLeave" /\ r.stage = 1 => Cleared(leave[r.id], r.id)

ApprovalInv ==
  /\ leave \in [Leaves -> H!LeaveRows] /\ workflow \in [H!Approved -> H!Workflows]
  /\ \A x \in H!Approved : workflow[x].status = "APPROVED" => Was(x)
  /\ \A s \in Sessions : AskedOK(hReq[s])
  /\ \A a \in Advances : cash[a] # NoCash => Cleared(advance[a], a)

(* What a step does to the approvals: what was asked for stays so, and      *)
(* what was decided stays recorded.                                         *)
AskedKept ==
  /\ \A a \in Advances : advance[a].status # "none" => advance'[a].approval = advance[a].approval
  /\ \A l \in Leaves : leave[l].status # "none" =>
       leave'[l].status # "none" /\ leave'[l].approval = leave[l].approval
  /\ \A x \in H!Approved : workflow[x].actions \subseteq workflow'[x].actions

LEMMA ClearedKept ==
  ASSUME AskedKept
  PROVE  /\ \A a \in Advances : advance[a].status # "none" /\ Cleared(advance[a], a) => Cleared(advance[a], a)'
         /\ \A l \in Leaves : leave[l].status # "none" /\ Cleared(leave[l], l) => Cleared(leave[l], l)'
BY DEF AskedKept, Cleared, Was, H!Approved

LEMMA ApprovalStep ==
  ASSUME StaffRows, AdvanceInv, ApprovalInv, AskedKept,
         leave' \in [Leaves -> H!LeaveRows] /\ workflow' \in [H!Approved -> H!Workflows],
         \A x \in H!Approved : workflow'[x].status = "APPROVED" => "APPROVED" \in workflow'[x].actions,
         \A s \in Sessions : hReq'[s] # hReq[s] => IdOK(hReq'[s]) /\ AskedOK(hReq'[s]),
         \A a \in Advances : cash'[a] # NoCash =>
            cash[a] # NoCash \/ (advance[a].status # "none" /\ Cleared(advance[a], a))
  PROVE  ApprovalInv'
<1>1. ASSUME NEW s \in Sessions PROVE AskedOK(hReq[s])'
  <2>1. IdOK(hReq'[s]) /\ AskedOK(hReq'[s])  BY DEF AdvanceInv, ApprovalInv
  <2> QED  BY <2>1, ClearedKept DEF IdOK, AskedOK, AskedKept
<1>2. ASSUME NEW a \in Advances, cash'[a] # NoCash PROVE Cleared(advance[a], a)'
  <2>1. advance[a].status # "none" /\ Cleared(advance[a], a)  BY <1>2 DEF AdvanceInv, HandedOut, Had, ApprovalInv
  <2> QED  BY <2>1, ClearedKept
<1>3. \A x \in H!Approved : (workflow[x].status = "APPROVED" => Was(x))'  BY DEF Was
<1> QED  BY <1>1, <1>2, <1>3 DEF ApprovalInv

(* The workflows and the leaves stay as they are, and no advance is paid.   *)
LEMMA NothingAsked ==
  ASSUME StaffRows, AdvanceInv, ApprovalInv, UNCHANGED <<leave, workflow, cash>>,
         \A a \in Advances : advance[a].status # "none" => advance'[a].approval = advance[a].approval,
         \A s \in Sessions : hReq'[s] # hReq[s] => IdOK(hReq'[s]) /\ AskedOK(hReq'[s])
  PROVE  ApprovalInv'
<1>1. AskedKept  BY DEF AskedKept
<1>2. \A x \in H!Approved : workflow'[x].status = "APPROVED" => "APPROVED" \in workflow'[x].actions
  BY DEF ApprovalInv, Was
<1> QED  BY <1>1, <1>2, ApprovalStep DEF ApprovalInv

LEMMA StartedIs ==
  ASSUME workflow \in [H!Approved -> H!Workflows], NEW x \in H!Approved, NEW approval \in BOOLEAN,
         workflow' = H!Started(x, approval)
  PROVE  /\ workflow' \in [H!Approved -> H!Workflows]
         /\ \A y \in H!Approved : /\ workflow'[y].actions = workflow[y].actions
                                  /\ workflow'[y].status = "APPROVED" => workflow[y].status = "APPROVED"
<1>1. [workflow[x] EXCEPT !.status = "PENDING", !.step = "PENDING"] \in H!Workflows
      /\ [workflow[x] EXCEPT !.status = "PENDING", !.step = "PENDING"].actions = workflow[x].actions
      /\ [workflow[x] EXCEPT !.status = "PENDING", !.step = "PENDING"].status = "PENDING"
  BY DEF H!Workflows
<1> QED  BY <1>1 DEF H!Started

LEMMA ApprovalStatements ==
  ASSUME StaffRows, AdvanceInv, ApprovalInv, NEW op, H!Statement(op)
  PROVE  ApprovalInv' /\ AskedKept
<1>0. /\ leave \in [Leaves -> H!LeaveRows] /\ workflow \in [H!Approved -> H!Workflows]
      /\ advance \in [Advances -> H!AdvanceRows]
      /\ \A x \in H!Approved : workflow[x].status = "APPROVED" => "APPROVED" \in workflow[x].actions
  BY DEF ApprovalInv, AdvanceInv, StaffTyped, Was
<1>1. ASSUME UNCHANGED <<advance, leave, workflow, cash, hReq>> PROVE ApprovalInv' /\ AskedKept
  <2>1. AskedKept  BY <1>1 DEF AskedKept
  <2> QED  BY <1>1, <2>1, NothingAsked
<1>2. ASSUME NEW a \in Advances, NEW e \in Employees, NEW amount \in 1..MaxAdvance, NEW approval \in BOOLEAN,
             NEW status, H!CreateAdvance(a, e, amount, approval, status)
      PROVE  ApprovalInv' /\ AskedKept
  <2>1. /\ advance[a].status = "none" /\ \A x \in Advances \ {a} : advance'[x] = advance[x]
        /\ workflow' = H!Started(a, approval) /\ UNCHANGED <<leave, cash, hReq>>
    BY <1>0, <1>2 DEF H!CreateAdvance
  <2>2. a \in H!Approved  BY DEF H!Approved
  <2>3. AskedKept  BY <1>0, <2>1, <2>2, StartedIs DEF AskedKept
  <2>4. \A x \in H!Approved : workflow'[x].status = "APPROVED" => "APPROVED" \in workflow'[x].actions
    BY <1>0, <2>1, <2>2, StartedIs
  <2> QED  BY <1>0, <2>1, <2>2, <2>3, <2>4, StartedIs, ApprovalStep
<1>3. ASSUME NEW a \in Advances, NEW to \in H!Decisions, H!UpdateSalaryAdvanceStatus(a, to)
      PROVE  ApprovalInv' /\ AskedKept
  <2>1. advance' = [advance EXCEPT ![a].status = to] /\ UNCHANGED <<leave, workflow, cash, hReq>>
    BY <1>3 DEF H!UpdateSalaryAdvanceStatus
  <2>2. \A x \in Advances : advance'[x].approval = advance[x].approval  BY <1>0, <2>1 DEF H!AdvanceRows
  <2>3. AskedKept  BY <2>1, <2>2 DEF AskedKept
  <2> QED  BY <2>1, <2>2, <2>3, NothingAsked
<1>4. ASSUME NEW l \in Leaves, NEW approval \in BOOLEAN, NEW status \in H!LeaveStatuses,
             H!CreateLeave(l, approval, status)
      PROVE  ApprovalInv' /\ AskedKept
  <2> DEFINE row == [status |-> IF approval THEN "PENDING" ELSE status, approval |-> approval]
  <2>1. /\ leave[l].status = "none" /\ leave' = [leave EXCEPT ![l] = row]
        /\ workflow' = H!Started(l, approval) /\ UNCHANGED <<advance, cash, hReq>>
    BY <1>4 DEF H!CreateLeave
  <2>2. l \in H!Approved  BY DEF H!Approved
  <2>3. row \in H!LeaveRows /\ row.status # "none"  BY DEF H!LeaveRows, H!LeaveStatuses, H!Decisions
  <2> HIDE DEF row
  <2>4. leave' \in [Leaves -> H!LeaveRows] /\ \A x \in Leaves \ {l} : leave'[x] = leave[x]
    BY <1>0, <2>1, <2>3
  <2>5. AskedKept  BY <1>0, <2>1, <2>2, <2>4, StartedIs DEF AskedKept
  <2>6. \A x \in H!Approved : workflow'[x].status = "APPROVED" => "APPROVED" \in workflow'[x].actions
    BY <1>0, <2>1, <2>2, StartedIs
  <2> QED  BY <1>0, <2>1, <2>2, <2>4, <2>5, <2>6, StartedIs, ApprovalStep
<1>5. ASSUME NEW l \in Leaves, NEW to \in H!LeaveStatuses, H!WriteLeave(l, to)
      PROVE  ApprovalInv' /\ AskedKept
  <2>1. /\ leave[l].status # "none" /\ leave' = [leave EXCEPT ![l].status = to]
        /\ UNCHANGED <<advance, workflow, cash, hReq>>
    BY <1>5 DEF H!WriteLeave
  <2>2. [leave[l] EXCEPT !.status = to] \in H!LeaveRows  BY <1>0 DEF H!LeaveRows
  <2>3. leave' \in [Leaves -> H!LeaveRows]  BY <1>0, <2>1, <2>2
  <2>4. \A x \in Leaves : leave'[x].approval = leave[x].approval
                          /\ leave'[x].status = IF x = l THEN to ELSE leave[x].status
    BY <1>0, <2>1 DEF H!LeaveRows
  <2>5. AskedKept  BY <2>1, <2>4 DEF AskedKept, H!LeaveStatuses, H!Decisions
  <2> QED  BY <1>0, <2>1, <2>3, <2>5, ApprovalStep
<1>6. ASSUME NEW x \in H!Approved, H!CancelWorkflow(x) PROVE ApprovalInv' /\ AskedKept
  <2>1. workflow' = [workflow EXCEPT ![x].status = "CANCELLED"] /\ UNCHANGED <<advance, leave, cash, hReq>>
    BY <1>6 DEF H!CancelWorkflow
  <2>2. [workflow[x] EXCEPT !.status = "CANCELLED"] \in H!Workflows  BY <1>0 DEF H!Workflows
  <2>3. workflow' \in [H!Approved -> H!Workflows]  BY <1>0, <2>1, <2>2
  <2>4. \A y \in H!Approved : /\ workflow'[y].actions = workflow[y].actions
                              /\ workflow'[y].status = IF y = x THEN "CANCELLED" ELSE workflow[y].status
    BY <1>0, <2>1 DEF H!Workflows
  <2>5. AskedKept  BY <2>1, <2>4 DEF AskedKept
  <2> QED  BY <1>0, <2>1, <2>3, <2>4, <2>5, ApprovalStep
<1> QED
  <2>1. ASSUME NEW e, NEW amount, H!SetSalary(e, amount) PROVE ApprovalInv' /\ AskedKept
    BY <1>1, <2>1 DEF H!SetSalary
  <2>2. ASSUME NEW some, H!ValidateAttendance(some) PROVE ApprovalInv' /\ AskedKept
    BY <1>1, <2>2 DEF H!ValidateAttendance
  <2>3. ASSUME NEW e, H!ValidatePayroll(e) PROVE ApprovalInv' /\ AskedKept
    BY <1>1, <2>3 DEF H!ValidatePayroll
  <2> QED  BY <1>2, <1>3, <1>4, <1>5, <1>6, <2>1, <2>2, <2>3 DEF H!Statement, H!LeaveStatuses, H!Decisions

(* A request goes on with the record r, and only it does.                   *)
LEMMA AskedOn ==
  ASSUME StaffRows, AdvanceInv, ApprovalInv, NEW s \in Sessions, NEW r \in StaffRequests, H!Continue(s, r),
         UNCHANGED <<advance, leave, workflow, cash>>, IdOK(r), AskedOK(r)
  PROVE  ApprovalInv' /\ AskedKept
<1>1. \A t \in Sessions : hReq'[t] # hReq[t] => hReq'[t] = r  BY ContinueTo DEF AdvanceInv
<1>2. AskedKept  BY DEF AskedKept
<1> QED  BY <1>1, <1>2, NothingAsked

LEMMA ApprovalRequests ==
  ASSUME StaffRows, AdvanceInv, ApprovalInv, NEW s \in Sessions, H!Request(s) \/ H!Rollback(s)
  PROVE  ApprovalInv' /\ AskedKept
<1>0. H!Idle \in StaffRequests /\ H!Idle.stage = 0 /\ H!Idle.op = "none"
  <2>1. H!Idle.stage = 0  BY DEF H!Idle
  <2> QED  BY <2>1, StaffIdle
<1>1. ASSUME NEW r \in StaffRequests, r.stage = 0, IdOK(r),
             r.op = "approveLeave" => leave[r.id].status # "none", H!Begin(s, r)
      PROVE  ApprovalInv' /\ AskedKept
  <2>1. H!Continue(s, r) /\ UNCHANGED <<advance, leave, workflow, cash>>  BY <1>1 DEF H!Begin
  <2>2. AskedOK(r)  BY <1>1 DEF AskedOK
  <2> QED  BY <1>1, <2>1, <2>2, AskedOn
<1>2. ASSUME NEW a \in Advances, advance[a].status # "none", H!Begin(s, [H!Idle EXCEPT !.op = "payAdvance", !.id = a])
      PROVE  ApprovalInv' /\ AskedKept
  <2> DEFINE r == [H!Idle EXCEPT !.op = "payAdvance", !.id = a]
  <2>1. r \in StaffRequests /\ r.op = "payAdvance" /\ r.id = a /\ r.stage = 0
    BY <1>0 DEF StaffRequests, H!AllEndpoints, H!Approved
  <2>2. H!Begin(s, r)  BY <1>2
  <2> HIDE DEF r
  <2>3. IdOK(r)  BY <1>2, <2>1 DEF IdOK
  <2> QED  BY <1>1, <2>1, <2>2, <2>3
<1>3. ASSUME NEW l \in Leaves, leave[l].status # "none", H!Begin(s, [H!Idle EXCEPT !.op = "approveLeave", !.id = l])
      PROVE  ApprovalInv' /\ AskedKept
  <2> DEFINE r == [H!Idle EXCEPT !.op = "approveLeave", !.id = l]
  <2>1. r \in StaffRequests /\ r.op = "approveLeave" /\ r.id = l /\ r.stage = 0
    BY <1>0 DEF StaffRequests, H!AllEndpoints, H!Approved
  <2>2. H!Begin(s, r)  BY <1>3
  <2> HIDE DEF r
  <2>3. IdOK(r)  BY <2>1 DEF IdOK
  <2> QED  BY <1>1, <1>3, <2>1, <2>2, <2>3
<1>4. ASSUME NEW x \in H!Approved, NEW to \in H!Decisions,
             H!Begin(s, [H!Idle EXCEPT !.op = "decide", !.id = x, !.to = to])
      PROVE  ApprovalInv' /\ AskedKept
  <2> DEFINE r == [H!Idle EXCEPT !.op = "decide", !.id = x, !.to = to]
  <2>1. r \in StaffRequests /\ r.op = "decide" /\ r.id = x /\ r.to = to /\ r.stage = 0
    BY <1>0 DEF StaffRequests, H!AllEndpoints
  <2>2. H!Begin(s, r)  BY <1>4
  <2> HIDE DEF r
  <2>3. IdOK(r)  BY <2>1 DEF IdOK
  <2> QED  BY <1>1, <2>1, <2>2, <2>3
<1>5. ASSUME NEW e \in Employees, NEW halves \in H!Halves, NEW to \in {"DRAFT", "VALIDATED"},
             H!Begin(s, [H!Idle EXCEPT !.op = "attend", !.id = e, !.halves = halves, !.to = to])
      PROVE  ApprovalInv' /\ AskedKept
  <2> DEFINE r == [H!Idle EXCEPT !.op = "attend", !.id = e, !.halves = halves, !.to = to]
  <2>1. r \in StaffRequests /\ r.op = "attend" /\ r.id = e /\ r.to = to /\ r.stage = 0
    BY <1>0 DEF StaffRequests, H!AllEndpoints, H!Halves, H!PayrollStatuses
  <2>2. H!Begin(s, r)  BY <1>5
  <2> HIDE DEF r
  <2>3. IdOK(r)  BY <2>1 DEF IdOK
  <2> QED  BY <1>1, <2>1, <2>2, <2>3
<1>6. ASSUME NEW e \in Employees \cup {0}, NEW to \in H!PayrollStatuses, NEW bonus \in Bonuses,
             H!Begin(s, [H!Idle EXCEPT !.op = "generate", !.id = e, !.to = to, !.amount = bonus])
      PROVE  ApprovalInv' /\ AskedKept
  <2> DEFINE r == [H!Idle EXCEPT !.op = "generate", !.id = e, !.to = to, !.amount = bonus]
  <2>0. bonus \in Int  BY DEF StaffRows
  <2>1. r \in StaffRequests /\ r.op = "generate" /\ r.to = to /\ r.stage = 0
    BY <1>0, <2>0 DEF StaffRequests, H!AllEndpoints
  <2>2. H!Begin(s, r)  BY <1>6
  <2> HIDE DEF r
  <2>3. IdOK(r)  BY <2>1 DEF IdOK
  <2> QED  BY <1>1, <2>1, <2>2, <2>3
<1>7. ASSUME NEW e \in Employees, H!Begin(s, [H!Idle EXCEPT !.op = "pay", !.id = e]) PROVE ApprovalInv' /\ AskedKept
  <2> DEFINE r == [H!Idle EXCEPT !.op = "pay", !.id = e]
  <2>1. r \in StaffRequests /\ r.op = "pay" /\ r.id = e /\ r.stage = 0
    BY <1>0 DEF StaffRequests, H!AllEndpoints
  <2>2. H!Begin(s, r)  BY <1>7
  <2> HIDE DEF r
  <2>3. IdOK(r)  BY <2>1 DEF IdOK
  <2> QED  BY <1>1, <2>1, <2>2, <2>3
<1>8. CASE H!Rollback(s)
  <2>1. H!Continue(s, H!Idle) /\ UNCHANGED <<advance, leave, workflow, cash>>  BY <1>8 DEF H!Rollback, H!Finish
  <2>2. IdOK(H!Idle) /\ AskedOK(H!Idle)  BY <1>0 DEF IdOK, AskedOK
  <2> QED  BY <1>0, <2>1, <2>2, AskedOn
<1> QED  BY <1>2, <1>3, <1>4, <1>5, <1>6, <1>7, <1>8 DEF H!Request

(* A read is a read of the same request.                                    *)
LEMMA SameRequest ==
  ASSUME NEW q \in StaffRequests, NEW x, NEW y, NEW z
  PROVE  /\ Priced(q, x).op = q.op /\ Opened(q, x, y, z).op = q.op /\ Totalled(q, x).op = q.op
         /\ Computed(q, x, y).op = q.op /\ [q EXCEPT !.todo = x].op = q.op /\ [q EXCEPT !.stage = x].op = q.op
BY DEF StaffRequests, Priced, Opened, Totalled, Computed

(* What a step may pay, grant and decide: what was approved.                *)
LEMMA ApprovalSteps ==
  ASSUME StaffRows, AdvanceInv, AdvanceInv', ApprovalInv, NEW s \in Sessions, H!Step(s)
  PROVE  /\ ApprovalInv' /\ AskedKept
         /\ \A l \in Leaves : leave'[l] = leave[l] \/ (leave[l].status # "none" /\ Cleared(leave[l], l))
<1> DEFINE q == hReq[s]
<1>0. /\ leave \in [Leaves -> H!LeaveRows] /\ workflow \in [H!Approved -> H!Workflows]
      /\ \A x \in H!Approved : workflow[x].status = "APPROVED" => Was(x)
  BY DEF ApprovalInv
<1>q. q \in StaffRequests /\ StaffTyped /\ IdOK(q) /\ AskedOK(q)  BY Doing DEF ApprovalInv
<1>i. H!Idle \in StaffRequests /\ IdOK(H!Idle) /\ AskedOK(H!Idle)  BY StaffIdle DEF IdOK, AskedOK
<1>n. \A t \in Sessions : IdOK(hReq[t])'  BY DEF AdvanceInv
<1> HIDE DEF q
<1> DEFINE Goal == /\ ApprovalInv' /\ AskedKept
                   /\ \A l \in Leaves : leave'[l] = leave[l] \/ (leave[l].status # "none" /\ Cleared(leave[l], l))
(* The other requests ask for nothing.                                      *)
<1>o. ASSUME q.op \in {"attend", "generate", "pay"}, UNCHANGED <<advance, leave, workflow>>,
             NEW r \in StaffRequests, H!Continue(s, r), r.op \in {"none", "attend", "generate", "pay"},
             \A a \in Advances : cash'[a] = cash[a], IdOK(r)
      PROVE  Goal
  <2>1. AskedKept  BY <1>o DEF AskedKept
  <2>2. \A t \in Sessions : hReq'[t] # hReq[t] => hReq'[t] = r  BY <1>o, <1>q, ContinueTo
  <2>3. AskedOK(r)  BY <1>o DEF AskedOK
  <2>4. ApprovalInv'  BY <1>o, <1>0, <2>1, <2>2, <2>3, ApprovalStep DEF Was
  <2> QED  BY <1>o, <2>1, <2>4
<1>s. ASSUME q.op \in {"payAdvance", "approveLeave", "decide"}, NEW stage \in 0..3,
             H!Continue(s, [q EXCEPT !.stage = stage]), UNCHANGED <<advance, leave, workflow, cash>>,
             q.op = "payAdvance" /\ stage = 2 => Cleared(advance[q.id], q.id),
             q.op = "approveLeave" /\ stage = 1 => Cleared(leave[q.id], q.id)
      PROVE  Goal
  <2> DEFINE r == [q EXCEPT !.stage = stage]
  <2>1. r \in StaffRequests /\ r.op = q.op /\ r.stage = stage /\ r.id = q.id /\ r.to = q.to
    BY <1>q DEF StaffRequests
  <2>2. H!Continue(s, r)  BY <1>s
  <2> HIDE DEF r
  <2>3. IdOK(r) /\ AskedOK(r)  BY <1>q, <1>s, <2>1 DEF IdOK, AskedOK
  <2> QED  BY <1>s, <2>1, <2>2, <2>3, AskedOn
<1>1. CASE H!ReadAdvance(s)
  <2> DEFINE amount == advance[q.id].amount
             r == Priced(q, amount)
  <2>1. q.op = "payAdvance" /\ H!Continue(s, r) /\ UNCHANGED <<advance, leave, workflow, cash>>
    BY <1>1 DEF H!ReadAdvance, H!At, q, Priced
  <2>2. amount \in Int
    <3>1. q.id \in Advances  BY <1>q, <2>1 DEF IdOK
    <3> QED  BY <1>q, <3>1 DEF StaffTyped, H!AdvanceRows
  <2> HIDE DEF amount
  <2>r. r = Priced(q, amount)  OBVIOUS
  <2> HIDE DEF r
  <2>3. r \in StaffRequests /\ Same(r, q) /\ r.stage = 1  BY <1>q, <2>2, <2>r, WithAmount
  <2>4. IdOK(r) /\ AskedOK(r)  BY <1>q, <2>1, <2>3 DEF IdOK, AskedOK, Same
  <2> QED  BY <2>1, <2>3, <2>4, AskedOn
<1>2. CASE H!CheckAdvance(s)
  <2>1. /\ q.op = "payAdvance" /\ H!Continue(s, [q EXCEPT !.stage = 2])
        /\ UNCHANGED <<advance, leave, workflow, cash>>
        /\ advance[q.id].approval => workflow[q.id].status = "APPROVED"
    BY <1>2 DEF H!CheckAdvance, H!At, H!WorkflowApproved, q
  <2>2. q.id \in H!Approved  BY <1>q, <2>1 DEF IdOK, H!Approved
  <2>3. Cleared(advance[q.id], q.id)  BY <1>0, <2>1, <2>2 DEF Cleared
  <2> QED  BY <1>s, <2>1, <2>3
<1>3. CASE H!PayAdvance(s)
  <2>1. q.op = "payAdvance" /\ q.stage = 2 /\ q.id \in Advances
    BY <1>3, <1>q DEF H!PayAdvance, H!At, q, IdOK
  <2>2. /\ advance' = [advance EXCEPT ![q.id].status = "PAID"]
        /\ cash' = [cash EXCEPT ![q.id] = Append(@, q.amount)]
        /\ H!Continue(s, H!Idle) /\ UNCHANGED <<leave, workflow>>
    BY <1>3 DEF H!PayAdvance, H!PaysOut, H!Finish, q
  <2>3. \A a \in Advances : advance'[a].approval = advance[a].approval
    BY <1>q, <2>2 DEF StaffTyped, H!AdvanceRows
  <2>4. AskedKept  BY <2>2, <2>3 DEF AskedKept
  <2>5. \A a \in Advances : a # q.id => cash'[a] = cash[a]  BY <1>q, <2>2 DEF StaffTyped
  <2>6. advance[q.id].status # "none" /\ Cleared(advance[q.id], q.id)  BY <1>q, <2>1 DEF IdOK, AskedOK
  <2>7. \A a \in Advances : cash'[a] # NoCash =>
          cash[a] # NoCash \/ (advance[a].status # "none" /\ Cleared(advance[a], a))
    BY <2>5, <2>6
  <2>8. \A t \in Sessions : hReq'[t] # hReq[t] => hReq'[t] = H!Idle  BY <1>i, <1>q, <2>2, ContinueTo
  <2>9. ApprovalInv'  BY <1>0, <1>i, <2>2, <2>4, <2>7, <2>8, ApprovalStep DEF Was
  <2> QED  BY <2>2, <2>4, <2>9
<1>4. CASE H!CheckLeave(s)
  <2>1. /\ q.op = "approveLeave" /\ H!Continue(s, [q EXCEPT !.stage = 1])
        /\ UNCHANGED <<advance, leave, workflow, cash>>
        /\ leave[q.id].approval => workflow[q.id].status = "APPROVED"
    BY <1>4 DEF H!CheckLeave, H!At, H!WorkflowApproved, q
  <2>2. q.id \in H!Approved  BY <1>q, <2>1 DEF IdOK, H!Approved
  <2>3. Cleared(leave[q.id], q.id)  BY <1>0, <2>1, <2>2 DEF Cleared
  <2> QED  BY <1>s, <2>1, <2>3
<1>5. CASE H!ApproveLeave(s)
  <2>1. q.op = "approveLeave" /\ q.stage = 1 /\ q.id \in Leaves
    BY <1>5, <1>q DEF H!ApproveLeave, H!At, q, IdOK
  <2>2. /\ leave' = [leave EXCEPT ![q.id].status = "APPROVED"]
        /\ H!Continue(s, H!Idle) /\ UNCHANGED <<advance, workflow, cash>>
    BY <1>5 DEF H!ApproveLeave, H!Finish, q
  <2>3. leave[q.id].status # "none" /\ Cleared(leave[q.id], q.id)  BY <1>q, <2>1 DEF AskedOK
  <2>4. [leave[q.id] EXCEPT !.status = "APPROVED"] \in H!LeaveRows
    BY <1>0, <2>1 DEF H!LeaveRows, H!LeaveStatuses, H!Decisions
  <2>5. leave' \in [Leaves -> H!LeaveRows]  BY <1>0, <2>2, <2>4
  <2>6. \A x \in Leaves : /\ leave'[x].approval = leave[x].approval
                          /\ x # q.id => leave'[x] = leave[x]
                          /\ x = q.id => leave'[x].status = "APPROVED"
    BY <1>0, <2>2 DEF H!LeaveRows
  <2>7. AskedKept  BY <2>2, <2>6 DEF AskedKept
  <2>8. \A t \in Sessions : hReq'[t] # hReq[t] => hReq'[t] = H!Idle  BY <1>i, <1>q, <2>2, ContinueTo
  <2>9. ApprovalInv'  BY <1>0, <1>i, <2>2, <2>5, <2>7, <2>8, ApprovalStep DEF Was
  <2> QED  BY <2>3, <2>6, <2>7, <2>9
<1>6. CASE H!ReadStep(s)
  BY <1>6, <1>s DEF H!ReadStep, H!At, q
<1>7. CASE H!Decide(s)
  <2> DEFINE row == [status  |-> q.to,
                     step    |-> IF workflow[q.id].step = "PENDING" THEN q.to ELSE workflow[q.id].step,
                     actions |-> workflow[q.id].actions \cup {q.to}]
  <2>1. q.id \in H!Approved /\ q.to \in H!Decisions
    BY <1>7, <1>q DEF H!Decide, H!At, q, IdOK
  <2>2. /\ workflow' = [workflow EXCEPT ![q.id] = row]
        /\ H!Continue(s, H!Idle) /\ UNCHANGED <<advance, leave, cash>>
    BY <1>7 DEF H!Decide, H!Finish, q
  <2>3. row \in H!Workflows  BY <1>0, <2>1 DEF H!Workflows, H!Decisions
  <2>4. /\ workflow[q.id].actions \subseteq row.actions
        /\ row.status = "APPROVED" => "APPROVED" \in row.actions
    OBVIOUS
  <2> HIDE DEF row
  <2>5. /\ workflow' \in [H!Approved -> H!Workflows]
        /\ \A x \in H!Approved : workflow'[x] = IF x = q.id THEN row ELSE workflow[x]
    BY <1>0, <2>2, <2>3
  <2>6. AskedKept  BY <2>2, <2>4, <2>5 DEF AskedKept
  <2>7. \A x \in H!Approved : workflow'[x].status = "APPROVED" => "APPROVED" \in workflow'[x].actions
    BY <1>0, <2>4, <2>5 DEF Was
  <2>8. \A t \in Sessions : hReq'[t] # hReq[t] => hReq'[t] = H!Idle  BY <1>i, <1>q, <2>2, ContinueTo
  <2>9. ApprovalInv'  BY <1>0, <1>i, <2>2, <2>5, <2>6, <2>7, <2>8, ApprovalStep
  <2> QED  BY <2>2, <2>6, <2>9
<1>g. ASSUME q.op \in {"attend", "generate", "pay"}, UNCHANGED <<advance, leave, workflow, cash>>,
             NEW r, r.op = q.op, H!Continue(s, r)
      PROVE  Goal
  <2>1. r = hReq'[s]  BY <1>g, <1>q DEF H!Continue, StaffTyped
  <2>2. hReq'[s] \in StaffRequests  BY DEF AdvanceInv, StaffTyped
  <2>3. IdOK(r)  BY <1>n, <1>g, <2>1 DEF IdOK
  <2> QED  BY <1>o, <1>g, <2>1, <2>2, <2>3
<1>8. CASE H!ReadAttendance(s)
  <2> DEFINE r == Priced(q, (salary[q.id] * q.halves) \div 2)
  <2>1. q.op = "attend" /\ H!Continue(s, r) /\ UNCHANGED <<advance, leave, workflow, cash>>
    BY <1>8 DEF H!ReadAttendance, H!At, q, Priced
  <2>2. r.op = q.op  BY <1>q, SameRequest
  <2> HIDE DEF r
  <2> QED  BY <1>g, <2>1, <2>2
<1>11. CASE H!ReadEntries(s)
  <2> DEFINE valid == {e \in Employees : attendance[e].status = "VALIDATED" /\ q.id \in {0, e}}
             r == Opened(q, valid, attendance, salary)
  <2>1. q.op = "generate" /\ H!Continue(s, r) /\ UNCHANGED <<advance, leave, workflow, cash>>
    BY <1>11 DEF H!ReadEntries, H!At, q, Opened
  <2>2. r.op = q.op  BY <1>q, SameRequest
  <2> HIDE DEF r
  <2> QED  BY <1>g, <2>1, <2>2
<1>12. CASE H!ReadPayroll(s)
  <2> DEFINE r == IF H!Kept(H!Entry(s)) THEN [q EXCEPT !.todo = @ \ {H!Entry(s)}] ELSE [q EXCEPT !.stage = 2]
  <2>1. q.op = "generate" /\ H!Continue(s, r) /\ UNCHANGED <<advance, leave, workflow, cash>>
    BY <1>12 DEF H!ReadPayroll, H!At, q
  <2>2. r.op = q.op  BY <1>q, SameRequest
  <2> HIDE DEF r
  <2> QED  BY <1>g, <2>1, <2>2
<1>13. CASE H!ReadAdvances(s)
  <2> DEFINE r == Totalled(q, H!AdvanceTotal(H!Entry(s)))
  <2>1. q.op = "generate" /\ H!Continue(s, r) /\ UNCHANGED <<advance, leave, workflow, cash>>
    BY <1>13 DEF H!ReadAdvances, H!At, q, Totalled
  <2>2. r.op = q.op  BY <1>q, SameRequest
  <2> HIDE DEF r
  <2> QED  BY <1>g, <2>1, <2>2
<1>14. CASE H!WritePayroll(s)
  <2> DEFINE e == H!Entry(s)
             pend == [q.pending EXCEPT ![e] = H!Generated(q, e, payroll[e])]
             r == Computed(q, q.todo \ {e}, pend)
  <2>1. q.op = "generate" /\ H!Continue(s, r) /\ UNCHANGED <<advance, leave, workflow, cash>>
    BY <1>14 DEF H!WritePayroll, H!At, q, Computed
  <2>2. r.op = q.op  BY <1>q, SameRequest
  <2> HIDE DEF r
  <2> QED  BY <1>g, <2>1, <2>2
<1>15. CASE H!ReadForPayment(s)
  <2> DEFINE r == Priced(q, payroll[q.id].net)
  <2>1. q.op = "pay" /\ H!Continue(s, r) /\ UNCHANGED <<advance, leave, workflow, cash>>
    BY <1>15 DEF H!ReadForPayment, H!At, q, Priced
  <2>2. r.op = q.op  BY <1>q, SameRequest
  <2> HIDE DEF r
  <2> QED  BY <1>g, <2>1, <2>2
<1>9. CASE H!WriteAttendance(s) \/ H!CommitPayrolls(s)
  BY <1>9, <1>i, <1>o, StaffIdle DEF H!WriteAttendance, H!CommitPayrolls, H!Finish, H!At, q
<1>10. CASE H!PayPayroll(s)
  <2>1. q.op = "pay" /\ q.id \in Employees /\ q.id \notin Advances
    BY <1>10, <1>q DEF H!PayPayroll, H!At, q, IdOK, StaffRows
  <2>2. /\ cash' = [cash EXCEPT ![q.id] = Append(@, q.amount)]
        /\ H!Continue(s, H!Idle) /\ UNCHANGED <<advance, leave, workflow>>
    BY <1>10 DEF H!PayPayroll, H!PaysOut, H!Finish, q
  <2>3. \A a \in Advances : cash'[a] = cash[a]  BY <1>q, <2>1, <2>2 DEF StaffTyped
  <2> QED  BY <1>i, <1>o, <2>1, <2>2, <2>3, StaffIdle
<1> QED
  BY <1>1, <1>2, <1>3, <1>4, <1>5, <1>6, <1>7, <1>8, <1>9, <1>10, <1>11, <1>12, <1>13, <1>14, <1>15 DEF H!Step

LEMMA ApprovalInit == ASSUME StaffRows PROVE H!Init => ApprovalInv
<1> SUFFICES ASSUME H!Init PROVE ApprovalInv  OBVIOUS
<1>1. leave \in [Leaves -> H!LeaveRows] /\ workflow \in [H!Approved -> H!Workflows]
  BY DEF H!Init, H!LeaveRows, H!Workflows
<1>2. \A x \in H!Approved : workflow[x].status = "APPROVED" => Was(x)  BY DEF H!Init
<1>3. H!Idle.op = "none"  BY StaffIdle
<1>4. \A s \in Sessions : AskedOK(hReq[s])  BY <1>3 DEF H!Init, AskedOK
<1>5. H!NoCash = NoCash  BY DEF H!NoCash, NoCash
<1>6. \A a \in Advances : cash[a] = NoCash  BY <1>5 DEF H!Init
<1> QED  BY <1>1, <1>2, <1>4, <1>6 DEF ApprovalInv

LEMMA ApprovalSame ==
  ASSUME ApprovalInv, UNCHANGED H!vars
  PROVE  ApprovalInv' /\ AskedKept
<1>1. UNCHANGED <<advance, leave, workflow, cash, hReq>>  BY DEF H!vars
<1>2. AskedKept  BY <1>1 DEF AskedKept
<1>3. \A s \in Sessions : AskedOK(hReq[s])'  BY <1>1 DEF ApprovalInv, AskedOK, Cleared, Was
<1> QED  BY <1>1, <1>2, <1>3 DEF ApprovalInv, Cleared, Was

LEMMA ApprovalNext ==
  ASSUME StaffRows
  PROVE  AdvanceInv /\ AdvanceInv' /\ ApprovalInv /\ [H!Next]_H!vars => ApprovalInv' /\ AskedKept
<1> SUFFICES ASSUME AdvanceInv, AdvanceInv', ApprovalInv, [H!Next]_H!vars PROVE ApprovalInv' /\ AskedKept
  OBVIOUS
<1>1. CASE UNCHANGED H!vars  BY <1>1, ApprovalSame
<1>2. CASE H!Next
  BY <1>2, ApprovalStatements, ApprovalRequests, ApprovalSteps DEF H!Next
<1> QED  BY <1>1, <1>2

(* Money under approval leaves the cash desk only after an approval,        *)
(* however decisions, cancellations and payments interleave.                *)
THEOREM AdvancesApproved ==
  ASSUME StaffRows
  PROVE  H!Spec =>
           [](\A a \in Advances : cash[a] # NoCash /\ advance[a].approval => "APPROVED" \in workflow[a].actions)
<1> DEFINE Paid == \A a \in Advances : cash[a] # NoCash /\ advance[a].approval => "APPROVED" \in workflow[a].actions
<1>1. ApprovalInv => Paid  BY DEF ApprovalInv, Cleared, Was
<1> HIDE DEF Paid
<1>2. H!Spec => []ApprovalInv
  <2>1. H!Init => ApprovalInv  BY ApprovalInit
  <2>2. AdvanceInv /\ AdvanceInv' /\ ApprovalInv /\ [H!Next]_H!vars => ApprovalInv'  BY ApprovalNext
  <2>3. H!Spec => []AdvanceInv  BY AdvancesKept
  <2> QED  BY <2>1, <2>2, <2>3, PTL DEF H!Spec
<1> QED  BY <1>1, <1>2, PTL DEF Paid

(* A leave under approval is granted by the request that approves it, never *)
(* by editing it.                                                           *)
GrantedByRequest ==
  \A l \in Leaves :
    leave'[l].approval /\ leave'[l].status = "APPROVED" /\ leave[l].status # "APPROVED" => hReq' # hReq

LeaveInv == \A l \in Leaves : leave[l].status = "APPROVED" => Cleared(leave[l], l)

LEMMA LeaveNext ==
  ASSUME StaffRows
  PROVE  /\ AdvanceInv /\ AdvanceInv' /\ ApprovalInv /\ LeaveInv
         /\ [H!Next]_H!vars /\ [GrantedByRequest]_H!vars
         => LeaveInv'
<1> SUFFICES ASSUME AdvanceInv, AdvanceInv', ApprovalInv, LeaveInv, [H!Next]_H!vars, [GrantedByRequest]_H!vars
             PROVE  LeaveInv'
  OBVIOUS
<1>1. AskedKept  BY ApprovalNext
<1>2. \A l \in Leaves : leave[l].status # "none" /\ Cleared(leave[l], l) => Cleared(leave[l], l)'
  BY <1>1, ClearedKept
<1>3. SUFFICES ASSUME NEW l \in Leaves, leave'[l].status = "APPROVED", leave'[l].approval
               PROVE  leave[l].status # "none" /\ Cleared(leave[l], l)
  BY <1>2, <1>3 DEF LeaveInv, Cleared
<1>4. ASSUME leave'[l] = leave[l] PROVE leave[l].status # "none" /\ Cleared(leave[l], l)
  BY <1>3, <1>4 DEF LeaveInv
<1>5. CASE UNCHANGED H!vars  BY <1>4, <1>5 DEF H!vars
<1>6. ASSUME NEW op, H!Statement(op) PROVE leave[l].status # "none" /\ Cleared(leave[l], l)
  <2>1. hReq' = hReq
    BY <1>6 DEF H!Statement, H!SetSalary, H!CreateAdvance, H!UpdateSalaryAdvanceStatus, H!CreateLeave,
                H!WriteLeave, H!CancelWorkflow, H!ValidateAttendance, H!ValidatePayroll
  <2>2. leave[l].status = "APPROVED" \/ UNCHANGED H!vars  BY <1>3, <2>1 DEF GrantedByRequest
  <2> QED  BY <1>5, <2>2 DEF LeaveInv
<1>7. ASSUME NEW s \in Sessions, H!Request(s) \/ H!Rollback(s)
      PROVE  leave[l].status # "none" /\ Cleared(leave[l], l)
  BY <1>4, <1>7 DEF H!Request, H!Rollback, H!Begin
<1>8. ASSUME NEW s \in Sessions, H!Step(s) PROVE leave[l].status # "none" /\ Cleared(leave[l], l)
  <2>1. leave'[l] = leave[l] \/ (leave[l].status # "none" /\ Cleared(leave[l], l))  BY <1>8, ApprovalSteps
  <2> QED  BY <1>4, <2>1
<1> QED  BY <1>5, <1>6, <1>7, <1>8 DEF H!Next

(* Where leaves are granted by the requests that look at the workflow, so   *)
(* is a leave: what is paid or granted under approval was approved.         *)
THEOREM PaidAndGrantedApproved ==
  ASSUME StaffRows
  PROVE  H!Spec /\ [][GrantedByRequest]_H!vars => []PaidWasApproved
<1>1. H!Init => LeaveInv  BY DEF H!Init, LeaveInv
<1>2. /\ AdvanceInv /\ AdvanceInv' /\ ApprovalInv /\ LeaveInv
      /\ [H!Next]_H!vars /\ [GrantedByRequest]_H!vars
      => LeaveInv'
  BY LeaveNext
<1>3. H!Spec => []ApprovalInv
  <2>1. H!Init => ApprovalInv  BY ApprovalInit
  <2>2. AdvanceInv /\ AdvanceInv' /\ ApprovalInv /\ [H!Next]_H!vars => ApprovalInv'  BY ApprovalNext
  <2>3. H!Spec => []AdvanceInv  BY AdvancesKept
  <2> QED  BY <2>1, <2>2, <2>3, PTL DEF H!Spec
<1>4. H!Spec => []AdvanceInv  BY AdvancesKept
<1>6. ApprovalInv /\ LeaveInv => PaidWasApproved
  BY DEF ApprovalInv, LeaveInv, Cleared, Was, PaidWasApproved
<1> QED  BY <1>1, <1>2, <1>3, <1>4, <1>6, PTL DEF H!Spec

-----------------------------------------------------------------------------
(* A workflow is decided while its step is pending, and a step that was     *)
(* decided is pending no more.                                              *)
FlowOK(row) ==
  /\ row.status = "none" => row.step = "none"
  /\ row.step \in {"none", "PENDING"} => row.actions = {}
  /\ row.actions = {} \/ \E d \in H!Decisions : row.actions = {d}
DecidesOK(r, flows) ==
  r.op = "decide" => /\ flows[r.id].status # "none"
                     /\ r.stage = 1 => flows[r.id].step = "PENDING"

DecidedInv ==
  /\ \A x \in Approved : FlowOK(workflow[x])
  /\ \A a \in Advances : advance[a].status = "none" => workflow[a].status = "none"
  /\ \A l \in Leaves : leave[l].status = "none" => workflow[l].status = "none"
  /\ \A s \in Sessions : DecidesOK(hReq[s], workflow)

(* A step that a request is about to decide is not decided by another.      *)
DecidedAlone ==
  \A s \in Sessions : hReq'[s] = hReq[s] /\ hReq[s].op = "decide" /\ hReq[s].stage = 1 =>
    workflow'[hReq[s].id].step = workflow[hReq[s].id].step

LEMMA ApprovedIs == H!Approved = Approved
BY DEF H!Approved, Approved

LEMMA DecidedStep ==
  ASSUME AdvanceInv, DecidedInv, [DecidedAlone]_H!vars,
         \A x \in Approved : FlowOK(workflow'[x]) /\ (workflow[x].status # "none" => workflow'[x].status # "none"),
         \A a \in Advances : advance'[a].status = "none" => workflow'[a].status = "none",
         \A l \in Leaves : leave'[l].status = "none" => workflow'[l].status = "none",
         \A s \in Sessions : hReq'[s] # hReq[s] => DecidesOK(hReq'[s], workflow')
  PROVE  DecidedInv'
<1>1. ASSUME NEW s \in Sessions, hReq'[s] = hReq[s] PROVE DecidesOK(hReq'[s], workflow')
  <2>1. IdOK(hReq[s]) /\ DecidesOK(hReq[s], workflow)  BY DEF AdvanceInv, DecidedInv
  <2>2. CASE UNCHANGED H!vars  BY <1>1, <2>1, <2>2 DEF H!vars
  <2>3. CASE DecidedAlone  BY <1>1, <2>1, <2>3, ApprovedIs DEF DecidedAlone, DecidesOK, IdOK
  <2> QED  BY <2>2, <2>3
<1>2. \A s \in Sessions : DecidesOK(hReq'[s], workflow')  BY <1>1
<1> QED  BY <1>2 DEF DecidedInv

(* The workflows stay, and no advance or leave is withdrawn.                *)
LEMMA Undecided ==
  ASSUME AdvanceInv, DecidedInv, [DecidedAlone]_H!vars, UNCHANGED workflow,
         \A a \in Advances : advance'[a].status = "none" => advance[a].status = "none",
         \A l \in Leaves : leave'[l].status = "none" => leave[l].status = "none",
         \A s \in Sessions : hReq'[s] # hReq[s] => DecidesOK(hReq'[s], workflow)
  PROVE  DecidedInv'
<1>1. /\ \A x \in Approved : FlowOK(workflow'[x]) /\ (workflow[x].status # "none" => workflow'[x].status # "none")
      /\ \A a \in Advances : advance'[a].status = "none" => workflow'[a].status = "none"
      /\ \A l \in Leaves : leave'[l].status = "none" => workflow'[l].status = "none"
  BY DEF DecidedInv
<1> QED  BY <1>1, DecidedStep

LEMMA StartedRow ==
  ASSUME workflow \in [H!Approved -> H!Workflows], NEW x \in H!Approved, NEW approval \in BOOLEAN,
         workflow' = H!Started(x, approval), workflow[x].status = "none", FlowOK(workflow[x])
  PROVE  /\ \A y \in Approved \ {x} : workflow'[y] = workflow[y]
         /\ FlowOK(workflow'[x])
<1> DEFINE row == [workflow[x] EXCEPT !.status = "PENDING", !.step = "PENDING"]
<1>1. row.status = "PENDING" /\ row.step = "PENDING" /\ row.actions = workflow[x].actions
  BY DEF H!Workflows
<1>2. workflow[x].actions = {}  BY DEF FlowOK
<1>3. workflow' = IF approval THEN [workflow EXCEPT ![x] = row] ELSE workflow  BY DEF H!Started
<1> HIDE DEF row
<1>4. FlowOK(row)  BY <1>1, <1>2 DEF FlowOK
<1> QED  BY <1>3, <1>4, ApprovedIs

LEMMA DecidedStatements ==
  ASSUME StaffRows, AdvanceInv, ApprovalInv, DecidedInv, [DecidedAlone]_H!vars, NEW op, H!Statement(op)
  PROVE  DecidedInv'
<1>0. /\ leave \in [Leaves -> H!LeaveRows] /\ workflow \in [H!Approved -> H!Workflows]
      /\ advance \in [Advances -> H!AdvanceRows]
  BY DEF ApprovalInv, AdvanceInv, StaffTyped
<1>d. /\ \A x \in Approved : FlowOK(workflow[x])
      /\ \A a \in Advances : advance[a].status = "none" => workflow[a].status = "none"
      /\ \A l \in Leaves : leave[l].status = "none" => workflow[l].status = "none"
  BY DEF DecidedInv
<1>1. ASSUME UNCHANGED <<advance, leave, workflow, hReq>> PROVE DecidedInv'
  BY <1>1, Undecided
<1>2. ASSUME NEW a \in Advances, NEW e \in Employees, NEW amount \in 1..MaxAdvance, NEW approval \in BOOLEAN,
             NEW status \in H!AdvanceStatuses, H!CreateAdvance(a, e, amount, approval, status)
      PROVE  DecidedInv'
  <2>1. /\ advance[a].status = "none" /\ \A x \in Advances \ {a} : advance'[x] = advance[x]
        /\ advance'[a].status # "none"
        /\ workflow' = H!Started(a, approval) /\ UNCHANGED <<leave, cash, hReq>>
    BY <1>0, <1>2 DEF H!CreateAdvance, H!AdvanceStatuses, H!Decisions
  <2>2. a \in H!Approved /\ a \in Approved /\ a \notin Leaves  BY DEF H!Approved, Approved, StaffRows
  <2>3. /\ \A y \in Approved \ {a} : workflow'[y] = workflow[y]
        /\ FlowOK(workflow'[a])
    BY <1>0, <1>d, <2>1, <2>2, StartedRow
  <2>4. \A x \in Advances \cup Leaves : x \in Approved  BY DEF Approved
  <2> QED  BY <1>d, <2>1, <2>2, <2>3, <2>4, DecidedStep
<1>3. ASSUME NEW a \in Advances, NEW to \in H!Decisions, H!UpdateSalaryAdvanceStatus(a, to)
      PROVE  DecidedInv'
  <2>1. advance' = [advance EXCEPT ![a].status = to] /\ UNCHANGED <<leave, workflow, cash, hReq>>
    BY <1>3 DEF H!UpdateSalaryAdvanceStatus
  <2>2. \A x \in Advances : advance'[x].status = "none" => advance[x].status = "none"
    BY <1>0, <2>1 DEF H!AdvanceRows, H!Decisions
  <2> QED  BY <2>1, <2>2, Undecided
<1>4. ASSUME NEW l \in Leaves, NEW approval \in BOOLEAN, NEW status \in H!LeaveStatuses,
             H!CreateLeave(l, approval, status)
      PROVE  DecidedInv'
  <2>1. /\ leave[l].status = "none" /\ \A x \in Leaves \ {l} : leave'[x] = leave[x]
        /\ leave'[l].status # "none"
        /\ workflow' = H!Started(l, approval) /\ UNCHANGED <<advance, cash, hReq>>
    BY <1>0, <1>4 DEF H!CreateLeave, H!LeaveStatuses, H!Decisions
  <2>2. l \in H!Approved /\ l \in Approved /\ l \notin Advances  BY DEF H!Approved, Approved, StaffRows
  <2>3. /\ \A y \in Approved \ {l} : workflow'[y] = workflow[y]
        /\ FlowOK(workflow'[l])
    BY <1>0, <1>d, <2>1, <2>2, StartedRow
  <2>4. \A x \in Advances \cup Leaves : x \in Approved  BY DEF Approved
  <2> QED  BY <1>d, <2>1, <2>2, <2>3, <2>4, DecidedStep
<1>5. ASSUME NEW l \in Leaves, NEW to \in H!LeaveStatuses, H!WriteLeave(l, to)
      PROVE  DecidedInv'
  <2>1. /\ leave[l].status # "none" /\ leave' = [leave EXCEPT ![l].status = to]
        /\ UNCHANGED <<advance, workflow, cash, hReq>>
    BY <1>5 DEF H!WriteLeave
  <2>2. \A x \in Leaves : leave'[x].status = "none" => leave[x].status = "none"
    BY <1>0, <2>1 DEF H!LeaveRows, H!LeaveStatuses, H!Decisions
  <2> QED  BY <1>d, <2>1, <2>2, DecidedStep
<1>6. ASSUME NEW x \in H!Approved, H!CancelWorkflow(x) PROVE DecidedInv'
  <2>1. /\ workflow[x].status # "none" /\ workflow' = [workflow EXCEPT ![x].status = "CANCELLED"]
        /\ UNCHANGED <<advance, leave, cash, hReq>>
    BY <1>6 DEF H!CancelWorkflow
  <2> DEFINE row == [workflow[x] EXCEPT !.status = "CANCELLED"]
  <2>2. row.status = "CANCELLED" /\ row.step = workflow[x].step /\ row.actions = workflow[x].actions
    BY <1>0 DEF H!Workflows
  <2>3. \A y \in Approved : workflow'[y] = IF y = x THEN row ELSE workflow[y]  BY <1>0, <2>1, ApprovedIs
  <2> HIDE DEF row
  <2>4. FlowOK(row)  BY <1>d, <2>2, ApprovedIs DEF FlowOK
  <2>5. \A y \in Advances \cup Leaves : y \in Approved  BY DEF Approved
  <2> QED  BY <1>d, <2>1, <2>2, <2>3, <2>4, <2>5, DecidedStep
<1> QED
  <2>1. ASSUME NEW e, NEW amount, H!SetSalary(e, amount) PROVE DecidedInv'
    BY <1>1, <2>1 DEF H!SetSalary
  <2>2. ASSUME NEW some, H!ValidateAttendance(some) PROVE DecidedInv'
    BY <1>1, <2>2 DEF H!ValidateAttendance
  <2>3. ASSUME NEW e, H!ValidatePayroll(e) PROVE DecidedInv'
    BY <1>1, <2>3 DEF H!ValidatePayroll
  <2> QED  BY <1>2, <1>3, <1>4, <1>5, <1>6, <2>1, <2>2, <2>3 DEF H!Statement, H!LeaveStatuses, H!Decisions

LEMMA DecidedRequests ==
  ASSUME StaffRows, AdvanceInv, DecidedInv, [DecidedAlone]_H!vars, NEW s \in Sessions,
         H!Request(s) \/ H!Rollback(s)
  PROVE  DecidedInv'
<1>0. H!Idle \in StaffRequests /\ H!Idle.stage = 0 /\ H!Idle.op = "none" /\ StaffTyped
  <2>1. H!Idle.stage = 0  BY DEF H!Idle
  <2> QED  BY <2>1, StaffIdle DEF AdvanceInv
<1>c. ASSUME NEW r \in StaffRequests, r.op = "decide" => r.stage = 0 /\ workflow[r.id].status # "none",
             H!Continue(s, r), UNCHANGED <<advance, leave, workflow>>
      PROVE  DecidedInv'
  <2>1. DecidesOK(r, workflow)  BY <1>c DEF DecidesOK
  <2>2. \A t \in Sessions : hReq'[t] # hReq[t] => hReq'[t] = r  BY <1>0, <1>c, ContinueTo
  <2> QED  BY <1>c, <2>1, <2>2, Undecided
<1>1. ASSUME NEW r \in StaffRequests, r.op = "decide" => r.stage = 0 /\ workflow[r.id].status # "none",
             H!Begin(s, r)
      PROVE  DecidedInv'
  BY <1>1, <1>c DEF H!Begin
<1>2. ASSUME NEW a \in Advances, H!Begin(s, [H!Idle EXCEPT !.op = "payAdvance", !.id = a])
      PROVE  DecidedInv'
  <2> DEFINE r == [H!Idle EXCEPT !.op = "payAdvance", !.id = a]
  <2>1. r \in StaffRequests /\ r.op = "payAdvance"  BY <1>0 DEF StaffRequests, H!AllEndpoints, H!Approved
  <2>2. H!Begin(s, r)  BY <1>2
  <2> HIDE DEF r
  <2> QED  BY <1>1, <2>1, <2>2
<1>3. ASSUME NEW l \in Leaves, H!Begin(s, [H!Idle EXCEPT !.op = "approveLeave", !.id = l])
      PROVE  DecidedInv'
  <2> DEFINE r == [H!Idle EXCEPT !.op = "approveLeave", !.id = l]
  <2>1. r \in StaffRequests /\ r.op = "approveLeave"  BY <1>0 DEF StaffRequests, H!AllEndpoints, H!Approved
  <2>2. H!Begin(s, r)  BY <1>3
  <2> HIDE DEF r
  <2> QED  BY <1>1, <2>1, <2>2
<1>4. ASSUME NEW x \in H!Approved, NEW to \in H!Decisions, workflow[x].status # "none",
             H!Begin(s, [H!Idle EXCEPT !.op = "decide", !.id = x, !.to = to])
      PROVE  DecidedInv'
  <2> DEFINE r == [H!Idle EXCEPT !.op = "decide", !.id = x, !.to = to]
  <2>1. r \in StaffRequests /\ r.id = x /\ r.stage = 0  BY <1>0 DEF StaffRequests, H!AllEndpoints
  <2>2. H!Begin(s, r)  BY <1>4
  <2> HIDE DEF r
  <2> QED  BY <1>1, <1>4, <2>1, <2>2
<1>5. ASSUME NEW e \in Employees, NEW halves \in H!Halves, NEW to \in {"DRAFT", "VALIDATED"},
             H!Begin(s, [H!Idle EXCEPT !.op = "attend", !.id = e, !.halves = halves, !.to = to])
      PROVE  DecidedInv'
  <2> DEFINE r == [H!Idle EXCEPT !.op = "attend", !.id = e, !.halves = halves, !.to = to]
  <2>1. r \in StaffRequests /\ r.op = "attend"  BY <1>0 DEF StaffRequests, H!AllEndpoints, H!Halves, H!PayrollStatuses
  <2>2. H!Begin(s, r)  BY <1>5
  <2> HIDE DEF r
  <2> QED  BY <1>1, <2>1, <2>2
<1>6. ASSUME NEW e \in Employees \cup {0}, NEW to \in H!PayrollStatuses, NEW bonus \in Bonuses,
             H!Begin(s, [H!Idle EXCEPT !.op = "generate", !.id = e, !.to = to, !.amount = bonus])
      PROVE  DecidedInv'
  <2> DEFINE r == [H!Idle EXCEPT !.op = "generate", !.id = e, !.to = to, !.amount = bonus]
  <2>0. bonus \in Int  BY DEF StaffRows
  <2>1. r \in StaffRequests /\ r.op = "generate"  BY <1>0, <2>0 DEF StaffRequests, H!AllEndpoints
  <2>2. H!Begin(s, r)  BY <1>6
  <2> HIDE DEF r
  <2> QED  BY <1>1, <2>1, <2>2
<1>7. ASSUME NEW e \in Employees, H!Begin(s, [H!Idle EXCEPT !.op = "pay", !.id = e]) PROVE DecidedInv'
  <2> DEFINE r == [H!Idle EXCEPT !.op = "pay", !.id = e]
  <2>1. r \in StaffRequests /\ r.op = "pay"  BY <1>0 DEF StaffRequests, H!AllEndpoints
  <2>2. H!Begin(s, r)  BY <1>7
  <2> HIDE DEF r
  <2> QED  BY <1>1, <2>1, <2>2
<1>8. CASE H!Rollback(s)
  <2>1. H!Continue(s, H!Idle) /\ UNCHANGED <<advance, leave, workflow>>  BY <1>8 DEF H!Rollback, H!Finish
  <2> QED  BY <1>0, <1>c, <2>1
<1> QED  BY <1>2, <1>3, <1>4, <1>5, <1>6, <1>7, <1>8 DEF H!Request

LEMMA DecidedSteps ==
  ASSUME StaffRows, AdvanceInv, ApprovalInv, DecidedInv, [DecidedAlone]_H!vars, NEW s \in Sessions, H!Step(s)
  PROVE  DecidedInv'
<1> DEFINE q == hReq[s]
<1>0. /\ leave \in [Leaves -> H!LeaveRows] /\ workflow \in [H!Approved -> H!Workflows]
      /\ advance \in [Advances -> H!AdvanceRows]
  BY DEF ApprovalInv, AdvanceInv, StaffTyped
<1>q. q \in StaffRequests /\ StaffTyped /\ IdOK(q) /\ DecidesOK(q, workflow)  BY Doing DEF DecidedInv
<1>d. /\ \A x \in Approved : FlowOK(workflow[x])
      /\ \A a \in Advances : advance[a].status = "none" => workflow[a].status = "none"
      /\ \A l \in Leaves : leave[l].status = "none" => workflow[l].status = "none"
  BY DEF DecidedInv
<1>i. H!Idle \in StaffRequests /\ H!Idle.op = "none"  BY StaffIdle
<1> HIDE DEF q
<1>g. ASSUME UNCHANGED workflow, NEW r, DecidesOK(r, workflow), H!Continue(s, r),
             \A a \in Advances : advance'[a].status = "none" => advance[a].status = "none",
             \A l \in Leaves : leave'[l].status = "none" => leave[l].status = "none"
      PROVE  DecidedInv'
  <2>1. \A t \in Sessions : hReq'[t] # hReq[t] => hReq'[t] = r  BY <1>g, <1>q DEF H!Continue, StaffTyped
  <2> QED  BY <1>g, <2>1, Undecided
<1>o. ASSUME UNCHANGED <<advance, leave, workflow>>, NEW r, r.op \in {q.op, "none"}, q.op # "decide", H!Continue(s, r)
      PROVE  DecidedInv'
  <2>1. DecidesOK(r, workflow)  BY <1>o DEF DecidesOK
  <2> QED  BY <1>o, <1>g, <2>1
<1>s. ASSUME UNCHANGED <<advance, leave, workflow>>, q.op # "decide", NEW stage, H!Continue(s, [q EXCEPT !.stage = stage])
      PROVE  DecidedInv'
  <2> DEFINE r == [q EXCEPT !.stage = stage]
  <2>1. r.op = q.op  BY <1>q, SameRequest
  <2>2. H!Continue(s, r)  BY <1>s
  <2> HIDE DEF r
  <2> QED  BY <1>o, <1>s, <2>1, <2>2
<1>1. CASE H!ReadAdvance(s)
  <2> DEFINE r == Priced(q, advance[q.id].amount)
  <2>1. q.op = "payAdvance" /\ H!Continue(s, r) /\ UNCHANGED <<advance, leave, workflow>>
    BY <1>1 DEF H!ReadAdvance, H!At, q, Priced
  <2>2. r.op = q.op  BY <1>q, SameRequest
  <2> HIDE DEF r
  <2> QED  BY <1>o, <2>1, <2>2
<1>2. CASE H!CheckAdvance(s)  BY <1>2, <1>s DEF H!CheckAdvance, H!At, q
<1>3. CASE H!PayAdvance(s)
  <2>1. /\ advance' = [advance EXCEPT ![q.id].status = "PAID"]
        /\ H!Continue(s, H!Idle) /\ UNCHANGED <<leave, workflow>>
    BY <1>3 DEF H!PayAdvance, H!Finish, q
  <2>2. \A a \in Advances : advance'[a].status = "none" => advance[a].status = "none"
    BY <1>0, <2>1 DEF H!AdvanceRows
  <2>3. DecidesOK(H!Idle, workflow)  BY <1>i DEF DecidesOK
  <2> QED  BY <1>g, <2>1, <2>2, <2>3
<1>4. CASE H!CheckLeave(s)  BY <1>4, <1>s DEF H!CheckLeave, H!At, q
<1>5. CASE H!ApproveLeave(s)
  <2>1. /\ leave' = [leave EXCEPT ![q.id].status = "APPROVED"]
        /\ H!Continue(s, H!Idle) /\ UNCHANGED <<advance, workflow>>
    BY <1>5 DEF H!ApproveLeave, H!Finish, q
  <2>2. \A l \in Leaves : leave'[l].status = "none" => leave[l].status = "none"
    BY <1>0, <2>1 DEF H!LeaveRows
  <2>3. DecidesOK(H!Idle, workflow)  BY <1>i DEF DecidesOK
  <2> QED  BY <1>g, <2>1, <2>2, <2>3
<1>6. CASE H!ReadStep(s)
  <2> DEFINE r == [q EXCEPT !.stage = 1]
  <2>1. /\ workflow[q.id].status = "PENDING" /\ workflow[q.id].step = "PENDING"
        /\ H!Continue(s, r) /\ UNCHANGED <<advance, leave, workflow>>
    BY <1>6 DEF H!ReadStep, H!StepCanAct, H!At, q
  <2>2. r.id = q.id  BY <1>q DEF StaffRequests
  <2> HIDE DEF r
  <2>3. DecidesOK(r, workflow)  BY <2>1, <2>2 DEF DecidesOK
  <2> QED  BY <1>g, <2>1, <2>3
<1>7. CASE H!Decide(s)
  <2> DEFINE row == [status  |-> q.to,
                     step    |-> IF workflow[q.id].step = "PENDING" THEN q.to ELSE workflow[q.id].step,
                     actions |-> workflow[q.id].actions \cup {q.to}]
  <2>1. q.id \in Approved /\ q.to \in H!Decisions /\ workflow[q.id].step = "PENDING" /\ workflow[q.id].status # "none"
    BY <1>7, <1>q, ApprovedIs DEF H!Decide, H!At, q, IdOK, DecidesOK
  <2>2. /\ workflow' = [workflow EXCEPT ![q.id] = row]
        /\ H!Continue(s, H!Idle) /\ UNCHANGED <<advance, leave>>
    BY <1>7 DEF H!Decide, H!Finish, q
  <2>3. row.status = q.to /\ row.step = q.to /\ row.actions = {q.to}  BY <1>d, <2>1 DEF FlowOK
  <2> HIDE DEF row
  <2>4. FlowOK(row) /\ row.status # "none"  BY <2>1, <2>3 DEF FlowOK, H!Decisions
  <2>5. \A x \in Approved : workflow'[x] = IF x = q.id THEN row ELSE workflow[x]  BY <1>0, <2>1, <2>2, ApprovedIs
  <2>6. \A x \in Approved : FlowOK(workflow'[x]) /\ (workflow[x].status # "none" => workflow'[x].status # "none")
    BY <1>d, <2>4, <2>5
  <2>7. \A x \in Approved : workflow[x].status = "none" => workflow'[x].status = "none"
    BY <2>1, <2>5
  <2>8. \A t \in Sessions : hReq'[t] # hReq[t] => DecidesOK(hReq'[t], workflow')
    <3>1. \A t \in Sessions : hReq'[t] # hReq[t] => hReq'[t] = H!Idle  BY <1>i, <1>q, <2>2, ContinueTo
    <3> QED  BY <1>i, <3>1 DEF DecidesOK
  <2>9. \A x \in Advances \cup Leaves : x \in Approved  BY DEF Approved
  <2> QED  BY <1>d, <2>2, <2>6, <2>7, <2>8, <2>9, DecidedStep
<1>8. CASE H!ReadAttendance(s)
  <2> DEFINE r == Priced(q, (salary[q.id] * q.halves) \div 2)
  <2>1. q.op = "attend" /\ H!Continue(s, r) /\ UNCHANGED <<advance, leave, workflow>>
    BY <1>8 DEF H!ReadAttendance, H!At, q, Priced
  <2>2. r.op = q.op  BY <1>q, SameRequest
  <2> HIDE DEF r
  <2> QED  BY <1>o, <2>1, <2>2
<1>9. CASE H!WriteAttendance(s) \/ H!CommitPayrolls(s) \/ H!PayPayroll(s)
  BY <1>9, <1>i, <1>o DEF H!WriteAttendance, H!CommitPayrolls, H!PayPayroll, H!Finish, H!At, q
<1>11. CASE H!ReadEntries(s)
  <2> DEFINE valid == {e \in Employees : attendance[e].status = "VALIDATED" /\ q.id \in {0, e}}
             r == Opened(q, valid, attendance, salary)
  <2>1. q.op = "generate" /\ H!Continue(s, r) /\ UNCHANGED <<advance, leave, workflow>>
    BY <1>11 DEF H!ReadEntries, H!At, q, Opened
  <2>2. r.op = q.op  BY <1>q, SameRequest
  <2> HIDE DEF r
  <2> QED  BY <1>o, <2>1, <2>2
<1>12. CASE H!ReadPayroll(s)
  <2> DEFINE r == IF H!Kept(H!Entry(s)) THEN [q EXCEPT !.todo = @ \ {H!Entry(s)}] ELSE [q EXCEPT !.stage = 2]
  <2>1. q.op = "generate" /\ H!Continue(s, r) /\ UNCHANGED <<advance, leave, workflow>>
    BY <1>12 DEF H!ReadPayroll, H!At, q
  <2>2. r.op = q.op  BY <1>q, SameRequest
  <2> HIDE DEF r
  <2> QED  BY <1>o, <2>1, <2>2
<1>13. CASE H!ReadAdvances(s)
  <2> DEFINE r == Totalled(q, H!AdvanceTotal(H!Entry(s)))
  <2>1. q.op = "generate" /\ H!Continue(s, r) /\ UNCHANGED <<advance, leave, workflow>>
    BY <1>13 DEF H!ReadAdvances, H!At, q, Totalled
  <2>2. r.op = q.op  BY <1>q, SameRequest
  <2> HIDE DEF r
  <2> QED  BY <1>o, <2>1, <2>2
<1>14. CASE H!WritePayroll(s)
  <2> DEFINE e == H!Entry(s)
             pend == [q.pending EXCEPT ![e] = H!Generated(q, e, payroll[e])]
             r == Computed(q, q.todo \ {e}, pend)
  <2>1. q.op = "generate" /\ H!Continue(s, r) /\ UNCHANGED <<advance, leave, workflow>>
    BY <1>14 DEF H!WritePayroll, H!At, q, Computed
  <2>2. r.op = q.op  BY <1>q, SameRequest
  <2> HIDE DEF r
  <2> QED  BY <1>o, <2>1, <2>2
<1>15. CASE H!ReadForPayment(s)
  <2> DEFINE r == Priced(q, payroll[q.id].net)
  <2>1. q.op = "pay" /\ H!Continue(s, r) /\ UNCHANGED <<advance, leave, workflow>>
    BY <1>15 DEF H!ReadForPayment, H!At, q, Priced
  <2>2. r.op = q.op  BY <1>q, SameRequest
  <2> HIDE DEF r
  <2> QED  BY <1>o, <2>1, <2>2
<1> QED
  BY <1>1, <1>2, <1>3, <1>4, <1>5, <1>6, <1>7, <1>8, <1>9, <1>11, <1>12, <1>13, <1>14, <1>15 DEF H!Step

(* Where, besides, nobody decides a step that another is about to decide,   *)
(* no workflow is decided the other way: all decisions hold.                *)
THEOREM DecisionsAreHeld ==
  ASSUME StaffRows
  PROVE  H!Spec /\ [][GrantedByRequest /\ DecidedAlone]_H!vars => []DecisionsHold
<1>1. H!Init => DecidedInv
  <2> SUFFICES ASSUME H!Init PROVE DecidedInv  OBVIOUS
  <2>1. \A x \in Approved : /\ workflow[x].status = "none" /\ workflow[x].step = "none"
                            /\ workflow[x].actions = {}
    BY ApprovedIs DEF H!Init
  <2>2. \A s \in Sessions : hReq[s].op = "none"  BY StaffIdle DEF H!Init
  <2>3. \A x \in Advances \cup Leaves : x \in Approved  BY DEF Approved
  <2> QED  BY <2>1, <2>2, <2>3 DEF DecidedInv, FlowOK, DecidesOK
<1>2. AdvanceInv /\ ApprovalInv /\ DecidedInv /\ [H!Next]_H!vars /\ [GrantedByRequest /\ DecidedAlone]_H!vars
      => DecidedInv'
  <2> SUFFICES ASSUME AdvanceInv, ApprovalInv, DecidedInv, [H!Next]_H!vars, [DecidedAlone]_H!vars PROVE DecidedInv'
    OBVIOUS
  <2>1. CASE UNCHANGED H!vars
    <3>1. UNCHANGED <<advance, leave, workflow, hReq>>  BY <2>1 DEF H!vars
    <3> QED  BY <3>1, Undecided
  <2>2. CASE H!Next
    BY <2>2, DecidedStatements, DecidedRequests, DecidedSteps DEF H!Next
  <2> QED  BY <2>1, <2>2
<1>3. H!Spec => []AdvanceInv  BY AdvancesKept
<1>4. H!Spec => []ApprovalInv
  <2>1. H!Init => ApprovalInv  BY ApprovalInit
  <2>2. AdvanceInv /\ AdvanceInv' /\ ApprovalInv /\ [H!Next]_H!vars => ApprovalInv'  BY ApprovalNext
  <2>3. H!Spec => []AdvanceInv  BY AdvancesKept
  <2> QED  BY <2>1, <2>2, <2>3, PTL DEF H!Spec
<1>5. H!Spec /\ [][GrantedByRequest]_H!vars => []PaidWasApproved  BY PaidAndGrantedApproved
<1>6. [GrantedByRequest /\ DecidedAlone]_H!vars => [GrantedByRequest]_H!vars  OBVIOUS
<1>7. DecidedInv /\ PaidWasApproved => DecisionsHold
  <2> SUFFICES ASSUME DecidedInv, NEW x \in Approved PROVE Cardinality(workflow[x].actions) <= 1
    BY DEF DecisionsHold, DecidedOnce
  <2>1. workflow[x].actions = {} \/ \E d \in H!Decisions : workflow[x].actions = {d}  BY DEF DecidedInv, FlowOK
  <2>2. Cardinality({}) = 0  BY FS_EmptySet
  <2>3. \A d : Cardinality({d}) = 1  BY FS_Singleton
  <2> QED  BY <2>1, <2>2, <2>3
<1> QED  BY <1>1, <1>2, <1>3, <1>4, <1>5, <1>6, <1>7, PTL DEF H!Spec
=============================================================================

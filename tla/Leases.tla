-------------------------------- MODULE Leases --------------------------------
(***************************************************************************)
(* The leases of saas.service.ts and the units of one building: creation,  *)
(* edition, activation, termination, the trash, the archive, and the        *)
(* status of the units that follows.  A unit can be let on its own, and     *)
(* the whole building through a contractual unit.                           *)
(*                                                                         *)
(* No request locks the unit before it looks for an incompatible lease;     *)
(* only the index leases_one_active_per_unit stands behind the check.       *)
(***************************************************************************)
EXTENDS Integers, FiniteSets

CONSTANTS
  Sessions,   \* concurrent requests
  LeaseIds,   \* rows of leases
  Units,      \* the physical units of the building
  Whole,      \* its contractual unit, is_building_wide
  Horizon,    \* bound: the last day of the calendar
  Today,      \* CURRENT_DATE
  Endpoints   \* which endpoints the clients call

AllEndpoints ==
  {"create", "edit", "activate", "terminate", "trash", "restore", "archive", "purge", "delete"}

ASSUME UnitsAssumption     == Whole \notin Units
ASSUME DaysAssumption      == Horizon \in Nat /\ Today \in 1..Horizon
ASSUME EndpointsAssumption == Endpoints \subseteq AllEndpoints

VARIABLES
  lease,  \* rows of leases
  unit,   \* status of the rows of units; the contractual one is made on demand
  req     \* the transaction each session is running

vars == <<lease, unit, req>>

Spaces  == Units \cup {Whole}
NoEnd   == Horizon + 1
States  == {"none", "DRAFT", "ACTIVE", "TERMINATED"}
Rows ==
  [state: States, unit: Spaces, start: 1..Horizon, end: 1..NoEnd, deleted: BOOLEAN, archived: BOOLEAN]
Locks ==
  {<<"number">>, <<"building">>} \cup ({"lease"} \X LeaseIds)
    \cup ({"unit"} \X Spaces) \cup ({"active"} \X Spaces)
Requests ==
  [op: AllEndpoints \cup {"none"}, stage: 0..4, id: LeaseIds \cup {0}, row: Rows, read: Rows,
   own: {"none", "VACANT", "OCCUPIED"}, seen: SUBSET LeaseIds, held: SUBSET Locks]

NoLease ==
  [state |-> "none", unit |-> Whole, start |-> 1, end |-> NoEnd, deleted |-> FALSE, archived |-> FALSE]
Idle ==
  [op |-> "none", stage |-> 0, id |-> 0, row |-> NoLease, read |-> NoLease, own |-> "none",
   seen |-> {}, held |-> {}]

TypeOK ==
  /\ lease \in [LeaseIds -> Rows]
  /\ unit \in [Spaces -> {"none", "VACANT", "OCCUPIED"}]
  /\ req \in [Sessions -> Requests]

Init ==
  /\ lease = [l \in LeaseIds |-> NoLease]
  /\ unit = [u \in Spaces |-> IF u = Whole THEN "none" ELSE "VACANT"]
  /\ req = [s \in Sessions |-> Idle]

-----------------------------------------------------------------------------
Current(row)  == row.state # "none" /\ ~row.deleted /\ ~row.archived
Let(row)      == row.state = "ACTIVE" /\ Current(row)
Covers(row, u) == row.unit \in {u, Whole}
Overlap(a, b) == a.start <= b.end /\ b.start <= a.end

(* Variant of Incompatible: leases of the same unit alone.                  *)
IncompatibleSameUnit(a, b) == a.unit = b.unit /\ Overlap(a, b)

(* ensureNoLeaseConflict: the same unit, or the building on either side.    *)
Incompatible(a, b) == (Covers(a, b.unit) \/ Covers(b, a.unit)) /\ Overlap(a, b)

(* Variant of Occupies: the key of the index is not looked at.              *)
OccupiesNothing(row) == FALSE

(* The rows of leases_one_active_per_unit, those of the archive included.   *)
Occupies(row) == row.state = "ACTIVE" /\ ~row.deleted

(* Variant of Terminated: an open end stays before the calendar.            *)
TerminatedAtZero(row) == [row EXCEPT !.state = "TERMINATED", !.end = IF @ = NoEnd THEN 0 ELSE @]

(* terminateLease: end_date = COALESCE(end_date, CURRENT_DATE).             *)
Terminated(row) == [row EXCEPT !.state = "TERMINATED", !.end = IF @ = NoEnd THEN Today ELSE @]

(* The row as the UPDATE of a request leaves it.  updateLease writes every  *)
(* column again, from what it read before its transaction.  A lease that    *)
(* something else names is archived by permanentlyDeleteLease, not purged.  *)
Written(r) ==
  LET row == lease[r.id]
  IN CASE r.op = "create"    -> r.row
       [] r.op = "edit"      -> IF row.deleted \/ row.state = "none" THEN row
                                ELSE [r.row EXCEPT !.archived = row.archived]
       [] r.op = "activate"  -> [row EXCEPT !.state = "ACTIVE"]
       [] r.op = "terminate" -> Terminated(row)
       [] r.op = "trash"     -> [row EXCEPT !.deleted = TRUE]
       [] r.op = "delete"    -> [row EXCEPT !.deleted = TRUE]
       [] r.op = "restore"   -> [row EXCEPT !.deleted = FALSE]
       [] r.op = "archive"   -> [row EXCEPT !.deleted = FALSE, !.archived = TRUE]
       [] r.op = "purge"     -> NoLease
       [] OTHER              -> row

(* What the request does to its unit before it refreshes the building.      *)
Occupying(r) ==
  \/ r.op = "create" /\ r.row.state = "ACTIVE"
  \/ r.op = "activate"
  \/ r.op = "restore" /\ r.read.state = "ACTIVE"
Freeing(r) ==
  \/ r.op \in {"terminate", "delete", "purge"}
  \/ r.op = "trash" /\ r.read.state = "ACTIVE"

(* Variant of Refreshes: the termination looks at its own unit only.        *)
RefreshesNot(r) == FALSE

(* deleteLease and permanentlyDeleteLease do not refresh the building.      *)
Refreshes(r) == Occupying(r) \/ (Freeing(r) /\ r.op \in {"terminate", "trash"})

Target(r) == IF r.op = "create" THEN r.row.unit ELSE r.read.unit

-----------------------------------------------------------------------------
(* What the next statement of a request waits for: the numbering of leases, *)
(* the creation of the contractual unit, the row of the lease and the key   *)
(* of the index; then the rows of the units of the building.                *)
Wanted(r) ==
  CASE r.op = "create" /\ r.stage = 0 -> IF r.row.unit = Whole THEN {<<"building">>} ELSE {}
    [] r.stage = 2 -> {<<"lease", r.id>>} \cup (IF r.op = "create" THEN {<<"number">>} ELSE {})
                        \cup (IF Occupies(Written(r)) THEN {<<"active", Written(r).unit>>} ELSE {})
    [] r.stage = 4 -> IF Refreshes(r) THEN {"unit"} \X Spaces
                      ELSE IF r.own # "none" THEN {<<"unit", Target(r)>>} ELSE {}
    [] OTHER -> {}

Free(s, locks) == \A t \in Sessions \ {s} : req[t].held \cap locks = {}
Runs(s, stage) == req[s].op # "none" /\ req[s].stage = stage /\ Free(s, Wanted(req[s]))
Continue(s, next) ==
  /\ req' = [req EXCEPT ![s] = [next EXCEPT !.held = @ \cup Wanted(req[s])]]
  /\ UNCHANGED <<lease, unit>>

(* The guards on the lease that was read.                                   *)
Admissible(r, row) ==
  CASE r.op \in {"edit", "activate", "terminate", "trash"} -> Current(row)
    [] r.op = "delete" -> Current(row) /\ row.state = "DRAFT"
    [] r.op \in {"restore", "archive", "purge"} -> row.deleted /\ ~row.archived
    [] OTHER -> TRUE

(* An edit names what it changes; the rest is taken from the row read.      *)
Merged(r, row) ==
  IF r.op = "edit" THEN [row EXCEPT !.state = r.row.state, !.unit = r.row.unit] ELSE r.row

ReadLease(s) ==
  LET r == req[s]
  IN /\ Runs(s, 0)
     /\ r.op = "create" \/ Admissible(r, lease[r.id])
     /\ IF r.op = "create" THEN Continue(s, [r EXCEPT !.stage = 1])
        ELSE Continue(s, [r EXCEPT !.stage = 1, !.read = lease[r.id], !.row = Merged(r, lease[r.id])])

(* The lease whose period is compared with those of the others.             *)
Checked(r) ==
  CASE r.op \in {"create", "edit"} -> r.row
    [] OTHER -> r.read
MustBeFree(r) ==
  \/ r.op = "activate"
  \/ r.op \in {"create", "edit"} /\ r.row.state = "ACTIVE"
  \/ r.op = "restore" /\ r.read.state = "ACTIVE"

CheckConflict(s) ==
  LET r == req[s]
  IN /\ Runs(s, 1)
     /\ MustBeFree(r) =>
          \A l \in LeaseIds \ {r.id} : Let(lease[l]) => ~Incompatible(Checked(r), lease[l])
     /\ Continue(s, [r EXCEPT !.stage = 2])

(* The UPDATE or INSERT of the lease, which the index may refuse, and what  *)
(* the statement on its unit finds.                                         *)
WriteLease(s) ==
  LET r == req[s]
      row == Written(r)
      alone == \A l \in LeaseIds \ {r.id} : ~(Let(lease[l]) /\ lease[l].unit = Target(r))
  IN /\ Runs(s, 2)
     /\ r.op = "create" => lease[r.id].state = "none"
     /\ Occupies(row) =>
          \A l \in LeaseIds \ {r.id} : ~(Occupies(lease[l]) /\ lease[l].unit = row.unit)
     /\ Continue(s, [r EXCEPT !.stage = 3, !.row = row,
          !.own = IF Occupying(r) THEN "OCCUPIED" ELSE IF Freeing(r) /\ alone THEN "VACANT" ELSE "none"])

(* The leases that the refresh of the building finds, its own included.     *)
ReadBuilding(s) ==
  LET r == req[s]
      own == {u \in {Target(r)} : r.own # "none"}
      mine == IF r.own = "OCCUPIED" /\ Target(r) = Whole THEN Spaces ELSE own
  IN /\ Runs(s, 3)
     /\ Free(s, {"unit"} \X mine)
     /\ req' = [req EXCEPT ![s] =
          [r EXCEPT !.stage = 4, !.held = @ \cup ({"unit"} \X mine),
                    !.seen = {l \in LeaseIds : Let(IF l = r.id THEN r.row ELSE lease[l])}]]
     /\ UNCHANGED <<lease, unit>>

(* refreshBuildingLeaseOccupancy                                            *)
Refreshed(r, before) ==
  [u \in Spaces |->
    IF before[u] = "none" THEN "none"
    ELSE IF \E l \in r.seen : Covers(IF l = r.id THEN r.row ELSE lease[l], u) THEN "OCCUPIED"
    ELSE "VACANT"]

Commit(s) ==
  LET r == req[s]
      made == [unit EXCEPT ![Target(r)] = IF @ = "none" THEN "VACANT" ELSE @]
      own  == IF r.own = "none" THEN made ELSE [made EXCEPT ![Target(r)] = r.own]
  IN /\ Runs(s, 4)
     /\ lease' = [lease EXCEPT ![r.id] = r.row]
     /\ unit' = IF Refreshes(r) THEN Refreshed(r, own) ELSE own
     /\ req' = [req EXCEPT ![s] = Idle]

-----------------------------------------------------------------------------
Begin(s, request) ==
  /\ request.op \in Endpoints /\ req[s] = Idle
  /\ req' = [req EXCEPT ![s] = request]
  /\ UNCHANGED <<lease, unit>>

Request(s) ==
  \/ \E l \in LeaseIds, u \in Spaces, start \in 1..Horizon, end \in 1..NoEnd, state \in {"DRAFT", "ACTIVE"} :
       /\ lease[l].state = "none" /\ start <= end
       /\ Begin(s, [Idle EXCEPT !.op = "create", !.id = l,
            !.row = [NoLease EXCEPT !.state = state, !.unit = u, !.start = start, !.end = end]])
  \/ \E l \in LeaseIds, u \in Spaces, state \in States \ {"none"} :
       /\ Current(lease[l]) /\ unit[u] # "none"
       /\ Begin(s, [Idle EXCEPT !.op = "edit", !.id = l,
            !.row = [NoLease EXCEPT !.state = state, !.unit = u]])
  \/ \E l \in LeaseIds, op \in Endpoints \ {"create", "edit"} :
       lease[l].state # "none" /\ Begin(s, [Idle EXCEPT !.op = op, !.id = l])

(* A refusal, a deadlock, a lost connection: ROLLBACK.                      *)
Rollback(s) ==
  /\ req[s] # Idle
  /\ req' = [req EXCEPT ![s] = Idle]
  /\ UNCHANGED <<lease, unit>>

Next ==
  \E s \in Sessions :
    \/ Request(s) \/ ReadLease(s) \/ CheckConflict(s) \/ WriteLease(s) \/ ReadBuilding(s)
    \/ Commit(s) \/ Rollback(s)

Spec == Init /\ [][Next]_vars

-----------------------------------------------------------------------------
(* Properties.                                                              *)

(* Two leases in force never claim the same unit, however their activations *)
(* interleave (docs/architecture.md:97).                                    *)
OneActivePerUnit ==
  \A l, m \in LeaseIds : l # m /\ Let(lease[l]) /\ Let(lease[m]) => lease[l].unit # lease[m].unit

(* Two leases in force never overlap, on a unit or through the building,    *)
(* after any sequence of creations, edits and restorations.                 *)
NoConflict ==
  \A l, m \in LeaseIds, u \in Units :
    (l # m /\ Let(lease[l]) /\ Let(lease[m]) /\ Covers(lease[l], u) /\ Covers(lease[m], u))
      => ~Overlap(lease[l], lease[m])

(* A unit is occupied as long as a lease in force covers it, and free       *)
(* otherwise (docs/architecture.md:95-96).                                  *)
OccupiedIffLet ==
  \A u \in Units : unit[u] = "OCCUPIED" <=> \E l \in LeaseIds : Let(lease[l]) /\ Covers(lease[l], u)
=============================================================================

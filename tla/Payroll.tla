-------------------------------- MODULE Payroll --------------------------------
(***************************************************************************)
(* The staff of saas.service.ts over one month: advances on salary, leaves, *)
(* the workflows that approve them, attendance, and the payroll that is     *)
(* generated from it, validated and paid from the cash desk.                *)
(*                                                                         *)
(* No request locks what it reads.  The requests of one statement are one   *)
(* step; the others read, and then write.                                   *)
(***************************************************************************)
EXTENDS PayrollBooks, FiniteSetsExt

CONSTANTS
  Sessions,   \* concurrent requests
  Salaries,   \* what an employee may earn in a month
  Bonuses,    \* bonus and overtime a payroll may be generated with
  MaxAdvance, \* bound: the amount of an advance
  MaxPaid,    \* bound: how often one row is paid
  Endpoints   \* which endpoints the clients call

AllEndpoints ==
  {"salary", "advance", "setAdvance", "payAdvance", "leave", "editLeave", "approveLeave", "setLeave",
   "decide", "cancel", "attend", "validateAttendance", "generate", "validatePayroll", "pay"}

(* An absence is unpaid for half of the working days, or for all of them.   *)
Halves == 0..2

VARIABLES
  salary,      \* monthly_salary and the allowances of the employees
  req          \* the transaction each session is running

vars == <<salary, advance, leave, workflow, attendance, payroll, cash, req>>

Decisions       == {"APPROVED", "REJECTED"}
AdvanceStatuses == {"DRAFT", "PENDING", "PAID"} \cup Decisions
LeaveStatuses   == {"DRAFT", "PENDING", "CANCELLED"} \cup Decisions
PayrollStatuses == {"DRAFT", "VALIDATED", "PAID"}
Most       == MapThenSumSet(LAMBDA a : MaxAdvance, Advances)
PayAmounts == UNION {0..m + b : m \in Salaries, b \in Bonuses}
AdvanceRows ==
  [status: {"none"} \cup AdvanceStatuses, employee: Employees \cup {0},
   amount: 0..MaxAdvance, approval: BOOLEAN, recorded: BOOLEAN]
LeaveRows == [status: {"none"} \cup LeaveStatuses, approval: BOOLEAN]
Workflows ==
  [status: {"none", "PENDING", "CANCELLED"} \cup Decisions, step: {"none", "PENDING"} \cup Decisions,
   actions: SUBSET Decisions]
AttendanceRows == [status: {"none", "DRAFT", "VALIDATED"}, deduction: PayAmounts]
PayrollRows ==
  [status: {"none"} \cup PayrollStatuses, advances: 0..Most, deduction: PayAmounts, net: PayAmounts,
   recorded: BOOLEAN]
Requests ==
  [op: AllEndpoints \cup {"none"}, stage: 0..3, id: Approved \cup Employees \cup {0},
   to: {"none"} \cup PayrollStatuses \cup Decisions, halves: Halves,
   amount: 0..MaxAdvance \cup PayAmounts \cup Bonuses,
   todo: SUBSET Employees, entry: [Employees -> AttendanceRows], gross: [Employees -> Salaries],
   advances: 0..Most, pending: [Employees -> PayrollRows]]

NoPayroll == [status |-> "none", advances |-> 0, deduction |-> 0, net |-> 0, recorded |-> FALSE]
Idle ==
  [op |-> "none", stage |-> 0, id |-> 0, to |-> "none", halves |-> 0, amount |-> 0, todo |-> {},
   entry |-> [e \in Employees |-> [status |-> "none", deduction |-> 0]],
   gross |-> [e \in Employees |-> Min(Salaries)], advances |-> 0,
   pending |-> [e \in Employees |-> NoPayroll]]

TypeOK ==
  /\ salary \in [Employees -> Salaries]
  /\ advance \in [Advances -> AdvanceRows]
  /\ leave \in [Leaves -> LeaveRows]
  /\ workflow \in [Approved -> Workflows]
  /\ attendance \in [Employees -> AttendanceRows]
  /\ payroll \in [Employees -> PayrollRows]
  /\ \A x \in Advances \cup Employees : cash[x] \in Seq(Nat) /\ Len(cash[x]) <= MaxPaid
  /\ req \in [Sessions -> Requests]

Init ==
  /\ salary \in [Employees -> Salaries]
  /\ advance = [a \in Advances |->
       [status |-> "none", employee |-> 0, amount |-> 0, approval |-> FALSE, recorded |-> FALSE]]
  /\ leave = [l \in Leaves |-> [status |-> "none", approval |-> FALSE]]
  /\ workflow = [x \in Approved |-> [status |-> "none", step |-> "none", actions |-> {}]]
  /\ attendance = [e \in Employees |-> [status |-> "none", deduction |-> 0]]
  /\ payroll = [e \in Employees |-> NoPayroll]
  /\ cash = [x \in Advances \cup Employees |-> NoCash]
  /\ req = [s \in Sessions |-> Idle]

-----------------------------------------------------------------------------
(* Requests, and the row locks of a payroll that is being generated.        *)
Continue(s, next) == req' = [req EXCEPT ![s] = next]
Finish(s) == Continue(s, Idle)
At(s, op, stage) == req[s].op = op /\ req[s].stage = stage
Held(e) == \E s \in Sessions : req[s].pending[e] # NoPayroll

Begin(s, request) ==
  /\ request.op \in Endpoints /\ req[s] = Idle
  /\ Continue(s, request)
  /\ UNCHANGED <<salary, advance, leave, workflow, attendance, payroll, cash>>

(* createWorkflowInstanceInTransaction: one instance, one step, when the    *)
(* form asks for it.                                                        *)
Started(x, approval) ==
  IF approval THEN [workflow EXCEPT ![x] = [@ EXCEPT !.status = "PENDING", !.step = "PENDING"]] ELSE workflow

(* createCashMovementInTransaction                                          *)
PaysOut(x, amount) == /\ Len(cash[x]) < MaxPaid
                      /\ cash' = [cash EXCEPT ![x] = Append(@, amount)]

-----------------------------------------------------------------------------
(* Advances.  Whoever posts one without an approval gives its status, PAID  *)
(* included.                                                                *)
CreateAdvance(a, e, amount, approval, status) ==
  /\ advance[a].status = "none" /\ amount \in 1..MaxAdvance
  /\ advance' = [advance EXCEPT ![a] =
       [status |-> IF approval THEN "PENDING" ELSE status, employee |-> e, amount |-> amount,
        approval |-> approval, recorded |-> ~approval /\ status = "PAID"]]
  /\ workflow' = Started(a, approval)
  /\ UNCHANGED <<salary, leave, attendance, payroll, cash, req>>

UpdateSalaryAdvanceStatus(a, status) ==
  /\ advance[a].status # "none" /\ status \in Decisions
  /\ advance' = [advance EXCEPT ![a].status = status]
  /\ UNCHANGED <<salary, leave, workflow, attendance, payroll, cash, req>>

(* paySalaryAdvance: the status is read, then the workflow is looked at,    *)
(* then the row is written whatever it has become.                          *)
ReadAdvance(s) ==
  LET a == req[s].id
  IN /\ At(s, "payAdvance", 0)
     /\ advance[a].status \in {"APPROVED", "PENDING", "DRAFT"}
     /\ Continue(s, [req[s] EXCEPT !.stage = 1, !.amount = advance[a].amount])
     /\ UNCHANGED <<salary, advance, leave, workflow, attendance, payroll, cash>>

(* ensureWorkflowApproved                                                   *)
WorkflowApproved(row, x) == row.approval => workflow[x].status = "APPROVED"

CheckAdvance(s) ==
  LET a == req[s].id
  IN /\ At(s, "payAdvance", 1)
     /\ WorkflowApproved(advance[a], a)
     /\ Continue(s, [req[s] EXCEPT !.stage = 2])
     /\ UNCHANGED <<salary, advance, leave, workflow, attendance, payroll, cash>>

PayAdvance(s) ==
  LET a == req[s].id
  IN /\ At(s, "payAdvance", 2)
     /\ advance' = [advance EXCEPT ![a].status = "PAID"]
     /\ PaysOut(a, req[s].amount)
     /\ Finish(s)
     /\ UNCHANGED <<salary, leave, workflow, attendance, payroll>>

-----------------------------------------------------------------------------
(* Leaves.  An approval looks at the workflow in a transaction of its own   *)
(* and writes the leave afterwards.                                         *)
CreateLeave(l, approval, status) ==
  /\ leave[l].status = "none"
  /\ leave' = [leave EXCEPT ![l] =
       [status |-> IF approval THEN "PENDING" ELSE status, approval |-> approval]]
  /\ workflow' = Started(l, approval)
  /\ UNCHANGED <<salary, advance, attendance, payroll, cash, req>>

(* updateLeave, updateLeaveStatus but for an approval: any status.          *)
WriteLeave(l, status) ==
  /\ leave[l].status # "none"
  /\ leave' = [leave EXCEPT ![l].status = status]
  /\ UNCHANGED <<salary, advance, workflow, attendance, payroll, cash, req>>

CheckLeave(s) ==
  /\ At(s, "approveLeave", 0)
  /\ WorkflowApproved(leave[req[s].id], req[s].id)
  /\ Continue(s, [req[s] EXCEPT !.stage = 1])
  /\ UNCHANGED <<salary, advance, leave, workflow, attendance, payroll, cash>>

ApproveLeave(s) ==
  /\ At(s, "approveLeave", 1)
  /\ leave' = [leave EXCEPT ![req[s].id].status = "APPROVED"]
  /\ Finish(s)
  /\ UNCHANGED <<salary, advance, workflow, attendance, payroll, cash>>

-----------------------------------------------------------------------------
(* Workflows: approveWorkflow and rejectWorkflow.                           *)

(* Variant of StepCanAct: a cancelled instance can still be decided, and a  *)
(* step as often as one likes.                                              *)
StepCanActAlways(x) == workflow[x].status # "none"

(* ensureWorkflowStepCanAct                                                 *)
StepCanAct(x) == workflow[x].status = "PENDING" /\ workflow[x].step = "PENDING"

ReadStep(s) ==
  /\ At(s, "decide", 0)
  /\ StepCanAct(req[s].id)
  /\ Continue(s, [req[s] EXCEPT !.stage = 1])
  /\ UNCHANGED <<salary, advance, leave, workflow, attendance, payroll, cash>>

Decide(s) ==
  LET x == req[s].id
  IN /\ At(s, "decide", 1)
     /\ workflow' = [workflow EXCEPT ![x] =
          [status  |-> req[s].to,
           step    |-> IF @.step = "PENDING" THEN req[s].to ELSE @.step,
           actions |-> @.actions \cup {req[s].to}]]
     /\ Finish(s)
     /\ UNCHANGED <<salary, advance, leave, attendance, payroll, cash>>

CancelWorkflow(x) ==
  /\ workflow[x].status # "none"
  /\ workflow' = [workflow EXCEPT ![x].status = "CANCELLED"]
  /\ UNCHANGED <<salary, advance, leave, attendance, payroll, cash, req>>

-----------------------------------------------------------------------------
(* Attendance.  What is deducted follows the salary of the day it is        *)
(* entered (calculateMonthlyAttendanceMetrics).                             *)

(* Variant of Correctable: a validated attendance is entered again.         *)
CorrectableAlways(e) == TRUE

Correctable(e) == attendance[e].status # "VALIDATED"

(* upsertEmployeeMonthlyAttendance: refused once validated; but the upsert  *)
(* keeps only the status of a row validated since.                          *)
ReadAttendance(s) ==
  LET e == req[s].id
  IN /\ At(s, "attend", 0)
     /\ Correctable(e)
     /\ Continue(s, [req[s] EXCEPT !.stage = 1, !.amount = (salary[e] * req[s].halves) \div 2])
     /\ UNCHANGED <<salary, advance, leave, workflow, attendance, payroll, cash>>

WriteAttendance(s) ==
  LET e == req[s].id
  IN /\ At(s, "attend", 1)
     /\ attendance' = [attendance EXCEPT ![e] =
          [status |-> IF @.status = "VALIDATED" THEN @.status ELSE req[s].to, deduction |-> req[s].amount]]
     /\ Finish(s)
     /\ UNCHANGED <<salary, advance, leave, workflow, payroll, cash>>

(* validateEmployeeAttendance of one, validateEmployeeAttendanceMonth of    *)
(* those that are not validated yet.                                        *)
ValidateAttendance(some) ==
  /\ some # {} /\ \A e \in some : attendance[e].status # "none"
  /\ attendance' = [e \in Employees |->
       IF e \in some THEN [attendance[e] EXCEPT !.status = "VALIDATED"] ELSE attendance[e]]
  /\ UNCHANGED <<salary, advance, leave, workflow, payroll, cash, req>>

-----------------------------------------------------------------------------
(* generatePayroll: one transaction over the employees whose attendance is  *)
(* validated, in the order of their names, or over the one that is asked    *)
(* for.  The request gives a bonus and the status of the rows.              *)
ReadEntries(s) ==
  LET valid == {e \in Employees : attendance[e].status = "VALIDATED" /\ req[s].id \in {0, e}}
  IN /\ At(s, "generate", 0)
     /\ valid # {}
     /\ Continue(s, [req[s] EXCEPT !.stage = 1, !.todo = valid, !.entry = attendance, !.gross = salary])
     /\ UNCHANGED <<salary, advance, leave, workflow, attendance, payroll, cash>>

Entry(s) == Min(req[s].todo)

(* A payroll that is validated or paid is left as it is.                    *)
Kept(e) == payroll[e].status \in {"VALIDATED", "PAID"}

ReadPayroll(s) ==
  /\ At(s, "generate", 1) /\ req[s].todo # {}
  /\ Continue(s, IF Kept(Entry(s)) THEN [req[s] EXCEPT !.todo = @ \ {Entry(s)}]
                 ELSE [req[s] EXCEPT !.stage = 2])
  /\ UNCHANGED <<salary, advance, leave, workflow, attendance, payroll, cash>>

(* monthlyAdvanceTotal                                                      *)
AdvanceTotal(e) == AmountOf({a \in Advances : advance[a].employee = e /\ advance[a].status = "PAID"})

ReadAdvances(s) ==
  /\ At(s, "generate", 2)
  /\ req[s].gross[Entry(s)] > 0
  /\ Continue(s, [req[s] EXCEPT !.stage = 3, !.advances = AdvanceTotal(Entry(s))])
  /\ UNCHANGED <<salary, advance, leave, workflow, attendance, payroll, cash>>

(* ON CONFLICT DO UPDATE: the amounts of the row change whatever its status *)
(* has become, and a validated or paid one keeps its status.                *)
Generated(r, e, row) ==
  LET left  == r.gross[e] - r.entry[e].deduction - r.advances + r.amount
      final == row.status \in {"VALIDATED", "PAID"}
  IN [status    |-> IF final THEN row.status ELSE r.to,
      advances  |-> r.advances,
      deduction |-> r.entry[e].deduction,
      net       |-> Max({left, 0}),
      recorded  |-> IF final THEN row.recorded ELSE r.to = "PAID"]

WritePayroll(s) ==
  LET e == Entry(s)
  IN /\ At(s, "generate", 3)
     /\ ~Held(e)
     /\ Continue(s, [req[s] EXCEPT !.stage = 1, !.todo = @ \ {e},
                                   !.pending[e] = Generated(req[s], e, payroll[e])])
     /\ UNCHANGED <<salary, advance, leave, workflow, attendance, payroll, cash>>

CommitPayrolls(s) ==
  /\ At(s, "generate", 1) /\ req[s].todo = {}
  /\ payroll' = [e \in Employees |->
       IF req[s].pending[e] = NoPayroll THEN payroll[e] ELSE req[s].pending[e]]
  /\ Finish(s)
  /\ UNCHANGED <<salary, advance, leave, workflow, attendance, cash>>

(* updatePayrollStatus(id, 'VALIDATED'): no condition on what it was.       *)
ValidatePayroll(e) ==
  /\ payroll[e].status # "none" /\ ~Held(e)
  /\ payroll' = [payroll EXCEPT ![e].status = "VALIDATED"]
  /\ UNCHANGED <<salary, advance, leave, workflow, attendance, cash, req>>

(* payPayroll: the row is read without a lock.                              *)
ReadForPayment(s) ==
  LET e == req[s].id
  IN /\ At(s, "pay", 0)
     /\ payroll[e].status \in {"VALIDATED", "DRAFT"}
     /\ Continue(s, [req[s] EXCEPT !.stage = 1, !.amount = payroll[e].net])
     /\ UNCHANGED <<salary, advance, leave, workflow, attendance, payroll, cash>>

PayPayroll(s) ==
  LET e == req[s].id
  IN /\ At(s, "pay", 1) /\ ~Held(e)
     /\ payroll' = [payroll EXCEPT ![e].status = "PAID"]
     /\ PaysOut(e, req[s].amount)
     /\ Finish(s)
     /\ UNCHANGED <<salary, advance, leave, workflow, attendance>>

-----------------------------------------------------------------------------
(* updateEmployee, as far as the pay goes.                                  *)
SetSalary(e, amount) ==
  /\ salary' = [salary EXCEPT ![e] = amount]
  /\ UNCHANGED <<advance, leave, workflow, attendance, payroll, cash, req>>

(* The requests that are one statement.                                     *)
Statement(op) ==
  /\ op \in Endpoints
  /\ \/ op = "salary" /\ \E e \in Employees, amount \in Salaries : SetSalary(e, amount)
     \/ op = "advance" /\ \E a \in Advances, e \in Employees, amount \in 1..MaxAdvance, approval \in BOOLEAN :
          \E status \in AdvanceStatuses : CreateAdvance(a, e, amount, approval, status)
     \/ op = "setAdvance" /\ \E a \in Advances, to \in Decisions : UpdateSalaryAdvanceStatus(a, to)
     \/ op = "leave" /\ \E l \in Leaves, approval \in BOOLEAN, status \in LeaveStatuses :
          CreateLeave(l, approval, status)
     \/ op = "setLeave" /\ \E l \in Leaves, to \in {"REJECTED", "CANCELLED"} : WriteLeave(l, to)
     \/ op = "editLeave" /\ \E l \in Leaves, to \in LeaveStatuses : WriteLeave(l, to)
     \/ op = "cancel" /\ \E x \in Approved : CancelWorkflow(x)
     \/ op = "validateAttendance" /\ \E some \in SUBSET Employees : ValidateAttendance(some)
     \/ op = "validatePayroll" /\ \E e \in Employees : ValidatePayroll(e)

(* A client names rows that it has seen.                                    *)
Request(s) ==
  \/ \E a \in Advances : advance[a].status # "none" /\ Begin(s, [Idle EXCEPT !.op = "payAdvance", !.id = a])
  \/ \E l \in Leaves : leave[l].status # "none" /\ Begin(s, [Idle EXCEPT !.op = "approveLeave", !.id = l])
  \/ \E x \in Approved, to \in Decisions :
       workflow[x].status # "none" /\ Begin(s, [Idle EXCEPT !.op = "decide", !.id = x, !.to = to])
  \/ \E e \in Employees, halves \in Halves, to \in {"DRAFT", "VALIDATED"} :
       Begin(s, [Idle EXCEPT !.op = "attend", !.id = e, !.halves = halves, !.to = to])
  \/ \E e \in Employees \cup {0}, to \in PayrollStatuses, bonus \in Bonuses :
       Begin(s, [Idle EXCEPT !.op = "generate", !.id = e, !.to = to, !.amount = bonus])
  \/ \E e \in Employees : payroll[e].status # "none" /\ Begin(s, [Idle EXCEPT !.op = "pay", !.id = e])

(* A refusal, an error, a lost connection: ROLLBACK.                        *)
Rollback(s) ==
  /\ req[s] # Idle /\ Finish(s)
  /\ UNCHANGED <<salary, advance, leave, workflow, attendance, payroll, cash>>

Step(s) ==
  \/ ReadAdvance(s) \/ CheckAdvance(s) \/ PayAdvance(s)
  \/ CheckLeave(s) \/ ApproveLeave(s) \/ ReadStep(s) \/ Decide(s)
  \/ ReadAttendance(s) \/ WriteAttendance(s)
  \/ ReadEntries(s) \/ ReadPayroll(s) \/ ReadAdvances(s) \/ WritePayroll(s) \/ CommitPayrolls(s)
  \/ ReadForPayment(s) \/ PayPayroll(s)

Next ==
  \/ \E op \in AllEndpoints : Statement(op)
  \/ \E s \in Sessions : Request(s) \/ Step(s) \/ Rollback(s)

Spec == Init /\ [][Next]_vars

=============================================================================

------------------------------- MODULE PayrollBooks -------------------------------
(***************************************************************************)
(* The advances, the leaves, their workflows, the attendance, the payroll   *)
(* and the cash movements of one month of saas.service.ts, and what they    *)
(* must agree on.  Payroll has the requests that read and write them.       *)
(***************************************************************************)
EXTENDS Integers, Sequences, FiniteSets, Functions

CONSTANTS
  Employees,  \* a set of numbers, in the order of the employees' names
  Advances,   \* rows of salary_advances
  Leaves      \* rows of leaves

VARIABLES
  advance,     \* rows of salary_advances
  leave,       \* rows of leaves
  workflow,    \* rows of workflow_instances and workflow_steps, with their actions
  attendance,  \* rows of employee_monthly_attendance
  payroll,     \* rows of payrolls
  cash         \* the movements that paid each advance and each payroll

Approved == Advances \cup Leaves
NoCash == <<>>
AmountOf(some) == SumFunctionOnSet([a \in Advances |-> advance[a].amount], some)

(* A client may post a row that is PAID already, and nothing then leaves    *)
(* the cash desk: such a row is recorded.  An employee has had an advance   *)
(* that was handed out to him, or that was recorded so.                     *)
Had(a) == cash[a] # NoCash \/ advance[a].recorded

(* What a payroll deducts as advances was had before: no employee repays an *)
(* advance that neither left the cash desk nor was recorded as paid         *)
(* (monthlyAdvanceTotal).                                                   *)
DeductedWasPaid ==
  \A e \in Employees :
    payroll[e].advances <= AmountOf({a \in Advances : advance[a].employee = e /\ Had(a)})

(* The payroll of a month that is marked paid shows the amount that left    *)
(* the cash desk, whatever is generated, edited or entered afterwards; one  *)
(* that was recorded as paid is not paid from the desk as well.             *)
PaidIsNet ==
  \A e \in Employees : payroll[e].status = "PAID" =>
    cash[e] = IF payroll[e].recorded THEN NoCash ELSE <<payroll[e].net>>

(* A payroll deducts the absences of the attendance that was validated:     *)
(* neither a correction nor a new generation makes the two diverge.         *)
PayrollFollowsAttendance ==
  \A e \in Employees :
    payroll[e].status # "none" =>
      attendance[e].status = "VALIDATED" /\ payroll[e].deduction = attendance[e].deduction

(* A payroll is paid as it was computed: only advances that were had are    *)
(* deducted, what is paid out is the net amount, and the absences are those *)
(* of the attendance.                                                       *)
PayrollFollows == DeductedWasPaid /\ PaidIsNet /\ PayrollFollowsAttendance

(* Money under approval leaves the cash desk only after an approval, and a  *)
(* leave under approval is granted only after one, however decisions,       *)
(* cancellations and payments interleave.                                   *)
PaidWasApproved ==
  /\ \A a \in Advances : cash[a] # NoCash /\ advance[a].approval => "APPROVED" \in workflow[a].actions
  /\ \A l \in Leaves :
       leave[l].status = "APPROVED" /\ leave[l].approval => "APPROVED" \in workflow[l].actions

(* A workflow that was decided is never decided the other way.              *)
DecidedOnce == \A x \in Approved : Cardinality(workflow[x].actions) <= 1

(* What was under approval was approved: an advance that is paid and a      *)
(* leave that is granted; nor is a workflow decided the other way.          *)
DecisionsHold == PaidWasApproved /\ DecidedOnce
=============================================================================

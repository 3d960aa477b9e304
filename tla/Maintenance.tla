------------------------------- MODULE Maintenance -------------------------------
(***************************************************************************)
(* The maintenance requests of saas.service.ts: reported, diagnosed, under  *)
(* approval, assigned, worked on, resolved, validated and closed, with the  *)
(* expenses and the stock that the work costs.                              *)
(*                                                                         *)
(* Most endpoints are one transaction that locks the row of the ticket      *)
(* (SELECT ... FOR UPDATE), looks at its status and writes the next one;    *)
(* it holds the lock until it commits.  Starting and validating look in a   *)
(* transaction of their own and write afterwards, whatever the status has   *)
(* become; and an approval reads the workflow before it locks the ticket.   *)
(***************************************************************************)
EXTENDS Integers, FiniteSets

CONSTANTS
  Sessions,    \* concurrent requests
  Tickets,     \* rows of maintenance_requests
  Flows,       \* rows of workflow_instances, numbered as they are made
  MaxCharges,  \* bound: expenses and consumptions of a ticket
  Endpoints    \* which endpoints the clients call

VARIABLES
  ticket,  \* rows of maintenance_requests
  flow,    \* rows of workflow_instances and workflow_steps, with their actions
  charges, \* rows of maintenance_expenses and stock movements of a ticket
  req      \* the request each session is running

vars == <<ticket, flow, charges, req>>

Statuses ==
  {"NEW", "DIAGNOSIS", "WAITING_APPROVAL", "APPROVED", "ASSIGNED", "IN_PROGRESS", "ON_HOLD",
   "RESOLVED", "VALIDATED", "CLOSED", "CANCELLED"}
Decisions == {"APPROVED", "REJECTED"}

(* allowedPrevious of transitionMaintenanceRequest                          *)
Previous ==
  [APPROVED    |-> {"WAITING_APPROVAL"},
   DIAGNOSIS   |-> {"WAITING_APPROVAL"},
   ON_HOLD     |-> {"IN_PROGRESS"},
   IN_PROGRESS |-> {"ON_HOLD", "RESOLVED"},
   CANCELLED   |-> {"NEW", "DIAGNOSIS", "ON_HOLD"}]

(* The statuses from which the other endpoints go on.                       *)
StatusesFor ==
  [diagnose |-> {"NEW", "DIAGNOSIS"},
   ask      |-> {"DIAGNOSIS"},
   assign   |-> {"NEW", "DIAGNOSIS", "APPROVED", "ASSIGNED"},
   start    |-> {"ASSIGNED"},
   resolve  |-> {"IN_PROGRESS"},
   validate |-> {"RESOLVED"},
   close    |-> {"VALIDATED"},
   charge   |-> {"IN_PROGRESS"}]

Unlocked == {"start", "validate"}
AllEndpoints == DOMAIN StatusesFor \cup {"transition", "decide", "cancelWorkflow"}

TicketRows == [status: Statuses \cup {"none"}, flow: Flows \cup {0}]
FlowRows ==
  [status: {"none", "PENDING", "CANCELLED"} \cup Decisions, step: {"none", "PENDING"} \cup Decisions,
   actions: SUBSET Decisions]
Requests ==
  [op: AllEndpoints \cup {"none"}, stage: 0..3, id: Tickets \cup Flows \cup {0}, flow: Flows \cup {0},
   to: Statuses \cup Decisions \cup {"none"}, workflow: BOOLEAN]

Idle == [op |-> "none", stage |-> 0, id |-> 0, flow |-> 0, to |-> "none", workflow |-> FALSE]

TypeOK ==
  /\ ticket \in [Tickets -> TicketRows]
  /\ flow \in [Flows -> FlowRows]
  /\ charges \in [Tickets -> 0..MaxCharges]
  /\ req \in [Sessions -> Requests]

Init ==
  /\ ticket = [t \in Tickets |-> [status |-> "none", flow |-> 0]]
  /\ flow = [f \in Flows |-> [status |-> "none", step |-> "none", actions |-> {}]]
  /\ charges = [t \in Tickets |-> 0]
  /\ req = [s \in Sessions |-> Idle]

-----------------------------------------------------------------------------
(* A request, from stage to stage: 0 the workflow of the ticket is read,    *)
(* 1 it is looked at, 2 the status of the ticket is looked at, 3 it is      *)
(* written.                                                                 *)
Continue(s, stage) == req' = [req EXCEPT ![s].stage = stage]
Finish(s) == req' = [req EXCEPT ![s] = Idle]

(* Variant of Locked: the status is read without FOR UPDATE.                *)
LockedByNobody(t) == FALSE

Locked(t) ==
  \E s \in Sessions :
    req[s].id = t /\ req[s].stage = 3 /\ req[s].op \in AllEndpoints \ (Unlocked \cup {"decide"})

Begin(s, request) ==
  /\ req[s] = Idle /\ request.op \in Endpoints
  /\ req' = [req EXCEPT ![s] = request]
  /\ UNCHANGED <<ticket, flow, charges>>

Asks(op, stage, id, to, workflow) ==
  [op |-> op, stage |-> stage, id |-> id, flow |-> 0, to |-> to, workflow |-> workflow]

RequestOn(s, t) ==
  \/ \E op \in DOMAIN StatusesFor, workflow \in BOOLEAN :
       /\ workflow => op \in {"diagnose", "ask"}
       /\ Begin(s, Asks(op, 2, t, "none", workflow))
  \/ \E to \in DOMAIN Previous :
       Begin(s, Asks("transition", IF to = "APPROVED" THEN 0 ELSE 2, t, to, FALSE))

Request(s) ==
  \/ \E t \in Tickets : ticket[t].status # "none" /\ RequestOn(s, t)
  \/ \E f \in Flows, to \in Decisions :
       flow[f].status # "none" /\ Begin(s, Asks("decide", 2, f, to, FALSE))

CreateMaintenanceRequest(t) ==
  /\ ticket[t].status = "none"
  /\ ticket' = [ticket EXCEPT ![t].status = "NEW"]
  /\ UNCHANGED <<flow, charges, req>>

(* transitionMaintenanceRequest, when it approves.                          *)
ReadFlow(s) ==
  /\ req[s].op = "transition" /\ req[s].stage = 0
  /\ req' = [req EXCEPT ![s].stage = 1, ![s].flow = ticket[req[s].id].flow]
  /\ UNCHANGED <<ticket, flow, charges>>

(* Variant of FlowApproved: only a rejection blocks.                        *)
FlowNotRejected(f) == f # 0 => flow[f].status # "REJECTED"

(* ensureWorkflowApproved                                                   *)
FlowApproved(f) == f # 0 => flow[f].status = "APPROVED"

CheckFlow(s) ==
  /\ req[s].op = "transition" /\ req[s].stage = 1
  /\ FlowApproved(req[s].flow)
  /\ Continue(s, 2)
  /\ UNCHANGED <<ticket, flow, charges>>

(* The statuses from which a request goes on.                               *)
From(r) == IF r.op = "transition" THEN Previous[r.to] ELSE StatusesFor[r.op]

(* assertMaintenanceStatus: it waits for the row, and keeps it.             *)
AssertMaintenanceStatus(s) ==
  LET t == req[s].id
  IN /\ req[s].op \notin {"none", "decide"} /\ req[s].stage = 2
     /\ ~Locked(t)
     /\ ticket[t].status \in From(req[s])
     /\ Continue(s, 3)
     /\ UNCHANGED <<ticket, flow, charges>>

NewFlow == CHOOSE f \in Flows : flow[f].status = "none"
CanStart == \E f \in Flows : flow[f].status = "none"

(* createWorkflowInstanceInTransaction                                      *)
StartFlow(t, status) ==
  /\ CanStart
  /\ flow' = [flow EXCEPT ![NewFlow] = [status |-> "PENDING", step |-> "PENDING", actions |-> {}]]
  /\ ticket' = [ticket EXCEPT ![t] = [status |-> status, flow |-> NewFlow]]

SetStatus(t, status) ==
  /\ ticket' = [ticket EXCEPT ![t].status = status]
  /\ UNCHANGED flow

DiagnoseMaintenanceRequest(s) ==
  LET t == req[s].id
  IN /\ req[s].op = "diagnose" /\ req[s].stage = 3
     /\ IF req[s].workflow THEN StartFlow(t, "WAITING_APPROVAL") ELSE SetStatus(t, "DIAGNOSIS")
     /\ Finish(s) /\ UNCHANGED charges

(* requestMaintenanceApproval: a workflow that is there is used again.      *)
RequestMaintenanceApproval(s) ==
  LET t == req[s].id
  IN /\ req[s].op = "ask" /\ req[s].stage = 3
     /\ IF req[s].workflow /\ ticket[t].flow = 0 THEN StartFlow(t, "WAITING_APPROVAL")
        ELSE SetStatus(t, "WAITING_APPROVAL")
     /\ Finish(s) /\ UNCHANGED charges

(* Variant of After: a status that no other endpoint knows.                 *)
AfterUnknown == [assign |-> "PLANNED", resolve |-> "RESOLVED", close |-> "CLOSED"]

After == [assign |-> "ASSIGNED", resolve |-> "RESOLVED", close |-> "CLOSED"]

(* transition, assign, resolve and close                                    *)
Move(s) ==
  /\ req[s].op \in {"transition"} \cup DOMAIN After /\ req[s].stage = 3
  /\ SetStatus(req[s].id, IF req[s].op = "transition" THEN req[s].to ELSE After[req[s].op])
  /\ Finish(s) /\ UNCHANGED charges

(* startMaintenanceRequest, validateMaintenanceRequest: the UPDATE waits    *)
(* for whoever holds the row and looks at nothing.                          *)
WriteUnlocked(s) ==
  /\ req[s].op \in Unlocked /\ req[s].stage = 3
  /\ ~Locked(req[s].id)
  /\ SetStatus(req[s].id, IF req[s].op = "start" THEN "IN_PROGRESS" ELSE "VALIDATED")
  /\ Finish(s) /\ UNCHANGED charges

(* createMaintenanceExpense, createMaintenanceStockConsumption              *)
Charge(s) ==
  LET t == req[s].id
  IN /\ req[s].op = "charge" /\ req[s].stage = 3
     /\ charges[t] < MaxCharges
     /\ charges' = [charges EXCEPT ![t] = @ + 1]
     /\ Finish(s) /\ UNCHANGED <<ticket, flow>>

(* approveWorkflow, rejectWorkflow                                          *)
ReadStep(s) ==
  LET f == req[s].id
  IN /\ req[s].op = "decide" /\ req[s].stage = 2
     /\ flow[f].status = "PENDING" /\ flow[f].step = "PENDING"
     /\ Continue(s, 3)
     /\ UNCHANGED <<ticket, flow, charges>>

Decide(s) ==
  /\ req[s].op = "decide" /\ req[s].stage = 3
  /\ flow' = [flow EXCEPT ![req[s].id] =
       [status  |-> req[s].to,
        step    |-> IF @.step = "PENDING" THEN req[s].to ELSE @.step,
        actions |-> @.actions \cup {req[s].to}]]
  /\ Finish(s) /\ UNCHANGED <<ticket, charges>>

CancelWorkflow(f) ==
  /\ "cancelWorkflow" \in Endpoints /\ flow[f].status # "none"
  /\ flow' = [flow EXCEPT ![f].status = "CANCELLED"]
  /\ UNCHANGED <<ticket, charges, req>>

(* A refusal, an error, a lost connection: ROLLBACK.                        *)
Rollback(s) ==
  /\ req[s] # Idle /\ Finish(s)
  /\ UNCHANGED <<ticket, flow, charges>>

Step(s) ==
  \/ ReadFlow(s) \/ CheckFlow(s) \/ AssertMaintenanceStatus(s)
  \/ DiagnoseMaintenanceRequest(s) \/ RequestMaintenanceApproval(s) \/ Move(s) \/ WriteUnlocked(s)
  \/ Charge(s) \/ ReadStep(s) \/ Decide(s)

Next ==
  \/ \E t \in Tickets : CreateMaintenanceRequest(t)
  \/ \E f \in Flows : CancelWorkflow(f)
  \/ \E s \in Sessions : Request(s) \/ Step(s) \/ Rollback(s)

Spec == Init /\ [][Next]_vars

-----------------------------------------------------------------------------
(* Properties.                                                              *)

(* Expenses and stock are charged to a ticket only while it is worked on,   *)
(* whoever resolves, stops or reopens it at the same time: the lock is kept *)
(* from the look at the status to the commit.                               *)
ChargedInProgress ==
  [][\A t \in Tickets : charges'[t] # charges[t] => ticket[t].status = "IN_PROGRESS"]_vars

(* Where a ticket has a workflow, it becomes APPROVED only after a decision *)
(* that approved it, through diagnoses made again and workflows replaced.   *)
ApprovedWasApproved ==
  \A t \in Tickets :
    ticket[t].status = "APPROVED" /\ ticket[t].flow # 0 => "APPROVED" \in flow[ticket[t].flow].actions

(* Nothing reopens a ticket that was closed or cancelled.                   *)
KeepsFinished ==
  \A t \in Tickets :
    ticket[t].status \in {"CLOSED", "CANCELLED"} => ticket'[t].status = ticket[t].status
FinishedStays == [][KeepsFinished]_vars
=============================================================================

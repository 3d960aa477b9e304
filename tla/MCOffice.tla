------------------------------- MODULE MCOffice --------------------------------
(* Small instances of Payroll, Maintenance, EmailOutbox and                 *)
(* SubscriptionSchedule, beside those of MCLotSales.                        *)
EXTENDS MCLotSales, EmailLogs, PayrollBooks, PlanBooks

(* What the clients do, besides the scenes of MCLotSales:                   *)
(*   "approvals"   an advance or a leave under approval, two at once, but   *)
(*                 for two decisions on one workflow;                       *)
(*   "decisions"   both, one request at a time;                             *)
(*   "handouts"    an advance, and payrolls generated as validated for all, *)
(*                 two at once;                                             *)
(*   "payday"      attendance, payroll and pay, one request at a time, the  *)
(*                 payroll of any status, a draft with any bonus;           *)
(* an advance is entered as DRAFT or PAID in the last two;                  *)
(* at the maintenance,                                                      *)
(*   "site"        those who work on a ticket, two at once;                 *)
(*   "workshop"    the same, but nobody else starts or validates meanwhile; *)
(*   "permits"     those who ask for an approval, one request at a time;    *)
(* "post": emails, where no answer of the mail server is lost, and the      *)
(* queue is read while nobody sends;                                        *)
(* and "plans": a payment plan, chosen with the initial state.              *)
VARIABLES salary, hReq
VARIABLES ticket, flow, charges, mReq
VARIABLES enabled, crashes, eReq

CONSTANTS Tickets, OfficeScenes

H == INSTANCE Payroll WITH
       req <- hReq, Salaries <- {2, 4}, Bonuses <- {0, 1}, MaxAdvance <- 1, MaxPaid <- 2,
       Endpoints <- {"salary", "advance", "setAdvance", "payAdvance", "leave", "editLeave",
                     "approveLeave", "setLeave", "decide", "cancel", "attend", "validateAttendance",
                     "generate", "validatePayroll", "pay"}

M == INSTANCE Maintenance WITH
       req <- mReq, Flows <- {1, 2}, MaxCharges <- 1,
       Endpoints <- {"diagnose", "ask", "assign", "start", "resolve", "validate", "close", "charge",
                     "transition", "decide", "cancelWorkflow"}

E == INSTANCE EmailOutbox WITH
       req <- eReq, Callers <- Sessions, Ticks <- {Scheduler},
       MaxRetries <- 2, MaxPerRun <- 2, MaxCrashes <- 1

(* Two years of months, a leap February among them; a tenth of the price is *)
(* asked for at once.                                                       *)
TwoYears == <<31, 28, 31, 30, 31, 30, 31, 31, 30, 31, 30, 31,
              31, 29, 31, 30, 31, 30, 31, 31, 30, 31, 30, 31>>
Tenth == [type |-> "PERCENTAGE", value |-> 1000]

staff   == <<salary, advance, leave, workflow, attendance, payroll, cash, hReq>>
tickets == <<ticket, flow, charges, mReq>>
emails  == <<mail, enabled, crashes, eReq>>

StaffOps ==
  [approvals |-> {"payAdvance", "approveLeave", "decide"},
   handouts  |-> {"payAdvance", "generate", "attend"},
   decisions |-> {"payAdvance", "approveLeave", "decide"},
   payday    |-> {"attend", "generate", "pay", "payAdvance"}]
Serial == {"decisions", "payday"}
Deciding == {"approvals", "decisions"}

Working(rq) == {s \in Sessions : rq[s].op # "none"}
StaffAllowed(r) ==
  /\ r.op \in StaffOps[scene]
  /\ (scene = "handouts" /\ r.op = "attend") => r.halves = 0
  /\ scene # "payday" => r.to # "DRAFT"
  /\ r.op = "generate" =>
       IF scene = "payday" THEN r.id = 1 /\ (r.to = "DRAFT" \/ r.amount = 0) ELSE r.id = 0 /\ r.to = "VALIDATED" /\ r.amount = 0

(* The screens offer to validate a payroll while it is a draft, and to      *)
(* approve an advance that is not paid.                                     *)
AsShown ==
  /\ \A e \in Employees : payroll'[e].status = "VALIDATED" => payroll[e].status # "PAID"
  /\ \A a \in Advances : advance[a].status = "PAID" => advance'[a].status = "PAID"

(* An edit may grant a leave that is under approval without its workflow.   *)
Edited ==
  \E l \in Leaves : leave'[l].approval /\ leave'[l].status = "APPROVED" /\ leave[l].status # "APPROVED"

StaffNext ==
  /\ scene # "payday" => UNCHANGED salary
  /\ scene \in Deciding => UNCHANGED <<attendance, payroll>>
  /\ scene \notin Deciding => UNCHANGED leave
  /\ H!Next
  /\ scene \in Serial =>
       /\ Cardinality(Working(hReq')) <= 1
       /\ Working(hReq) # {} => hReq' # hReq
  /\ \A s \in Working(hReq') : StaffAllowed(hReq'[s])
  /\ AsShown
  /\ scene = "payday" =>
       \A e \in Employees \ {1} : salary'[e] = 2 /\ attendance'[e] = attendance[e]
  /\ scene \in Deciding =>
       /\ Edited => hReq' # hReq
       /\ \A s, t \in Working(hReq') :
            s # t /\ hReq'[s].op = "decide" /\ hReq'[t].op = "decide" => hReq'[s].id # hReq'[t].id
  /\ scene = "approvals" =>
       \A a \in Advances, l \in Leaves : advance'[a].status = "none" \/ leave'[l].status = "none"
  /\ scene \notin Deciding =>
       \A a \in Advances :
         /\ ~advance'[a].approval
         /\ advance[a].status = "none" => advance'[a].status \in {"none", "DRAFT", "PAID"}

-----------------------------------------------------------------------------
TicketOps ==
  [site     |-> {"assign", "start", "resolve", "validate", "close", "charge", "transition"},
   workshop |-> {"assign", "start", "resolve", "validate", "close", "charge", "transition"},
   permits  |-> {"diagnose", "ask", "assign", "transition", "decide"}]

TicketNext ==
  /\ M!Next
  /\ \A s \in Working(mReq') : mReq'[s].op \in TicketOps[scene]
  /\ scene = "workshop" =>
       \/ \A s \in Working(mReq') : mReq'[s].op \notin {"start", "validate"}
       \/ Cardinality(Working(mReq')) = 1
  /\ scene = "permits" =>
       /\ Cardinality(Working(mReq')) <= 1
       /\ Working(mReq) # {} => mReq' # mReq

Writing(w) == eReq'[w] # E!Idle
Lost(w)    == eReq[w].stage = "transmit" /\ eReq'[w].stage = "failed" /\ mail' # mail

MailNext ==
  /\ E!Next
  /\ ~\E w \in DOMAIN eReq : Lost(w)
  /\ (Writing(Scheduler) /\ eReq'[Scheduler].stage = "begin") => ~\E s \in Sessions : Writing(s)

(* Prices of a few cents show every rounding; the first installment is due  *)
(* in the last days of January.                                             *)
ByHand == {<<>>} \cup {<<[type |-> "CUSTOM", due |-> 40, amount |-> a], [type |-> "CUSTOM", due |-> 9, amount |-> b]>> :
                          a \in {6, 7, 10}, b \in {3, 4}}
Plans ==
  [catalog: {0, 7, 11, 16, 50}, negotiated: {<<>>, <<10>>}, discount: {<<>>, <<1>>, <<6>>},
   depositType: {"PERCENTAGE"}, deposit: {1000, 3333, 10000}, frequency: {"MONTHLY", "QUARTERLY"},
   count: 0..7, first: 28..31, custom: {<<>>}]
  \cup
  [catalog: {0, 11, 16, 50}, negotiated: {<<>>, <<10>>}, discount: {<<>>, <<1>>},
   depositType: {"FIXED"}, deposit: {0, 1, 5, 11}, frequency: {"MONTHLY"},
   count: 0..7, first: {31}, custom: {<<>>}]
  \cup
  [catalog: {11, 16}, negotiated: {<<>>, <<10>>}, discount: {<<>>}, depositType: {"FIXED"},
   deposit: {1, 5}, frequency: {"CUSTOM"}, count: {2}, first: {31}, custom: ByHand]
NoPlan == CHOOSE p \in Plans : p.catalog = 0

-----------------------------------------------------------------------------
OfficeInit ==
  /\ Init /\ B!Init /\ H!Init /\ M!Init /\ E!Init
  /\ scene \in Scenes \cup OfficeScenes
  /\ scene # "post" => enabled
  /\ \A e \in Employees : e # 1 \/ scene # "payday" => salary[e] = 2
  /\ plan \in IF scene = "plans" THEN Plans ELSE {NoPlan}
OfficeNext ==
  /\ UNCHANGED <<scene, plan>>
  /\ \/ scene \in Scenes /\ MCNext /\ UNCHANGED <<staff, tickets, emails>>
     \/ scene \in DOMAIN StaffOps /\ StaffNext /\ UNCHANGED <<vars, billing, tickets, emails>>
     \/ scene \in DOMAIN TicketOps /\ TicketNext /\ UNCHANGED <<vars, billing, staff, emails>>
     \/ scene = "post" /\ MailNext /\ UNCHANGED <<vars, billing, staff, tickets>>
OfficeSpec == OfficeInit /\ [][OfficeNext]_<<vars, billing, staff, tickets, emails, plan, scene>>

Staff   == scene \in DOMAIN StaffOps
Repairs == scene \in DOMAIN TicketOps

(* Every row of the office keeps its type: amounts stay within their        *)
(* bounds, statuses are those of the schema, requests are well formed.      *)
TypesOK ==
  /\ Sales => TypeOK
  /\ Billing => B!TypeOK
  /\ Staff => H!TypeOK
  /\ Repairs => M!TypeOK
  /\ E!TypeOK

(* A ticket is charged only while it is in progress and, where nobody       *)
(* starts or validates beside another request, stays closed or cancelled;   *)
(* one request at a time, it is approved only after a decision.             *)
TicketsKept ==
  /\ M!ChargedInProgress
  /\ [][scene # "site" => M!KeepsFinished]_tickets
  /\ [](scene = "permits" => M!ApprovedWasApproved)
=============================================================================

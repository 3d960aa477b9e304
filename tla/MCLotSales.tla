----------------------------- MODULE MCLotSales -------------------------------
(* Small instances of LotSales and SalesBilling for TLC.                    *)
EXTENDS LotSales, SalesBooks, TLC

(* What the clients do in a behaviour is chosen with its initial state:     *)
(*   "lots"        everything but payments, one request at a time;          *)
(*   "fees"        one reservation, paid and refunded, and a subscription;  *)
(*   "rush"        those who reserve, subscribe and edit, two at once;      *)
(*   "till"        those who pay and edit the fee, two at once;             *)
(*   "resubmitted" one subscription, refused and submitted again;           *)
(*   "resold"      the same, while the lot is on sale again;                *)
(* and of the invoices of installments:                                     *)
(*   "cashier"     payments, refunds and cancellations, one user at a time; *)
(*   "payers"      payments made at once;                                   *)
(*   "automation"  invoices made by hand, cancelled, and by the scheduler.  *)
VARIABLE scene

VARIABLES contract, day, done, bReq

CONSTANTS Scenes, Scheduler

InstallmentOf == [i \in Installments |-> IF i = 1 THEN 11 ELSE 12]
DueOn == [i \in Installments |-> i - 1]
Price == [i \in Installments |-> 4 - i]

B == INSTANCE SalesBilling WITH
       subscription <- contract, req <- bReq,
       SubscriptionOf <- InstallmentOf, DueDay <- DueOn, MaxAmount <- 2, LastDue <- 1,
       Endpoints <- {"invoice", "issue", "cancelInvoice", "pay", "cancelPayment", "refund", "run"}

billing == <<contract, invoice, receipt, day, done, bReq>>

BillingOps ==
  [cashier    |-> {"invoice", "issue", "cancelInvoice", "pay", "cancelPayment", "refund"},
   payers     |-> {"invoice", "pay"},
   automation |-> {"invoice", "issue", "cancelInvoice", "run"}]

OpsOf ==
  [lots        |-> {"reserve", "editReservation", "reservationStatus", "subscribe",
                    "editSubscription", "subscriptionStatus"},
   fees        |-> {"reserve", "editReservation", "reservationStatus", "subscribe",
                    "subscriptionStatus", "pay", "cancelPayment", "refund"},
   rush        |-> {"reserve", "editReservation", "subscribe", "editSubscription"},
   till        |-> {"reserve", "pay", "editReservation"},
   resubmitted |-> {"subscribe", "subscriptionStatus", "resubmit"},
   resold      |-> {"reserve", "subscribe", "subscriptionStatus", "resubmit"}]

Rows == Known(reservation, Reservations) \cup Known(subscription, Subscriptions)

Open(rq) == {s \in Sessions : rq[s].op # "none"}

(* A fee may be allocated from a payment that was cancelled: what is left   *)
(* of the other payments can then be given back although it was promised.   *)
(* Fees are cancelled only where no subscription follows.  Likewise a       *)
(* reservation is not edited while a subscription is made of it: that       *)
(* would bring it back to ACTIVE.                                           *)
Allowed(r) ==
  /\ r.op \in OpsOf[scene]
  /\ r.op = "cancelPayment" => \A u \in Subscriptions : subscription[u].state = "none"
  /\ r.op = "subscribe" => \A p \in Payments : payment[p].state # "CANCELLED"
  /\ (scene = "resubmitted" /\ r.op = "subscribe") => \A u \in Subscriptions : subscription[u].state = "none"
  /\ (scene = "fees" /\ r.op = "subscribe") => r.from # 0
  /\ (scene \in {"fees", "till"} /\ r.op \in {"reserve", "editReservation"}) =>
       r.id = 1 /\ reservation[1].lot \in {0, r.lot}
  /\ scene \in {"lots", "rush"} => r.amount \in {0, 1} /\ r.to # "EXPIRED"
  /\ (scene = "lots" /\ r.op \in {"editReservation", "editSubscription"}) => r.to # NotGiven
  /\ (scene \in {"lots", "rush"} /\ r.op \in {"reserve", "subscribe"}) => Cardinality(Rows) <= 2
  /\ scene = "rush" => r.to # "DRAFT"

SalesNext ==
  /\ Next
  /\ scene \notin {"rush", "till"} => Cardinality(Open(req')) <= 1
  /\ \A s \in Open(req') : Allowed(req'[s])
  /\ \A s, t \in Open(req') :
       (scene = "rush" /\ req'[s].op = "editReservation" /\ req'[t].op = "subscribe")
         => req'[s].id # req'[t].from

Busy == {s \in Sessions : bReq'[s].op # "none"}
BillingNext ==
  /\ B!Next
  /\ \A s \in Busy \cup {Scheduler} : bReq'[s].op \in BillingOps[scene] \cup {"none"}
  /\ scene # "payers" => Cardinality(Busy) <= 1
  /\ (day' # day \/ done' # done) => scene = "automation"

MCInit == Init /\ B!Init /\ scene \in Scenes
MCNext ==
  /\ UNCHANGED scene
  /\ \/ scene \in DOMAIN OpsOf /\ SalesNext /\ UNCHANGED billing
     \/ scene \in DOMAIN BillingOps /\ BillingNext /\ UNCHANGED vars
MCSpec == MCInit /\ [][MCNext]_<<vars, billing, scene>>

Symmetry == Permutations(Sessions) \cup Permutations(Lots)

Sales   == scene \in DOMAIN OpsOf
Billing == scene \in DOMAIN BillingOps

(* What was given for a reservation is spent once: what was allocated to a  *)
(* subscription is still there, and the payments never exceed the fee; nor, *)
(* one request at a time, those of an installment what is owed.             *)
FeesKept ==
  /\ []AllocatedIsKept /\ FeePaidWithinFee
  /\ [](Billing /\ scene # "payers" => KeptWithinOwed)
=============================================================================

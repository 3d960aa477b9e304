------------------------------ MODULE MCProgress ------------------------------
(* What must happen in the end, on a small instance of each component for   *)
(* TLC: the installments of sales are invoiced, the months of leases are    *)
(* invoiced, and the requests of the ledger, of the tenant credits and of   *)
(* the treasury end, deadlocks of rows included; emails are settled.  The   *)
(* scene, chosen with the initial state, says which component runs.         *)
EXTENDS RentBilling, TLC

CONSTANTS cron, s1, s2, l1, l2, w1, i1, i2, p1, p2, h1, A1, A2, t1, t2, k1, NoInvoice, NoPayment

VARIABLES
  scene,
  subscription, invoice, receipt, day, done, req,
  cCredit, cRefund, cDrawn, cInvoice, cReq,
  lInvoice, lPayment, lPaid, lReq,
  tDesk, tBook, tAccount, tTransferred, tBatch, tLine, tReq,
  eMail, eEnabled, eCrashes, eReq

(* A monthly lease from the first of month 1, one of two months from the    *)
(* middle of it; one of them fails once, for one month.                     *)
TwoDayMonths == [m \in 1..12 |-> 2]
Starts == l1 :> 1 @@ l2 :> 2
Terms == l1 :> 1 @@ l2 :> 2

(* Two subscriptions of one installment each, due on days 0 and 1.          *)
Sales == INSTANCE SalesBilling WITH
           Sessions <- {s1}, Scheduler <- cron, Subscriptions <- 1..2, Installments <- 1..2,
           Receipts <- {}, SubscriptionOf <- <<1, 2>>, DueDay <- <<0, 1>>, Owed <- <<1, 1>>,
           MaxAmount <- 1, LastDue <- 1, Endpoints <- {"invoice", "cancelInvoice", "run"}

Credit == INSTANCE TenantCredit WITH
            Sessions <- {s1, s2}, Credits <- {1}, Refunds <- {1}, Invoices <- {i1}, MaxAmount <- 1,
            Bills <- {[total |-> 1, syndic |-> 0]}, Banked <- {}, InCdf <- {},
            Endpoints <- {"create", "issue", "refund", "update", "trashCredit", "restoreCredit",
                          "trashRefund", "restoreRefund"},
            credit <- cCredit, refund <- cRefund, drawn <- cDrawn, invoice <- cInvoice, req <- cReq

(* Payments split over two invoices lock them in either order.              *)
Ledger == INSTANCE PaymentLedger WITH
            Sessions <- {s1, s2}, Invoices <- {i1, i2}, Payments <- {p1, p2}, MaxTotal <- 1,
            Prices <- {1}, Tolerance <- 0, SplitAllowed <- TRUE,
            Endpoints <- {"createInvoice", "createPayment"},
            invoice <- lInvoice, payment <- lPayment, paid <- lPaid, req <- lReq

(* Opposite transfers, and payouts removed from both screens.               *)
Wires == {[from |-> A1, to |-> A2, amount |-> 1], [from |-> A2, to |-> A1, amount |-> 1]}
Money == INSTANCE Treasury WITH
           Sessions <- {s1, s2}, Desks <- {1}, Accounts <- {A1, A2}, Entries <- {},
           TransferKeys <- {t1, t2}, PayoutKeys <- {p1}, Holders <- {h1}, Transfers <- Wires,
           Openings <- {1}, MaxAmount <- 1, MaxPosted <- 1,
           Endpoints <- {"open", "post", "transfer", "payout", "payoutTrash", "bookTrash"},
           desk <- tDesk, book <- tBook, account <- tAccount, transferred <- tTransferred,
           batch <- tBatch, line <- tLine, req <- tReq

MoneyOps(sc) ==
  {"none"} \cup IF sc = "wires" THEN {"transfer"} ELSE {"payout", "payoutTrash", "bookTrash"}

(* A caller that sends emails of one key, and the ticks.                    *)
Mailer == INSTANCE EmailOutbox WITH
            Callers <- {s1}, Ticks <- {cron}, Mails <- 1..2, Keys <- {k1},
            MaxRetries <- 2, MaxPerRun <- 2, MaxCrashes <- 0,
            mail <- eMail, enabled <- eEnabled, crashes <- eCrashes, req <- eReq

salesVars  == <<subscription, invoice, receipt, day, done, req>>
creditVars == <<cCredit, cRefund, cDrawn, cInvoice, cReq>>
ledgerVars == <<lInvoice, lPayment, lPaid, lReq>>
moneyVars  == <<tDesk, tBook, tAccount, tTransferred, tBatch, tLine, tReq>>
mailVars   == <<eMail, eEnabled, eCrashes, eReq>>
all        == <<scene, vars, salesVars, creditVars, ledgerVars, moneyVars, mailVars>>

InSales(A)  == scene = "sales"  /\ A /\ UNCHANGED <<scene, vars, creditVars, ledgerVars, moneyVars, mailVars>>
InRent(A)   == scene = "rent"   /\ A /\ UNCHANGED <<scene, salesVars, creditVars, ledgerVars, moneyVars, mailVars>>
InCredit(A) == scene = "credit" /\ A /\ UNCHANGED <<scene, vars, salesVars, ledgerVars, moneyVars, mailVars>>
InLedger(A) == scene = "ledger" /\ A /\ UNCHANGED <<scene, vars, salesVars, creditVars, moneyVars, mailVars>>
InMoney(A)  ==
  /\ scene \in {"wires", "payouts"}
  /\ A /\ UNCHANGED <<scene, vars, salesVars, creditVars, ledgerVars, mailVars>>
  /\ \A s \in {s1, s2} : tReq'[s].op \in MoneyOps(scene)


(* An answer of the mail server that is lost leaves the row as a refusal     *)
(* does: it is left out here.                                               *)
Lost(w)   == eReq[w].stage = "transmit" /\ eReq'[w].stage = "failed" /\ eMail' # eMail
InMail(A) ==
  /\ scene = "mail"
  /\ A /\ UNCHANGED <<scene, vars, salesVars, creditVars, ledgerVars, moneyVars>>
  /\ ~Lost(s1) /\ ~Lost(cron)

MCInit ==
  /\ scene \in {"sales", "rent", "credit", "ledger", "wires", "payouts", "mail"}
  /\ Init /\ Sales!Init /\ Credit!Init /\ Ledger!Init /\ Money!Init /\ Mailer!Init
  /\ scene # "mail" => eEnabled

MCNext ==
  \/ InSales(Sales!Next) \/ InRent(Next)
  \/ InCredit(Credit!Next) \/ InLedger(Ledger!Next) \/ InMoney(Money!Next) \/ InMail(Mailer!Next)

(* The fairness that each module states, over the scenes; there are no      *)
(* crashes, so nothing restarts.                                            *)
StepOf(s) ==
  \/ InCredit(Credit!Step(s)) \/ InLedger(Ledger!Step(s)) \/ InMoney(Money!Step(s))
  \/ s = s1 /\ InMail(Mailer!Progress(s))
VictimOf(s) ==
  \/ InCredit(Credit!DeadlockVictim(s)) \/ InLedger(Ledger!DeadlockVictim(s))
  \/ InMoney(Money!DeadlockVictim(s))
  \/ s = s1 /\ InSales(Sales!Rollback(s1))

MCSpec ==
  /\ MCInit /\ [][MCNext]_all
  /\ \A s \in {s1, s2} : SF_all(StepOf(s)) /\ WF_all(VictimOf(s))
  /\ WF_all(InSales(Sales!Automation) \/ InRent(Progress(w1)) \/ InMail(Mailer!Progress(cron)))
  /\ WF_all(InSales(Sales!NextDay) \/ InRent(\E month \in Months : CronTick(w1, month))
            \/ InMail(Mailer!Tick(cron)))
  /\ WF_all(InRent(Tick) \/ InMail(\E r \in 1..2 : Mailer!DelayOver(r)))

(* The rows of every component keep their types, the requests of their      *)
(* sessions among them.                                                     *)
TypesOK ==
  /\ scene = "rent" => TypeOK
  /\ scene = "sales" => Sales!TypeOK
  /\ scene = "credit" => Credit!TypeOK
  /\ scene = "ledger" => Ledger!TypeOK
  /\ scene \in {"wires", "payouts"} => Money!TypeOK
  /\ Mailer!TypeOK

(* Every installment that is due is invoiced in the end, in spite of users  *)
(* who cancel invoices and of runs that are rolled back.                    *)
DueIsInvoiced == Sales!DueIsInvoiced

(* A step that ends a run as a success leaves no lease of its month without  *)
(* its invoice, whatever the automation tried before.                       *)
DoneIsBilled == [][NoMonthLeftBehind']_vars

(* A month is done only when every lease has an invoice that covers the     *)
(* months before, and in the end all are invoiced, in spite of an attempt   *)
(* that fails.                                                              *)
MonthsBilled == DoneIsBilled /\ (scene = "rent" => EveryMonthBilled)

(* Every request of the ledger, of the tenant credits and of the treasury   *)
(* ends, those that wait for rows or close a cycle of locks included.       *)
RequestsEnd == Ledger!RequestsEnd /\ Credit!RequestsEnd /\ Money!RequestsEnd

(* Every email is sent, skipped, tried as often as the settings allow or    *)
(* replaced by another row of its key.                                      *)
MailSettles == Mailer!MailSettles
=============================================================================

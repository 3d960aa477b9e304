----------------------------- MODULE RentBilling -------------------------------
(***************************************************************************)
(* The automatic rent billing of automations.service.ts: the minute cron,  *)
(* which after the execution time invoices the leases starting that day    *)
(* and, on the first of the month, runs the monthly billing; the manual    *)
(* run of any month; the invoice made when a lease is activated; and the   *)
(* invoices the users write and delete by hand beside it.                  *)
(*                                                                         *)
(* Every database statement outside a transaction is a step of its own, so *)
(* two runs interleave between the check of the period, the reservation of *)
(* the run, the snapshot of the leases, each invoice and the final status. *)
(* A crash of the server loses every run in flight and leaves its row      *)
(* RUNNING.  One organization.                                             *)
(***************************************************************************)
EXTENDS BillingPeriod

CONSTANTS
    Leases, Workers,        \* Workers: invocations of the service in flight
    StartDate,              \* lease -> date
    Frequency,              \* lease -> billing_frequency_months
    Drafts,                 \* the leases not yet activated at the start
    Terminable,             \* the leases a user may terminate
    Synchronized,           \* organizations 1 and 5: quarterly leases share a cycle
    ManualInvoices,         \* may users write rent invoices by hand?
    LastMonth,              \* bound: the clock stops at the end of this month
    MaxManualRuns, MaxCrashes, MaxFailures, MaxAborts, MaxDeletions, MaxTerminations   \* bounds

ASSUME RentBillingAssumption ==
    /\ StartDate \in [Leases -> Dates]
    /\ Frequency \in [Leases -> 1..12]
    /\ Drafts \subseteq Leases /\ Terminable \subseteq Leases
    /\ Synchronized \in BOOLEAN /\ ManualInvoices \in BOOLEAN
    /\ LastMonth \in Months
    /\ {MaxManualRuns, MaxCrashes, MaxFailures, MaxAborts, MaxDeletions,
        MaxTerminations} \subseteq Nat

VARIABLES
    now,                    \* three ticks a day, see below
    fired,                  \* has the cron fired since the last tick?
    up,                     \* is the server running?
    leaseRow,               \* status and end date; 0 is no end date
    invoices,               \* the live RENT invoices
    runs,                   \* automation_runs, in the order of their ids
    worker,
    spent                   \* how much of each bound is used

vars == <<now, fired, up, leaseRow, invoices, runs, worker, spent>>

-----------------------------------------------------------------------------
(* The clock.  A day has three ticks: before the execution time (23:00), and  *)
(* the two half hours after it.  A RUNNING row is stale after 30 minutes.     *)

Today == now \div 3 + 1
InWindow == now % 3 # 0
Horizon == 3 * LastDay(LastMonth) - 1

IsStale(started) == started < now

-----------------------------------------------------------------------------
(* The rows. *)

NoPeriod == [start |-> 0, end |-> 0]
Periods == [start : Dates, end : Dates]

Overlap(p, q) == p.start <= q.end /\ q.start <= p.end

(* Variant of Invoice: the start is written a day early, as a date that goes *)
(* through universal time is.                                                *)
InvoiceADayEarly(l, period) ==
    [lease |-> l, start |-> Max({1, period.start - 1}), end |-> period.end]

Invoice(l, period) == [lease |-> l, start |-> period.start, end |-> period.end]
InvoiceRows == [lease : Leases, start : Dates, end : Dates]

RunStatuses == {"RUNNING", "SUCCESS", "PARTIAL", "FAILED", "SKIPPED"}
Run(month, started) == [month |-> month, started |-> started, status |-> "RUNNING"]
RunRows == [month : Months, started : Nat, status : RunStatuses]

Outcomes == {"created", "skipped", "failed"}

Idle == [pc |-> "idle", month |-> 0, date |-> 0, opening |-> {}, due |-> <<>>,
         run |-> 0, lease |-> {}, results |-> {}]

Phases == {"idle", "opening", "check", "reserve", "fetch", "bill", "create", "notify"}

Bounds == {"manual", "crash", "failure", "abort", "deletion", "termination"}

TypeOK ==
    /\ now \in 0..Horizon
    /\ fired \in BOOLEAN /\ up \in BOOLEAN
    /\ leaseRow \in [Leases -> [status : {"DRAFT", "ACTIVE", "TERMINATED"}, end : Dates \cup {0}]]
    /\ invoices \subseteq InvoiceRows
    /\ runs \in Seq(RunRows)
    /\ \A w \in Workers :
         /\ worker[w].pc \in Phases
         /\ worker[w].month \in Months \cup {0}
         /\ worker[w].date \in Dates \cup {0}
         /\ worker[w].opening \subseteq Leases
         /\ \A l \in DOMAIN worker[w].due : worker[w].due[l] \in Periods \cup {NoPeriod}
         /\ worker[w].run \in DOMAIN runs \cup {0}
         /\ worker[w].lease \subseteq Leases
         /\ worker[w].results \subseteq Outcomes
    /\ spent \in [Bounds -> Nat]

Init ==
    /\ now = 0
    /\ fired = FALSE
    /\ up = TRUE
    /\ leaseRow = [l \in Leases |-> [status |-> IF l \in Drafts THEN "DRAFT" ELSE "ACTIVE", end |-> 0]]
    /\ invoices = {}
    /\ runs = <<>>
    /\ worker = [w \in Workers |-> Idle]
    /\ spent = [bound \in Bounds |-> 0]

Spend(bound, limit) ==
    /\ spent[bound] < limit
    /\ spent' = [spent EXCEPT ![bound] = spent[bound] + 1]

Become(w, state) == worker' = [worker EXCEPT ![w] = state]

-----------------------------------------------------------------------------
(* Which period a lease is due. *)

InvoicesOf(l) == {i \in invoices : i.lease = l}

LastEnd(l) == IF InvoicesOf(l) = {} THEN 0 ELSE Max({i.end : i \in InvoicesOf(l)})

Quarterlies == {l \in Leases : leaseRow[l].status = "ACTIVE" /\ Frequency[l] = 3}

(* All leases of a model belong to one tenant. *)
AnchorMonth == MonthOf(Min({StartDate[l] : l \in Quarterlies}))

AlignedPeriod(l, base) ==
    LET billed    == LastEnd(l) # 0
        reference == IF billed THEN base ELSE MonthOf(StartDate[l])
        opens     == AnchorMonth + ((reference - AnchorMonth) \div 3) * 3
        issue     == IF billed THEN FirstDay[opens] ELSE StartDate[l]
    IN  IF reference >= AnchorMonth /\ MonthOf(issue) = base
        THEN Period(issue, LastDay(opens + 2)) ELSE NoPeriod

FollowingPeriodFromBase(l, base) ==
    LET next == IF LastEnd(l) # 0 THEN Period(FirstDay[base], LastDay(base + Frequency[l] - 1))
                                  ELSE InitialPeriod(StartDate[l], Frequency[l])
    IN  IF MonthOf(next.start) = base THEN next ELSE NoPeriod

FollowingPeriod(l, base) ==
    LET next == IF LastEnd(l) # 0 THEN NextFullPeriod(LastEnd(l), Frequency[l])
                                  ELSE InitialPeriod(StartDate[l], Frequency[l])
    IN  IF MonthOf(next.start) = base THEN next ELSE NoPeriod

NextPeriodForLease(l, base) ==
    IF Synchronized /\ Frequency[l] = 3 /\ Quarterlies # {}
    THEN AlignedPeriod(l, base) ELSE FollowingPeriod(l, base)

AlreadyBilledThatMonth(l, period) ==
    \E i \in InvoicesOf(l) : MonthOf(i.start) = MonthOf(period.start)

(* findExistingRentInvoice and assertNoDuplicateRentInvoice: the same month   *)
(* of billing, or any day in common.                                          *)
AlreadyBilled(l, period) ==
    \E i \in InvoicesOf(l) :
        \/ MonthOf(i.start) = MonthOf(period.start)
        \/ Overlap(i, period)

Eligible(l, base, asOf) ==
    /\ leaseRow[l].status = "ACTIVE"
    /\ StartDate[l] <= LastDay(base)
    /\ StartDate[l] <= asOf
    /\ leaseRow[l].end = 0 \/ leaseRow[l].end >= FirstDay[base]

(* createRentInvoice re-reads the lease and its last invoice under the lease's *)
(* row lock and commits the invoice, or refuses.                               *)
Billable(l, base, asOf) ==
    /\ Eligible(l, base, asOf)
    /\ NextPeriodForLease(l, base) # NoPeriod
    /\ ~AlreadyBilled(l, NextPeriodForLease(l, base))

InsertInvoice(l, base) ==
    invoices' = invoices \cup {Invoice(l, NextPeriodForLease(l, base))}

-----------------------------------------------------------------------------
(* Which runs block a period. *)

LatestRun(month) ==
    LET ids == {r \in DOMAIN runs : runs[r].month = month}
    IN  IF ids = {} THEN 0 ELSE Max(ids)

BlockedUnlessSucceeded(month) ==
    LET r == LatestRun(month)
    IN  /\ r # 0
        /\ \/ runs[r].status = "RUNNING" /\ ~IsStale(runs[r].started)
           \/ runs[r].status = "SKIPPED"

BlockedByAny(month) == LatestRun(month) # 0

Blocked(month) ==
    LET r == LatestRun(month)
    IN  /\ r # 0
        /\ \/ runs[r].status = "RUNNING" /\ ~IsStale(runs[r].started)
           \/ runs[r].status \in {"SUCCESS", "SKIPPED"}

RunningRow(month) ==
    LET ids == {r \in DOMAIN runs : runs[r].month = month /\ runs[r].status = "RUNNING"}
    IN  IF ids = {} THEN 0 ELSE Max(ids)

RunStatusCompleted(eligible, results) == "COMPLETED"

RunStatusOptimistic(eligible, results) ==
    IF "created" \in results THEN "SUCCESS" ELSE "SKIPPED"

RunStatus(eligible, results) ==
    IF ~eligible THEN "SKIPPED"
    ELSE IF "failed" \in results
         THEN IF results = {"failed"} THEN "FAILED" ELSE "PARTIAL"
         ELSE IF "created" \in results THEN "SUCCESS" ELSE "SKIPPED"

-----------------------------------------------------------------------------
(* The cron, once a minute: nothing before the execution time; then the leases *)
(* that start today and have no invoice; then, on the first, the month.        *)

CronTick(w, month) ==
    /\ up /\ InWindow
    /\ FirstDay[month] <= Today /\ Today <= LastDay(month)
    /\ worker[w].pc = "idle"
    /\ fired' = TRUE
    /\ Become(w, [Idle EXCEPT !.pc = "opening", !.month = month, !.date = Today,
                              !.opening = {l \in Leases : StartDate[l] = Today /\ LastEnd(l) = 0}])
    /\ UNCHANGED <<now, up, leaseRow, invoices, runs, spent>>

OpenLease(w, l) ==
    /\ worker[w].pc = "opening"
    /\ l \in worker[w].opening
    /\ Become(w, [worker[w] EXCEPT !.opening = @ \ {l}])
    /\ LET base == MonthOf(StartDate[l])
       IN  IF Billable(l, base, worker[w].date)
           THEN InsertInvoice(l, base) ELSE UNCHANGED invoices
    /\ UNCHANGED <<now, fired, up, leaseRow, runs, spent>>

(* The transaction of an opening invoice fails; the error is only logged. *)
OpenLeaseFails(w, l) ==
    /\ worker[w].pc = "opening"
    /\ l \in worker[w].opening
    /\ Spend("failure", MaxFailures)
    /\ Become(w, [worker[w] EXCEPT !.opening = @ \ {l}])
    /\ UNCHANGED <<now, fired, up, leaseRow, invoices, runs>>

(* On the first of the month the cron goes on to the month; an activation, and *)
(* any other day, ends here.                                                   *)
OpeningsDone(w) ==
    /\ worker[w].pc = "opening"
    /\ worker[w].opening = {}
    /\ Become(w, IF worker[w].month # 0 /\ worker[w].date = FirstDay[worker[w].month]
                 THEN [worker[w] EXCEPT !.pc = "check"] ELSE Idle)
    /\ UNCHANGED <<now, fired, up, leaseRow, invoices, runs, spent>>

(* runMonthlyRentBillingManually: a user names any month. *)
RequestRun(w, month) ==
    /\ up
    /\ worker[w].pc = "idle"
    /\ Spend("manual", MaxManualRuns)
    /\ Become(w, [Idle EXCEPT !.pc = "check", !.month = month])
    /\ UNCHANGED <<now, fired, up, leaseRow, invoices, runs>>

-----------------------------------------------------------------------------
(* A monthly run. *)

CheckPeriod(w) ==
    /\ worker[w].pc = "check"
    /\ Become(w, IF Blocked(worker[w].month) THEN Idle
                 ELSE [worker[w] EXCEPT !.pc = "reserve"])
    /\ UNCHANGED <<now, fired, up, leaseRow, invoices, runs, spent>>

ReserveBesideStale(w) ==
    LET month  == worker[w].month
        row    == RunningRow(month)
    IN  /\ worker[w].pc = "reserve"
        /\ row # 0 => IsStale(runs[row].started)
        /\ runs' = Append(runs, Run(month, now))
        /\ Become(w, [worker[w] EXCEPT !.pc = "fetch", !.run = Len(runs) + 1])
        /\ UNCHANGED <<now, fired, up, leaseRow, invoices, spent>>

(* reserveRun, one transaction under an advisory lock on the period: a RUNNING *)
(* row refuses the run unless it is stale, and then it is closed as FAILED.    *)
Reserve(w) ==
    LET month  == worker[w].month
        row    == RunningRow(month)
        others == [r \in DOMAIN runs |->
                     IF r = row THEN [runs[r] EXCEPT !.status = "FAILED"] ELSE runs[r]]
    IN  /\ worker[w].pc = "reserve"
        /\ row # 0 => IsStale(runs[row].started)
        /\ runs' = Append(others, Run(month, now))
        /\ Become(w, [worker[w] EXCEPT !.pc = "fetch", !.run = Len(runs) + 1])
        /\ UNCHANGED <<now, fired, up, leaseRow, invoices, spent>>

ReserveRefused(w) ==
    LET row == RunningRow(worker[w].month)
    IN  /\ worker[w].pc = "reserve"
        /\ row # 0 /\ ~IsStale(runs[row].started)
        /\ Become(w, Idle)
        /\ UNCHANGED <<now, fired, up, leaseRow, invoices, runs, spent>>

(* fetchEligibleLeases as of the first of the month, and the period each lease *)
(* is due as far as this snapshot can tell.                                    *)
FetchLeases(w) ==
    LET month    == worker[w].month
        eligible == {l \in Leases : Eligible(l, month, FirstDay[month])}
    IN  /\ worker[w].pc = "fetch"
        /\ Become(w, [worker[w] EXCEPT
                        !.pc = "bill", !.due = [l \in eligible |-> NextPeriodForLease(l, month)]])
        /\ UNCHANGED <<now, fired, up, leaseRow, invoices, runs, spent>>

(* A lease the loop is done with, and how it went. *)
Done(w, l, outcome) ==
    [worker[w] EXCEPT !.pc = "bill", !.lease = {},
                      !.due = [k \in DOMAIN worker[w].due \ {l} |-> worker[w].due[k]],
                      !.results = worker[w].results \cup {outcome}]

ConsiderLease(w, l) ==
    /\ worker[w].pc = "bill"
    /\ l \in DOMAIN worker[w].due
    /\ Become(w, IF worker[w].due[l] = NoPeriod \/ AlreadyBilled(l, worker[w].due[l])
                 THEN Done(w, l, "skipped")
                 ELSE [worker[w] EXCEPT !.pc = "create", !.lease = {l}])
    /\ UNCHANGED <<now, fired, up, leaseRow, invoices, runs, spent>>

CreateRentInvoice(w, l) ==
    LET month == worker[w].month
    IN  /\ worker[w].pc = "create"
        /\ l \in worker[w].lease
        /\ IF Billable(l, month, FirstDay[month])
           THEN /\ InsertInvoice(l, month)
                /\ Become(w, [worker[w] EXCEPT !.pc = "notify"])
           ELSE /\ Become(w, Done(w, l, "failed"))
                /\ UNCHANGED invoices
        /\ UNCHANGED <<now, fired, up, leaseRow, runs, spent>>

NotifyTenant(w, l) ==
    /\ worker[w].pc = "notify"
    /\ l \in worker[w].lease
    /\ Become(w, Done(w, l, "created"))
    /\ UNCHANGED <<now, fired, up, leaseRow, invoices, runs, spent>>

(* The invoice's transaction fails, or it committed and recording its          *)
(* communications fails: both count as a failure of the lease.                 *)
LeaseFails(w, l) ==
    /\ worker[w].pc \in {"create", "notify"}
    /\ l \in worker[w].lease
    /\ Spend("failure", MaxFailures)
    /\ Become(w, Done(w, l, "failed"))
    /\ UNCHANGED <<now, fired, up, leaseRow, invoices, runs>>

(* The final UPDATE names the run's id and nothing else. *)
FinishRun(w) ==
    /\ worker[w].pc = "bill"
    /\ DOMAIN worker[w].due = {}
    /\ runs' = [runs EXCEPT ![worker[w].run].status =
                  RunStatus(worker[w].results # {}, worker[w].results)]
    /\ Become(w, Idle)
    /\ UNCHANGED <<now, fired, up, leaseRow, invoices, spent>>

(* A statement outside the per-lease handler throws: the run stops there. *)
AbandonRun(w) ==
    /\ worker[w].pc \in {"fetch", "bill"}
    /\ Spend("abort", MaxAborts)
    /\ Become(w, Idle)
    /\ UNCHANGED <<now, fired, up, leaseRow, invoices, runs>>

-----------------------------------------------------------------------------
(* The leases and the invoices' other hands. *)

(* The status is committed first; the lease's first invoice follows, and its   *)
(* failure is only logged.                                                     *)
ActivateLease(w, l) ==
    /\ up
    /\ worker[w].pc = "idle"
    /\ leaseRow[l].status # "ACTIVE"
    /\ leaseRow' = [leaseRow EXCEPT ![l].status = "ACTIVE"]
    /\ Become(w, IF StartDate[l] <= Today
                 THEN [Idle EXCEPT !.pc = "opening", !.date = Today,
                                   !.opening = {k \in {l} : LastEnd(k) = 0}]
                 ELSE Idle)
    /\ UNCHANGED <<now, fired, up, invoices, runs, spent>>

TerminateLease(l) ==
    /\ up
    /\ l \in Terminable
    /\ Spend("termination", MaxTerminations)
    /\ leaseRow' = [leaseRow EXCEPT ![l] =
                   [status |-> "TERMINATED", end |-> IF @.end = 0 THEN Today ELSE @.end]]
    /\ UNCHANGED <<now, fired, up, invoices, runs, worker>>

(* invoices.create: compares only the month of billing. *)
WriteInvoice(l, month) ==
    /\ up /\ ManualInvoices
    /\ \A i \in InvoicesOf(l) : MonthOf(i.start) # month
    /\ invoices' = invoices \cup {Invoice(l, Period(FirstDay[month], LastDay(month)))}
    /\ UNCHANGED <<now, fired, up, leaseRow, runs, worker, spent>>

DeleteInvoice(i) ==
    /\ up
    /\ Spend("deletion", MaxDeletions)
    /\ invoices' = invoices \ {i}
    /\ UNCHANGED <<now, fired, up, leaseRow, runs, worker>>

-----------------------------------------------------------------------------
(* The server and the clock. *)

Crash ==
    /\ up
    /\ Spend("crash", MaxCrashes)
    /\ up' = FALSE
    /\ worker' = [w \in Workers |-> Idle]
    /\ UNCHANGED <<now, fired, leaseRow, invoices, runs>>

Restart ==
    /\ ~up
    /\ up' = TRUE
    /\ fired' = FALSE
    /\ UNCHANGED <<now, leaseRow, invoices, runs, worker, spent>>

(* A running server fires its cron within every half hour of the window. *)
Tick ==
    /\ now < Horizon
    /\ up /\ InWindow => fired
    /\ now' = now + 1
    /\ fired' = FALSE
    /\ UNCHANGED <<up, leaseRow, invoices, runs, worker, spent>>

Progress(w) ==
    \/ \E l \in Leases :
         OpenLease(w, l) \/ ConsiderLease(w, l) \/ CreateRentInvoice(w, l) \/ NotifyTenant(w, l)
    \/ OpeningsDone(w) \/ CheckPeriod(w) \/ Reserve(w) \/ ReserveRefused(w)
    \/ FetchLeases(w) \/ FinishRun(w)

Fails(w) == AbandonRun(w) \/ \E l \in Leases : OpenLeaseFails(w, l) \/ LeaseFails(w, l)

Users ==
    \/ \E w \in Workers :
         \/ \E month \in 1..LastMonth : RequestRun(w, month)
         \/ \E l \in Leases : ActivateLease(w, l)
    \/ \E l \in Leases : TerminateLease(l) \/ \E month \in 1..LastMonth : WriteInvoice(l, month)
    \/ \E i \in invoices : DeleteInvoice(i)

Next ==
    \/ \E w \in Workers :
         \/ \E month \in Months : CronTick(w, month)
         \/ Progress(w) \/ Fails(w)
    \/ Users \/ Crash \/ Restart \/ Tick

Spec == Init /\ [][Next]_vars

(* One invocation of the service at a time, activations included.              *)
OneAtATime ==
    /\ \A v, w \in Workers : v # w => Idle \in {worker'[v], worker'[w]}
    /\ \A l \in Leases :
          leaseRow[l].status # "ACTIVE" /\ leaseRow'[l].status = "ACTIVE" =>
            \A w \in Workers : worker[w] = Idle
SerialSpec == Init /\ [][Next /\ OneAtATime]_vars

(* The runtime keeps running the promises it started, restarts the server, and *)
(* time passes.                                                                *)
FairSpec ==
    /\ Spec
    /\ \A w \in Workers : /\ WF_vars(Progress(w))
                        /\ WF_vars(\E month \in Months : CronTick(w, month))
    /\ WF_vars(Restart) /\ WF_vars(Tick)

-----------------------------------------------------------------------------
(* Properties. *)

(* No day of a lease is invoiced twice: two live rent invoices of a lease      *)
(* never have a day in common.  assertNoDuplicateRentInvoice under the lease's *)
(* row lock is what keeps it, whoever runs the billing and however often.      *)
NoOverlap ==
    \A i, j \in invoices : i.lease = j.lease /\ i # j => ~Overlap(i, j)

(* Beside the users' own invoices the billing still never charges a day again: *)
(* whatever they wrote or deleted by hand meanwhile, an invoice that a run or  *)
(* an opening inserts has no day in common with those of its lease.            *)
NeverBilledAgain ==
    [][ worker' # worker =>
          \A i \in invoices' \ invoices :
            \A j \in InvoicesOf(i.lease) : ~Overlap(i, j) ]_vars

(* The rent of a lease is invoiced without holes: every invoice opens on the   *)
(* lease's start date or the day after another one ends, whatever runs were    *)
(* missed, repeated or made for a future month.                                *)
Contiguous ==
    \A i \in invoices :
        \/ i.start = StartDate[i.lease]
        \/ \E j \in InvoicesOf(i.lease) : j.end + 1 = i.start

(* A period has at most one RUNNING row, although rows left by a crash are     *)
(* RUNNING too and are taken over while their run may still be alive.          *)
OneRunning ==
    \A r, s \in DOMAIN runs :
        /\ runs[r].month = runs[s].month
        /\ runs[r].status = "RUNNING" /\ runs[s].status = "RUNNING"
        => r = s

(* "SUCCESS must block rerun": no run of a period is reserved when the latest  *)
(* one of that period succeeded.                                               *)
SuccessBlocksRerun ==
    [][ \A r \in DOMAIN runs' \ DOMAIN runs :
          LatestRun(runs'[r].month) # 0 =>
            runs[LatestRun(runs'[r].month)].status # "SUCCESS" ]_vars

(* A run that closes its month for good leaves nothing to bill in it: when it  *)
(* ends as SUCCESS or SKIPPED, the statuses that block every later run of the  *)
(* month, no lease is billable for that month any more.                        *)
NothingLeftDue ==
    [][ \A r \in DOMAIN runs :
          /\ runs[r].status = "RUNNING"
          /\ runs'[r].status \in {"SUCCESS", "SKIPPED"}
          => \A l \in Leases : ~Billable(l, runs[r].month, FirstDay[runs[r].month]) ]_vars

(* The end of a run is final: a month that ended as SUCCESS is not run again,  *)
(* and it ended so only when nothing was left to bill in it, in spite of leases *)
(* that fail, crashes and retries.                                             *)
SuccessIsFinal == SuccessBlocksRerun /\ NothingLeftDue

Covers(i, m) == i.start <= LastDay(m) /\ FirstDay[m] <= i.end

(* A month is never left behind: once a later month has been processed, a      *)
(* lease that was in force has an invoice that covers the earlier month.       *)
NoMonthLeftBehind ==
    \A r \in DOMAIN runs, l \in Leases \ (Drafts \cup Terminable) :
        runs[r].status \in {"SUCCESS", "SKIPPED"} =>
            \A m \in MonthOf(StartDate[l])..(runs[r].month - 1) :
                \E i \in InvoicesOf(l) : Covers(i, m)

(* In the end every month of every lease is invoiced, the opening one          *)
(* included: the cron's retries make up for an attempt that fails, as long as  *)
(* the server is up on the day.                                                *)
EveryMonthBilled ==
    <>[](\A l \in Leases : \A m \in MonthOf(StartDate[l])..LastMonth :
            \E i \in InvoicesOf(l) : Covers(i, m))

=============================================================================

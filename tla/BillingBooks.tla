------------------------------ MODULE BillingBooks -----------------------------
(***************************************************************************)
(* What one lease has been invoiced, period after period, and what that     *)
(* must come to.  BillingChain has the steps from one period to the next.   *)
(***************************************************************************)
EXTENDS BillingPeriod

CONSTANT Price          \* component -> monthly amount

VARIABLES
    start,              \* the lease's start date
    period,             \* the last period invoiced
    opening,            \* frequency of the first period
    first,              \* is it the lease's first?
    billedDays,         \* days invoiced so far
    billed              \* component -> cents invoiced so far

LinesOf(p, c) == {line \in CycleForPeriod(p, Price) : line.component = c}

Amount(p, c) == TotalOf(LinesOf(p, c))

(* The days a period's lines count for one component.                        *)
Days(p) ==
    LET c == CHOOSE x \in DOMAIN Price : TRUE
    IN  SumFunction([line \in LinesOf(p, c) |-> line.days])

-----------------------------------------------------------------------------
(* Every day of the lease is invoiced exactly once: the days counted on the  *)
(* lines of the invoices so far are the days from the lease's start to the   *)
(* end of the last period, whatever the frequencies were.                    *)
EveryDayOnce == billedDays = BillableDays(start, period.end)

(* What a lease has been charged does not depend on how its months were      *)
(* grouped into invoices: the opening month pro rata, every later month in   *)
(* full.  The reference is computed month by month, without periods.         *)
GroupingIsNeutral ==
    \A c \in DOMAIN Price :
        LET m0 == MonthOf(start)
        IN  billed[c] =
              ProratedAmount(Price[c], LastDay(m0) - start + 1, MonthLength[m0])
                + Price[c] * (MonthOf(period.end) - m0)

(* The module's two calculators agree line by line on a lease's first        *)
(* period: calculateInitialBillingCycle, which walks whole months from the   *)
(* start date, and calculateBillingCycleForPeriod, which clips months.       *)
CalculatorsAgree ==
    first => InitialCycle(start, opening, Price) = CycleForPeriod(period, Price)

(* The periods of a lease bill every day once, what they charge does not    *)
(* depend on how months are grouped, and the two calculators of the code    *)
(* agree on the first period (nextBillingPeriodForLease).                   *)
BillingFollows == EveryDayOnce /\ GroupingIsNeutral /\ CalculatorsAgree
=============================================================================

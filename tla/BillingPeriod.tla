----------------------------- MODULE BillingPeriod -----------------------------
(***************************************************************************)
(* The rent calendar of backend/src/utils/billing-period.ts.  A date is a  *)
(* day number, day 1 being the first day of month 1; MonthLength gives the *)
(* days of each month.  Money is in cents.  A billing period runs from its *)
(* first day to the last day of a month; a cycle prices it month by month, *)
(* prorating the months it covers in part.                                 *)
(***************************************************************************)
EXTENDS Integers, Sequences, FiniteSetsExt, Functions

CONSTANT MonthLength            \* the days of month 1, 2, ...

ASSUME MonthLengthAssumption == MonthLength \in Seq(Nat \ {0})

Months == DOMAIN MonthLength

FirstDay[m \in 1..(Len(MonthLength) + 1)] ==
    IF m = 1 THEN 1 ELSE FirstDay[m - 1] + MonthLength[m - 1]

LastDay(m) == FirstDay[m + 1] - 1

Dates == 1..LastDay(Len(MonthLength))

MonthOf(date) == CHOOSE m \in Months : FirstDay[m] <= date /\ date <= LastDay(m)

Period(first, last) == [start |-> first, end |-> last]

-----------------------------------------------------------------------------
(* The periods. *)

InitialPeriod(start, frequency) ==
    Period(start, LastDay(MonthOf(start) + frequency - 1))

NextFullPeriodSameDay(previousEnd, frequency) ==
    Period(previousEnd, LastDay(MonthOf(previousEnd + 1) + frequency - 1))

NextFullPeriod(previousEnd, frequency) ==
    Period(previousEnd + 1, LastDay(MonthOf(previousEnd + 1) + frequency - 1))

BillableDays(first, last) == IF last < first THEN 0 ELSE last - first + 1

-----------------------------------------------------------------------------
(* Their prices.  roundMoney rounds to the nearest cent, halves up. *)

RoundedQuotient(n, d) == (2 * n + d) \div (2 * d)

ProratedAmountOnThirtyDays(monthly, days, daysInMonth) ==
    RoundedQuotient(monthly * days, 30)

ProratedAmount(monthly, days, daysInMonth) ==
    IF daysInMonth > 0 THEN RoundedQuotient(monthly * days, daysInMonth) ELSE 0

Line(month, component, first, last, prorated, monthly) ==
    [ month     |-> month,
      component |-> component,
      start     |-> first,
      end       |-> last,
      days      |-> BillableDays(first, last),
      prorated  |-> prorated,
      amount    |-> IF prorated
                    THEN ProratedAmount(monthly, BillableDays(first, last), MonthLength[month])
                    ELSE monthly ]

TotalOf(lines) == SumFunction([line \in lines |-> line.amount])

(* calculateInitialBillingCycle: only the opening month can be prorated, and *)
(* every month is taken to its last day.                                    *)
InitialCycle(start, frequency, price) ==
    LET opening == MonthOf(start)
        From(m) == IF m = opening THEN start ELSE FirstDay[m]
    IN  { Line(m, c, From(m), LastDay(m), m = opening /\ start > FirstDay[m], price[c]) :
            m \in opening..(opening + frequency - 1), c \in DOMAIN price }

CycleForPeriodFromMonthStart(period, price) ==
    { Line(m, c, FirstDay[m], LastDay(m), FALSE, price[c]) :
        m \in MonthOf(period.start)..MonthOf(period.end), c \in DOMAIN price }

(* calculateBillingCycleForPeriod: walks the months of a given period and    *)
(* clips the first and the last one to it.                                  *)
CycleForPeriod(period, price) ==
    LET opening == MonthOf(period.start)
        From(m) == IF m = opening THEN period.start ELSE FirstDay[m]
        To(m)   == IF LastDay(m) > period.end THEN period.end ELSE LastDay(m)
    IN  { Line(m, c, From(m), To(m),
               From(m) > FirstDay[m] \/ To(m) < LastDay(m), price[c]) :
            m \in opening..MonthOf(period.end), c \in DOMAIN price }

=============================================================================

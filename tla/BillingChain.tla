----------------------------- MODULE BillingChain ------------------------------
(***************************************************************************)
(* The chain of billing periods of one lease: the first period opens on    *)
(* the lease's start date, each later one the day after the end of the one *)
(* before it, and each is priced by calculateBillingCycleForPeriod, the    *)
(* way recurringAmountsForPeriod prices an invoice.  The frequency may be  *)
(* edited between two invoices.                                            *)
(***************************************************************************)
EXTENDS BillingBooks

CONSTANTS
    LeaseStarts,        \* the start dates to try, a set of Dates
    Frequencies         \* billing_frequency_months to try, in 1..12

vars == <<start, period, opening, first, billedDays, billed>>

Fits(date, frequency) == MonthOf(date) + frequency - 1 \in Months

Init ==
    /\ start \in LeaseStarts
    /\ opening \in Frequencies
    /\ Fits(start, opening)
    /\ period = InitialPeriod(start, opening)
    /\ first = TRUE
    /\ billedDays = Days(period)
    /\ billed = [c \in DOMAIN Price |-> Amount(period, c)]

BillNext(frequency) ==
    /\ period.end < LastDay(Len(MonthLength))
    /\ Fits(period.end + 1, frequency)
    /\ period' = NextFullPeriod(period.end, frequency)
    /\ first' = FALSE
    /\ billedDays' = billedDays + Days(period')
    /\ billed' = [c \in DOMAIN Price |-> billed[c] + Amount(period', c)]
    /\ UNCHANGED <<start, opening>>

Next == \E frequency \in Frequencies : BillNext(frequency)

Spec == Init /\ [][Next]_vars
=============================================================================

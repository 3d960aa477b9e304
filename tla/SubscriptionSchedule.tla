-------------------------- MODULE SubscriptionSchedule --------------------------
(***************************************************************************)
(* The payment plan of a lot: simulateSalesSubscriptionPlan of              *)
(* sales/subscription-schedule.ts.  The price less a deposit is spread over *)
(* installments of whole cents, one every month or quarter, or over the     *)
(* installments that the seller has written himself.                        *)
(*                                                                         *)
(* Money is in cents, percentages in hundredths; an optional field is a     *)
(* sequence that is empty or holds its value.  Dates are those of           *)
(* BillingPeriod.                                                           *)
(***************************************************************************)
EXTENDS BillingPeriod

CONSTANTS
  MinimumDeposit,       \* what the organization asks for: a part of the price, or an amount
  MaximumInstallments   \* maximum_installment_count

Optional(field, default) == IF field = <<>> THEN default ELSE Head(field)

FinalPrice(plan) == Optional(plan.negotiated, plan.catalog - Optional(plan.discount, 0))

Deposit(plan) ==
  IF plan.depositType = "PERCENTAGE" THEN RoundedQuotient(FinalPrice(plan) * plan.deposit, 10000)
  ELSE plan.deposit

DepositPercentage(plan) ==
  IF plan.depositType = "PERCENTAGE" THEN plan.deposit
  ELSE IF FinalPrice(plan) = 0 THEN 0 ELSE RoundedQuotient(Deposit(plan) * 10000, FinalPrice(plan))

FinancedBalance(plan) == FinalPrice(plan) - Deposit(plan)

Total(lines) == SumFunction([i \in DOMAIN lines |-> lines[i].amount])

CustomTotal(plan) == Total(plan.custom)

(* One cent more or less than the balance may pass: the comparison is made  *)
(* in floating point.                                                       *)
Accepted(plan) ==
  LET gap == CustomTotal(plan) - FinancedBalance(plan)
  IN /\ FinalPrice(plan) \in 0..plan.catalog
     /\ (plan.discount # <<>> /\ plan.negotiated # <<>>) =>
          plan.catalog - Head(plan.negotiated) - Head(plan.discount) \in -1..1
     /\ Deposit(plan) <= FinalPrice(plan)
     /\ MinimumDeposit.type = "PERCENTAGE" => DepositPercentage(plan) >= MinimumDeposit.value
     /\ MinimumDeposit.type = "FIXED" => Deposit(plan) >= MinimumDeposit.value
     /\ plan.count <= MaximumInstallments
     /\ (FinancedBalance(plan) > 0) <=> (plan.count > 0)
     /\ (FinancedBalance(plan) > 0 /\ plan.frequency = "CUSTOM") => plan.custom # <<>> /\ gap \in -1..1

-----------------------------------------------------------------------------
(* Variant of AddMonths: the 31st of a month of 30 days is the 1st of the   *)
(* next one.                                                                *)
AddMonthsOverflowing(date, months) ==
  FirstDay[MonthOf(date) + months] + date - FirstDay[MonthOf(date)]

AddMonths(date, months) ==
  LET month == MonthOf(date) + months
  IN FirstDay[month] + Min({date - FirstDay[MonthOf(date)] + 1, MonthLength[month]}) - 1

(* Variant of BaseAmount: fractions of a cent are dropped.                  *)
BaseAmountTruncated(plan) == FinancedBalance(plan) \div plan.count

BaseAmount(plan) == RoundedQuotient(FinancedBalance(plan), plan.count)

(* Variant of Amount: the last installment is one like the others.          *)
AmountAlike(plan, i) == BaseAmount(plan)

Amount(plan, i) ==
  IF i = plan.count THEN FinancedBalance(plan) - (plan.count - 1) * BaseAmount(plan) ELSE BaseAmount(plan)

Interval(plan) == IF plan.frequency = "QUARTERLY" THEN 3 ELSE 1

DepositLine(plan) ==
  IF Deposit(plan) > 0 THEN <<[type |-> "DEPOSIT", due |-> plan.first, amount |-> Deposit(plan)]>> ELSE <<>>

Balance(plan) ==
  IF FinancedBalance(plan) = 0 THEN <<>>
  ELSE IF plan.frequency = "CUSTOM" THEN plan.custom
  ELSE [i \in 1..plan.count |->
         [type   |-> IF i = plan.count /\ plan.count > 1 THEN "FINAL" ELSE "REGULAR",
          due    |-> AddMonths(plan.first, Interval(plan) * (i - 1)),
          amount |-> Amount(plan, i)]]

SimulateSalesSubscriptionPlan(plan) == DepositLine(plan) \o Balance(plan)

-----------------------------------------------------------------------------
(* Properties of a plan that is accepted.                                   *)

(* The buyer is asked for the price he agreed to: no cent is lost or added  *)
(* by the rounding of the installments; those written by hand may be one    *)
(* cent off.                                                                *)
PlanCoversPrice(plan) ==
  LET gap == Total(SimulateSalesSubscriptionPlan(plan)) - FinalPrice(plan)
  IN Accepted(plan) => IF plan.frequency = "CUSTOM" THEN gap \in -1..1 ELSE gap = 0

(* The last installment takes the rounding of the others, half a cent each: *)
(* it differs from them by no more, and a balance that is not minute never  *)
(* ends with a negative one.                                                *)
RoundingAbsorbed(plan) ==
  LET lines == Balance(plan)
      n     == Len(lines)
  IN (Accepted(plan) /\ plan.frequency # "CUSTOM" /\ n > 0) =>
       /\ 2 * (lines[n].amount - lines[1].amount) \in -n..n
       /\ 2 * FinancedBalance(plan) > n * (n - 1) => lines[n].amount > 0

(* Installments fall due in their order, one in each month or quarter, also *)
(* when the first is due on a day that later months do not have.            *)
DueDatesFollow(plan) ==
  LET lines == Balance(plan)
  IN (Accepted(plan) /\ plan.frequency # "CUSTOM") =>
       \A i \in 1..(Len(lines) - 1) :
         MonthOf(lines[i + 1].due) = MonthOf(lines[i].due) + Interval(plan)
=============================================================================

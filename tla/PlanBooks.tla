------------------------------- MODULE PlanBooks -------------------------------
(***************************************************************************)
(* The payment plan that a sale is offered, and what it must come to.       *)
(* SubscriptionSchedule computes it.                                        *)
(***************************************************************************)
EXTENDS BillingPeriod

CONSTANTS
  MinimumDeposit,       \* what the organization asks for: a part of the price, or an amount
  MaximumInstallments   \* maximum_installment_count

VARIABLE plan           \* what the seller asks simulateSalesSubscriptionPlan for

Schedule == INSTANCE SubscriptionSchedule

(* An accepted plan adds up to its price, its last installment takes the    *)
(* rounding of the others and no more, and its installments fall due in     *)
(* their order, one in each month or quarter.                               *)
PlanIsKept ==
  /\ Schedule!PlanCoversPrice(plan)
  /\ Schedule!RoundingAbsorbed(plan)
  /\ Schedule!DueDatesFollow(plan)
=============================================================================

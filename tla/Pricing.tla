------------------------------ MODULE Pricing ------------------------------
(***************************************************************************)
(* The sums and dates of the plans: what a plan or an extra weigher costs, *)
(* what a payment intent buys, when a period ends after a payment          *)
(* (billing/pricing.ts, config/plans.ts, packages/core/subscription.ts,    *)
(* and the functions on one subscription of billing/plan-activation.ts).   *)
(*                                                                         *)
(* An instant is a whole number of days, 0 standing for null; a sum is a   *)
(* number of thousands of dong.                                            *)
(***************************************************************************)
EXTENDS Integers

CONSTANTS
  NoPlan,  \* plan = null: an enterprise's subscription, an old intent
  Keep,    \* a field the administrator leaves out: as it is now
  Lengths  \* [1..36 -> sets of Nat]: how many days so many months may last

(* addMonths goes to the same day of a later month, or to the last day of  *)
(* that month: never less than 28 days a month, never more than 31.        *)
ASSUME CalendarAssumption ==
  Lengths \in [1..36 -> SUBSET Nat] /\ \A m \in 1..36 : Lengths[m] \subseteq (28 * m)..(31 * m)

EXTRA_STAFF_MAX == 5
STAFF_INCLUDED == 3
GRACE_DAYS == 7

PlanCode == {"thuong_lai", "vua"}
ASSUME PlanAssumption == NoPlan \notin PlanCode /\ Keep \notin PlanCode \cup {NoPlan}

MonthPrice == [thuong_lai |-> 199, vua |-> 449]
YearFactor(months) == IF months = 12 THEN 10 ELSE 1   \* a year costs ten months
PriceOf(plan, months) == MonthPrice[plan] * YearFactor(months)
StaffPriceOf(months) == 79 * YearFactor(months)

Larger(a, b) == IF a < b THEN b ELSE a
Smaller(a, b) == IF a < b THEN a ELSE b
CeilDiv(a, b) == (a + b - 1) \div b

DaysBetween(from, to) == Larger(to - from, 0)

PlanAmount(plan, months, extraStaff) == PriceOf(plan, months) + extraStaff * StaffPriceOf(months)

StaffTopUpAmount(extraStaff, billingMonths, periodEnd, now) ==
  (extraStaff * StaffPriceOf(billingMonths) * DaysBetween(now, periodEnd))
    \div (IF billingMonths = 12 THEN 365 ELSE 30)

(* Slip: rounded down, against the customer.                               *)
ConvertDaysDown(days, from, to) == (days * PriceOf(from, 1)) \div PriceOf(to, 1)

ConvertDays(days, from, to) == CeilDiv(days * PriceOf(from, 1), PriceOf(to, 1))

BillingMonthsOf(months) == IF months >= 12 THEN 12 ELSE 1

StaffLimit(plan, extraStaff) == IF plan = "thuong_lai" THEN 0 ELSE STAFF_INCLUDED + extraStaff

(* What an intent bought before 0.28.0 is read from its amount alone.      *)
LegacyMonths(amount) == IF amount = 1490 THEN 12 ELSE 1

PurchaseOf(intent) ==
  IF intent.kind = "staff"
    THEN [kind |-> "staff", plan |-> Keep, months |-> 0, extraStaff |-> intent.extraStaff]
    ELSE [kind |-> "plan",
          plan |-> IF intent.plan = "thuong_lai" THEN "thuong_lai" ELSE "vua",
          months |-> IF intent.months = 0 THEN LegacyMonths(intent.amount) ELSE intent.months,
          extraStaff |-> intent.extraStaff]

(* planFor: the tier is read from the dates, never from a stored word.     *)
Tier(sub, now) ==
  IF sub.status = "trialing"
    THEN IF sub.trialEnd > now THEN "trial" ELSE "free"
    ELSE IF sub.periodEnd = 0 THEN "free"
         ELSE IF sub.periodEnd > now THEN "premium"
              ELSE IF sub.periodEnd + GRACE_DAYS > now THEN "grace" ELSE "free"

PaidVua(sub, now) == sub.plan = "vua" /\ sub.periodEnd # 0 /\ Tier(sub, now) = "premium"

(* The purchase moves the subscription to another plan.                   *)
Switches(sub, plan) == plan # Keep /\ sub.plan # NoPlan /\ sub.plan # plan

(* Where the months just paid for begin.  extendPeriod: where what is left *)
(* of the period and of the trial ends.  switchedPeriodEnd: after the days *)
(* already paid for, turned into days of the other plan.                   *)
PeriodStart(sub, plan, now) ==
  IF Switches(sub, plan)
    THEN now + ConvertDays(IF Tier(sub, now) = "premium" THEN DaysBetween(now, sub.periodEnd) ELSE 0,
                           sub.plan, plan)
    ELSE Larger(now, Larger(sub.periodEnd, sub.trialEnd))

(* extend: the subscription with a period that ends at `end`, and with the *)
(* purchase's plan, weighers and billing where it names them.              *)
Extended(sub, end, plan, extraStaff, billing) ==
  LET to == IF plan = Keep THEN sub.plan ELSE plan
  IN  [sub EXCEPT !.status = "active",
                  !.periodEnd = end,
                  !.plan = to,
                  !.extraStaff = IF to = "thuong_lai" THEN 0
                                 ELSE IF extraStaff = Keep THEN sub.extraStaff ELSE extraStaff,
                  !.billingMonths = IF billing = Keep THEN sub.billingMonths ELSE billing]

(* Slip: no upper limit.                                                   *)
StaffAddedFreely(sub, extraStaff) == [sub EXCEPT !.extraStaff = @ + extraStaff]

(* addStaff: never more than five, the period as it is.                    *)
StaffAdded(sub, extraStaff) ==
  [sub EXCEPT !.extraStaff = Smaller(EXTRA_STAFF_MAX, sub.extraStaff + extraStaff)]

=============================================================================

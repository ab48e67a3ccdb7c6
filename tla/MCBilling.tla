----------------------------- MODULE MCBilling -----------------------------
(* Instances of Billing: two organisations, a and b, two or three intents  *)
(* and transfers, the two connections of the privileged database.          *)
EXTENDS Billing

CONSTANTS a, b, i1, i2, i3, t1, t2, t3, w1, w2

MCLengths == [m \in 1..36 |-> {28 * m, 31 * m}]
MCOneLength == [m \in 1..36 |-> {30 * m}]

MCOrgType == [o \in Orgs |-> "trader"]
MCStaff == [o \in Orgs |-> 0]

Trial == [status |-> "trialing", trialEnd |-> 112, periodEnd |-> 0, plan |-> "vua",
          extraStaff |-> 0, billingMonths |-> 1, rewarded |-> FALSE]
Paid(plan, extra) ==
  [status |-> "active", trialEnd |-> 50, periodEnd |-> 112, plan |-> plan,
   extraStaff |-> extra, billingMonths |-> 1, rewarded |-> FALSE]

MCTrial == [o \in Orgs |-> Trial]
MCVua == [o \in Orgs |-> Paid("vua", 2)]
MCThuongLai == [o \in Orgs |-> Paid("thuong_lai", 0)]

MCNoIntents == [i \in Intents |-> NoIntent]
Pending(o, plan, months, amount) ==
  [status |-> "pending", org |-> o, kind |-> "plan", plan |-> plan, months |-> months,
   extraStaff |-> 0, amount |-> amount, createdAt |-> 90]
(* One of them from before 0.28.0: no plan, no months.                     *)
MCTwoForA ==
  [i \in Intents |-> IF i = i3 THEN Pending(b, "vua", 12, 4490)
                     ELSE IF i = i2 THEN Pending(a, NoPlan, 0, 149)
                     ELSE Pending(a, "vua", 1, 449)]

MCNobody == [o \in Orgs |-> Nobody]
MCBInvited == [o \in Orgs |-> IF o = b THEN a ELSE Nobody]

Plan(plan, months, extra) == [kind |-> "plan", plan |-> plan, months |-> months, extraStaff |-> extra]
Weighers(extra) == [kind |-> "staff", plan |-> NoPlan, months |-> 0, extraStaff |-> extra]

MCWanted == {Plan("vua", 1, 0), Weighers(3)}
MCDown == {Plan("vua", 1, 0), Plan("thuong_lai", 1, 0)}

MCNone == {}
MCAdmin == {[org |-> a, plan |-> "thuong_lai", months |-> 2, extraStaff |-> Keep]}
=============================================================================

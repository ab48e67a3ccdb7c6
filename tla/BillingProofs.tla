--------------------------- MODULE BillingProofs ---------------------------
(***************************************************************************)
(* Theorems about paying for a plan (Billing), for any organisations,      *)
(* intents, transfers and connections, and any prices of time.             *)
(*                                                                         *)
(* Everything rests on the rows that open transactions hold: two of them   *)
(* never hold the same intent, transfer or subscription, so what one has   *)
(* read of them is what it still finds when it commits.                    *)
(***************************************************************************)
EXTENDS Billing, FiniteSetTheorems, TLAPS

Busy(w) == work[w] # NoTx

(* What an open transaction is, step by step.                              *)
TxShape(x) ==
  /\ x.source = "webhook" => x.intent \in Intents
  /\ x.source = "admin" => x.intent = NoIntent
  /\ x.buy.kind = "plan" => x.buy.months \in 1..36
  /\ x.buy.kind = "staff" => x.buy.months = 0 /\ x.buy.extraStaff \in 0..EXTRA_STAFF_MAX
  /\ x.step = "ledger" <=> x.ledger = NoRow
  /\ x.step \in {"ledger", "extend"} => x.trail = <<>> /\ \A o \in Orgs : x.subs[o] = NoSub
  /\ x.step \in {"reward", "inviter", "commit"} => x.subs[x.org] # NoSub
  /\ x.ledger # NoRow => /\ x.ledger.outcome = "applied" /\ x.ledger.org = x.org
                         /\ x.ledger.source = x.source
                         /\ x.source = "webhook" => x.ledger.intent = x.intent

(* The rows it has found are as it found them.                             *)
TxFinds(w) ==
  LET x == work[w] IN
  /\ x.source = "webhook" => intents[x.intent] # NoIntent /\ intents[x.intent].status = "pending"
  /\ x.ledger # NoRow => ~Applied(x.transfer)
  /\ x.step = "inviter" => referredBy[x.org] \in Orgs

(* No two open transactions hold the same row.                             *)
Apart(v, w) ==
  /\ work[v].intent # NoIntent => work[v].intent # work[w].intent
  /\ work[v].transfer = work[w].transfer => work[v].ledger = NoRow \/ work[w].ledger = NoRow
  /\ \A o \in Orgs : work[v].subs[o] = NoSub \/ work[w].subs[o] = NoSub

BankRight ==
  \A t \in Transfers :
    bank[t] # NotSent /\ bank[t].code \in Intents
      => intents[bank[t].code] # NoIntent /\ intents[bank[t].code].status # "asked"

NotOneself == \A o \in Orgs : referredBy[o] # o

RowsHeld ==
  /\ TypeOK /\ BankRight /\ NotOneself
  /\ \A w \in Workers : Busy(w) => TxShape(work[w]) /\ TxFinds(w)
  /\ \A v, w \in Workers : Busy(v) /\ Busy(w) /\ v # w => Apart(v, w)

-----------------------------------------------------------------------------
(* The sums and the dates.                                                 *)

LEMMA PlanPrices ==
  /\ MonthPrice["vua"] = 449 /\ MonthPrice["thuong_lai"] = 199
  /\ \A p \in PlanCode : MonthPrice[p] \in {199, 449} /\ PriceOf(p, 1) = MonthPrice[p]
BY DEF MonthPrice, PlanCode, PriceOf, YearFactor

(* Days turned into days of another plan, rounded up: worth no less.       *)
LEMMA ConvertedDays ==
  ASSUME NEW days \in Nat, NEW from \in PlanCode, NEW to \in PlanCode
  PROVE  /\ ConvertDays(days, from, to) \in Nat
         /\ days * MonthPrice[from] <= ConvertDays(days, from, to) * MonthPrice[to]
<1>1. CASE MonthPrice[from] = 199 /\ MonthPrice[to] = 199
  BY <1>1, PlanPrices DEF ConvertDays, CeilDiv
<1>2. CASE MonthPrice[from] = 199 /\ MonthPrice[to] = 449
  BY <1>2, PlanPrices DEF ConvertDays, CeilDiv
<1>3. CASE MonthPrice[from] = 449 /\ MonthPrice[to] = 199
  BY <1>3, PlanPrices DEF ConvertDays, CeilDiv
<1>4. CASE MonthPrice[from] = 449 /\ MonthPrice[to] = 449
  BY <1>4, PlanPrices DEF ConvertDays, CeilDiv
<1> QED BY <1>1, <1>2, <1>3, <1>4, PlanPrices

LEMMA SumsTyped ==
  ASSUME NEW extra \in 0..EXTRA_STAFF_MAX, NEW months \in {1, 12}, NEW end \in Nat, NEW day \in Nat
  PROVE  /\ StaffTopUpAmount(extra, months, end, day) \in Nat
         /\ \A p \in PlanCode : PlanAmount(p, months, extra) \in Nat
<1>1. StaffPriceOf(months) \in {79, 790}
  BY DEF StaffPriceOf, YearFactor
<1>2. DaysBetween(day, end) \in Nat
  BY DEF DaysBetween, Larger
<1>3. extra \in {0, 1, 2, 3, 4, 5}
  BY DEF EXTRA_STAFF_MAX
<1>4. extra * StaffPriceOf(months) \in {0, 79, 158, 237, 316, 395, 790, 1580, 2370, 3160, 3950}
  BY <1>1, <1>3
<1>5. extra * StaffPriceOf(months) * DaysBetween(day, end) \in Nat
  BY <1>2, <1>4
<1> DEFINE product == extra * StaffPriceOf(months) * DaysBetween(day, end)
<1>6. product \div 365 \in Nat /\ product \div 30 \in Nat
  <2> HIDE DEF product
  <2>1. product \in Nat
    BY <1>5 DEF product
  <2> QED BY <2>1
<1>7. StaffTopUpAmount(extra, months, end, day) \in Nat
  BY <1>6 DEF StaffTopUpAmount
<1>8. \A p \in PlanCode : PriceOf(p, months) \in Nat
  BY PlanPrices DEF PriceOf, YearFactor
<1>9. \A p \in PlanCode : PlanAmount(p, months, extra) \in Nat
  BY <1>4, <1>8 DEF PlanAmount
<1> QED BY <1>7, <1>9

(* So many months of a plan, in days at its price.                         *)
MonthsWorth(months, plan) == 28 * months * MonthPrice[plan]

LEMMA PeriodStarts ==
  ASSUME NEW s \in Sub, NEW plan \in PlanCode \cup {Keep}, NEW day \in Nat
  PROVE  LET start == PeriodStart(s, plan, day)
             to == IF plan = Keep THEN s.plan ELSE plan
         IN  /\ start \in Nat /\ day <= start
             /\ ~Switches(s, plan) => s.periodEnd <= start
             /\ s.plan \in PlanCode =>
                  /\ to \in PlanCode
                  /\ Worth(s, day) \in Nat
                  /\ Worth(s, day) <= (start - day) * MonthPrice[to]
<1> DEFINE start == PeriodStart(s, plan, day)
           to == IF plan = Keep THEN s.plan ELSE plan
           left == IF Tier(s, day) = "premium" THEN DaysBetween(day, s.periodEnd) ELSE 0
<1>1. /\ s.periodEnd \in Nat /\ s.trialEnd \in Nat /\ s.plan \in PlanCode \cup {NoPlan}
      /\ left \in Nat /\ left <= DaysBetween(day, s.periodEnd)
      /\ DaysBetween(day, s.periodEnd) \in Nat
  BY DEF Sub, DaysBetween, Larger
<1>2. s.plan \in PlanCode => Worth(s, day) = left * MonthPrice[s.plan] /\ Worth(s, day) \in Nat
  <2> SUFFICES ASSUME s.plan \in PlanCode
               PROVE  Worth(s, day) = left * MonthPrice[s.plan] /\ Worth(s, day) \in Nat
    OBVIOUS
  <2>1. MonthPrice[s.plan] = 199 \/ MonthPrice[s.plan] = 449
    BY PlanPrices
  <2> QED BY <1>1, <2>1 DEF Worth
<1>3. CASE Switches(s, plan)
  <2>1. s.plan \in PlanCode /\ plan \in PlanCode /\ to = plan
    BY <1>1, <1>3 DEF Switches
  <2>2. start = day + ConvertDays(left, s.plan, plan)
    BY <1>3 DEF PeriodStart
  <2> HIDE DEF left, start
  <2>3. /\ ConvertDays(left, s.plan, plan) \in Nat
        /\ left * MonthPrice[s.plan] <= ConvertDays(left, s.plan, plan) * MonthPrice[plan]
    BY <1>1, <2>1, ConvertedDays
  <2>4. start - day = ConvertDays(left, s.plan, plan) /\ start \in Nat /\ day <= start
    BY <2>2, <2>3
  <2> QED BY <1>2, <1>3, <2>1, <2>3, <2>4 DEF start
<1>4. CASE ~Switches(s, plan)
  <2>1. start = Larger(day, Larger(s.periodEnd, s.trialEnd))
    BY <1>4 DEF PeriodStart
  <2>2. start \in Nat /\ day <= start /\ s.periodEnd <= start /\ left <= start - day
    BY <1>1, <2>1 DEF Larger, DaysBetween
  <2> HIDE DEF left, start
  <2>3. s.plan \in PlanCode => to = s.plan
    BY <1>4, PlanAssumption DEF Switches
  <2>4. s.plan \in PlanCode => left * MonthPrice[s.plan] <= (start - day) * MonthPrice[s.plan]
    <3> SUFFICES ASSUME s.plan \in PlanCode
                 PROVE  left * MonthPrice[s.plan] <= (start - day) * MonthPrice[s.plan]
      OBVIOUS
    <3>1. MonthPrice[s.plan] = 199 \/ MonthPrice[s.plan] = 449
      BY PlanPrices
    <3> QED BY <1>1, <2>2, <3>1
  <2> QED BY <1>2, <2>2, <2>3, <2>4 DEF start
<1> QED BY <1>3, <1>4

(* The period grows by so many months at least.                            *)
Grows(s, new, months) == s.periodEnd + 28 * months <= new.periodEnd

(* Days already paid for keep their worth, and the months come on top.     *)
KeepsWorth(s, new, months, day) ==
  s.plan \in PlanCode =>
    /\ new.plan \in PlanCode
    /\ Worth(s, day) + MonthsWorth(months, new.plan) <= Worth(new, day)

(* `new` is `s` with months added, on plan `plan`.                          *)
ExtendedBy(s, new, plan, months, day) ==
  \E days \in Lengths[months], extra \in 0..EXTRA_STAFF_MAX \cup {Keep}, billing \in {1, 12, Keep} :
    new = Extended(s, PeriodStart(s, plan, day) + days, plan, extra, billing)

(* A period that is extended keeps what was left of it, at the price of    *)
(* the new plan, and the months that are bought come on top.               *)
LEMMA ExtendedSub ==
  ASSUME NEW s \in Sub, NEW plan \in PlanCode \cup {Keep}, NEW day \in Nat,
         NEW months \in 1..36, NEW new, ExtendedBy(s, new, plan, months, day)
  PROVE  /\ new \in Sub /\ new.rewarded = s.rewarded
         /\ plan = Keep => new.plan = s.plan
         /\ s.plan = new.plan => Grows(s, new, months)
         /\ KeepsWorth(s, new, months, day)
<1> DEFINE start == PeriodStart(s, plan, day)
           to == IF plan = Keep THEN s.plan ELSE plan
<1>0. PICK days \in Lengths[months], extra \in 0..EXTRA_STAFF_MAX \cup {Keep},
           billing \in {1, 12, Keep} : new = Extended(s, start + days, plan, extra, billing)
  BY DEF ExtendedBy
<1>1. days \in Nat /\ 28 * months <= days /\ days >= 28 /\ months \in Nat
  BY CalendarAssumption
<1>2. /\ start \in Nat /\ day <= start
      /\ ~Switches(s, plan) => s.periodEnd <= start
      /\ s.plan \in PlanCode => to \in PlanCode /\ Worth(s, day) \in Nat
                                /\ Worth(s, day) <= (start - day) * MonthPrice[to]
  BY PeriodStarts
<1> HIDE DEF start
<1>3. /\ new \in Sub /\ new.rewarded = s.rewarded /\ new.status = "active"
      /\ new.periodEnd = start + days /\ new.plan = to
  <2>1. to \in PlanCode \cup {NoPlan}
    BY DEF Sub
  <2>2. (IF to = "thuong_lai" THEN 0 ELSE IF extra = Keep THEN s.extraStaff ELSE extra)
          \in 0..EXTRA_STAFF_MAX
    BY DEF Sub, EXTRA_STAFF_MAX
  <2>3. (IF billing = Keep THEN s.billingMonths ELSE billing) \in {1, 12}
    BY DEF Sub
  <2>4. start + days \in Nat
    BY <1>1, <1>2
  <2> HIDE DEF to
  <2>5. new = [s EXCEPT !.status = "active", !.periodEnd = start + days, !.plan = to,
                        !.extraStaff = IF to = "thuong_lai" THEN 0
                                       ELSE IF extra = Keep THEN s.extraStaff ELSE extra,
                        !.billingMonths = IF billing = Keep THEN s.billingMonths ELSE billing]
    BY <1>0 DEF Extended, to
  <2> QED BY <2>1, <2>2, <2>3, <2>4, <2>5 DEF Sub
<1>4. s.plan = new.plan => s.periodEnd + 28 * months <= new.periodEnd
  <2>1. s.plan = to => ~Switches(s, plan)
    BY DEF Switches
  <2>2. s.periodEnd \in Nat
    BY DEF Sub
  <2> QED BY <1>1, <1>2, <1>3, <2>1, <2>2
<1>5. ASSUME s.plan \in PlanCode
      PROVE  /\ new.plan \in PlanCode
             /\ Worth(new, day) \in Nat
             /\ Worth(s, day) + MonthsWorth(months, new.plan) <= Worth(new, day)
  <2>1. to \in PlanCode /\ Worth(s, day) \in Nat /\ Worth(s, day) <= (start - day) * MonthPrice[to]
    BY <1>2, <1>5
  <2> HIDE DEF to
  <2>2. Tier(new, day) = "premium" /\ DaysBetween(day, new.periodEnd) = (start - day) + days
    BY <1>1, <1>2, <1>3 DEF Tier, DaysBetween, Larger
  <2>3. Worth(new, day) = ((start - day) + days) * MonthPrice[to]
    BY <1>3, <2>2 DEF Worth
  <2>4. MonthPrice[to] = 199 \/ MonthPrice[to] = 449
    BY <2>1, PlanPrices
  <2> QED BY <1>1, <1>2, <1>3, <2>1, <2>3, <2>4 DEF MonthsWorth
<1>6. plan = Keep => new.plan = s.plan
  BY <1>3
<1> QED BY <1>3, <1>4, <1>5, <1>6 DEF KeepsWorth, Grows

LEMMA StaffAddedSub ==
  ASSUME NEW s \in Sub, NEW extra \in 0..EXTRA_STAFF_MAX, NEW day \in Nat
  PROVE  LET new == StaffAdded(s, extra) IN
         /\ new \in Sub /\ new.rewarded = s.rewarded
         /\ new.periodEnd = s.periodEnd /\ new.plan = s.plan
         /\ Worth(new, day) = Worth(s, day)
<1> DEFINE new == StaffAdded(s, extra)
           most == Smaller(EXTRA_STAFF_MAX, s.extraStaff + extra)
<1>1. most \in 0..EXTRA_STAFF_MAX
  BY DEF Smaller, EXTRA_STAFF_MAX, Sub
<1>2. new = [s EXCEPT !.extraStaff = most]
  BY DEF StaffAdded
<1> HIDE DEF most, new
<1>3. /\ new \in Sub /\ new.rewarded = s.rewarded /\ new.periodEnd = s.periodEnd
      /\ new.plan = s.plan /\ new.status = s.status /\ new.trialEnd = s.trialEnd
  BY <1>1, <1>2 DEF Sub
<1>4. Worth(new, day) = Worth(s, day)
  BY <1>3 DEF Worth, Tier
<1> QED BY <1>3, <1>4 DEF new

-----------------------------------------------------------------------------
(* One transaction makes a step.                                           *)

LEMMA TxTyped ==
  ASSUME TypeOK, NEW w \in Workers, Busy(w)
  PROVE  LET x == work[w] IN
         /\ x \in Tx
         /\ x.step \in {"ledger", "extend", "reward", "inviter", "commit"}
         /\ x.source \in {"webhook", "admin"} /\ x.transfer \in Transfers
         /\ x.intent \in Intents \cup {NoIntent} /\ x.org \in Orgs
         /\ x.buy \in Purchase /\ x.now \in Nat /\ x.ledger \in Row \cup {NoRow}
         /\ x.subs \in [Orgs -> Sub \cup {NoSub}] /\ x.trail \in Seq(Entry)
         /\ x.buy.months \in 0..36 /\ x.buy.plan \in PlanCode \cup {Keep}
         /\ x.buy.kind \in {"plan", "staff"} /\ x.buy.extraStaff \in 0..EXTRA_STAFF_MAX \cup {Keep}
         /\ \A o \in Orgs : Current(x, o) \in Sub
<1>1. work[w] \in Tx
  BY DEF TypeOK, Busy
<1>2. work[w].buy \in Purchase
  BY <1>1 DEF Tx
<1>3. /\ work[w].buy.months \in 0..36 /\ work[w].buy.plan \in PlanCode \cup {Keep}
      /\ work[w].buy.kind \in {"plan", "staff"}
      /\ work[w].buy.extraStaff \in 0..EXTRA_STAFF_MAX \cup {Keep}
  BY <1>2 DEF Purchase
<1>4. \A o \in Orgs : Current(work[w], o) \in Sub
  BY <1>1 DEF Current, Tx, TypeOK
<1> QED BY <1>1, <1>3, <1>4 DEF Tx

LEMMA ApartBothWays ==
  ASSUME NEW v, NEW w, Apart(v, w)
  PROVE  Apart(w, v)
BY DEF Apart

(* One connection moves, and keeps apart from the others.                  *)
LEMMA OneTxMoves ==
  ASSUME RowsHeld, NEW w \in Workers, TypeOK',
         UNCHANGED <<bank, intents, referredBy>>,
         \A t \in Transfers : Applied(t)' => Applied(t),
         \A v \in Workers \ {w} : work'[v] = work[v],
         Busy(w)' => /\ TxShape(work'[w]) /\ TxFinds(w)'
                     /\ \A v \in Workers \ {w} : Busy(v) => Apart(v, w)'
  PROVE  RowsHeld'
<1>1. \A v \in Workers \ {w} : Busy(v)' = Busy(v)
  BY DEF Busy
<1>2. ASSUME NEW v \in Workers, Busy(v)'
      PROVE  TxShape(work'[v]) /\ TxFinds(v)'
  <2>1. CASE v = w
    BY <1>2, <2>1
  <2>2. CASE v # w
    <3>1. Busy(v) /\ work'[v] = work[v] /\ work[v].transfer \in Transfers
      BY <1>1, <1>2, <2>2, TxTyped DEF RowsHeld
    <3>2. TxShape(work[v]) /\ TxFinds(v)
      BY <3>1 DEF RowsHeld
    <3>3. TxFinds(v)'
      BY <3>1, <3>2 DEF TxFinds
    <3> QED BY <3>1, <3>2, <3>3
  <2> QED BY <2>1, <2>2
<1>3. ASSUME NEW u \in Workers, NEW v \in Workers, Busy(u)', Busy(v)', u # v
      PROVE  Apart(u, v)'
  <2>1. CASE v = w
    BY <1>1, <1>3, <2>1
  <2>2. CASE u = w
    <3>1. Apart(v, w)'
      BY <1>1, <1>3, <2>2
    <3> QED BY <2>2, <3>1 DEF Apart
  <2>3. CASE u # w /\ v # w
    <3>1. Apart(u, v)
      BY <1>1, <1>3, <2>3 DEF RowsHeld
    <3> QED BY <2>3, <3>1 DEF Apart
  <2> QED BY <2>1, <2>2, <2>3
<1>4. BankRight' /\ NotOneself'
  BY DEF RowsHeld, BankRight, NotOneself
<1> QED BY <1>2, <1>3, <1>4 DEF RowsHeld

(* A transaction writes a subscription and a row of the trail.             *)
AfterWrites(w, o, new, action, months, step) ==
  LET x == work[w]
      y == work'[w]
      e == AuditRow(x, o, action, months, new)
  IN  /\ work' \in [Workers -> Tx \cup {NoTx}] /\ y \in Tx /\ y # NoTx
      /\ \A v \in Workers \ {w} : work'[v] = work[v]
      /\ y.step = step
      /\ y.subs \in [Orgs -> Sub \cup {NoSub}] /\ y.subs[o] = new
      /\ \A p \in Orgs \ {o} : y.subs[p] = x.subs[p]
      /\ y.trail = Append(x.trail, e) /\ e \in Entry
      /\ y.source = x.source /\ y.transfer = x.transfer /\ y.intent = x.intent
      /\ y.org = x.org /\ y.buy = x.buy /\ y.now = x.now /\ y.ledger = x.ledger

LEMMA WritesDoes ==
  ASSUME TypeOK, NEW w \in Workers, Busy(w), NEW o \in Orgs, NEW new \in Sub,
         NEW action \in {"activated", "staff_added", "bonus"}, NEW months \in 0..36,
         NEW step \in {"reward", "inviter", "commit"},
         Writes(w, o, new, action, months, step)
  PROVE  AfterWrites(w, o, new, action, months, step)
<1> DEFINE x == work[w]
           e == AuditRow(x, o, action, months, new)
<1>1. x \in Tx /\ x.org \in Orgs /\ x.transfer \in Transfers
      /\ x.subs \in [Orgs -> Sub \cup {NoSub}] /\ x.trail \in Seq(Entry)
  BY TxTyped
<1>2. e \in Entry
  BY <1>1 DEF AuditRow, Entry, Sub
<1>3. work' = [work EXCEPT ![w].subs[o] = new, ![w].step = step, ![w].trail = Append(@, e)]
  BY DEF Writes
<1> HIDE DEF e
<1>4. Append(x.trail, e) \in Seq(Entry)
  BY <1>1, <1>2
<1>5. /\ work'[w] = [x EXCEPT !.subs[o] = new, !.step = step, !.trail = Append(x.trail, e)]
      /\ \A v \in Workers \ {w} : work'[v] = work[v]
      /\ work \in [Workers -> Tx \cup {NoTx}] /\ DOMAIN work' = Workers
      /\ work' = [v \in Workers |-> work'[v]]
  BY <1>3 DEF TypeOK
<1> HIDE DEF x
<1>6. [x.subs EXCEPT ![o] = new] \in [Orgs -> Sub \cup {NoSub}]
  BY <1>1
<1>7. work'[w] = [x EXCEPT !.subs = [x.subs EXCEPT ![o] = new], !.step = step,
                           !.trail = Append(x.trail, e)]
  BY <1>5
<1>8. /\ work'[w] \in Tx
      /\ work'[w].step = step /\ work'[w].subs = [x.subs EXCEPT ![o] = new]
      /\ work'[w].trail = Append(x.trail, e)
      /\ work'[w].source = x.source /\ work'[w].transfer = x.transfer
      /\ work'[w].intent = x.intent /\ work'[w].org = x.org /\ work'[w].buy = x.buy
      /\ work'[w].now = x.now /\ work'[w].ledger = x.ledger
  BY <1>1, <1>4, <1>6, <1>7 DEF Tx
<1>9. work'[w] # NoTx
  BY <1>8, AbsenceAssumption
<1>10. work' \in [Workers -> Tx \cup {NoTx}]
  BY <1>5, <1>8
<1> QED BY <1>1, <1>2, <1>5, <1>6, <1>8, <1>9, <1>10 DEF x, e, AfterWrites

(* What a subscription becomes: the months come on top of the period, or,  *)
(* when the plan changes, on top of the worth of the days that were left.  *)
Builds(s, new, action, months, day) ==
  /\ s.plan = new.plan \/ action # "activated" => Grows(s, new, months)
  /\ action # "activated" => new.plan = s.plan
  /\ KeepsWorth(s, new, months, day)

LEMMA ExtendSubDoes ==
  ASSUME RowsHeld, NEW w \in Workers, ExtendSub(w)
  PROVE  LET x == work[w]
             s == Current(x, x.org)
         IN  /\ Busy(w) /\ x.step = "extend" /\ SubFree(x.org, w)
             /\ \E new \in Sub, action \in {"activated", "staff_added"} :
                  /\ Writes(w, x.org, new, action, x.buy.months, "reward")
                  /\ new.rewarded = s.rewarded
                  /\ Builds(s, new, action, x.buy.months, x.now)
<1> DEFINE x == work[w]
           s == Current(x, x.org)
           P(new, action) == /\ Writes(w, x.org, new, action, x.buy.months, "reward")
                             /\ new.rewarded = s.rewarded
                             /\ Builds(s, new, action, x.buy.months, x.now)
<1>1. Busy(w) /\ x.step = "extend" /\ SubFree(x.org, w)
  BY DEF ExtendSub, Busy
<1>2. /\ s \in Sub /\ x.now \in Nat /\ x.buy.plan \in PlanCode \cup {Keep}
      /\ x.buy.extraStaff \in 0..EXTRA_STAFF_MAX \cup {Keep}
      /\ x.buy.kind = "plan" => x.buy.months \in 1..36
      /\ x.buy.kind = "staff" => x.buy.months = 0 /\ x.buy.extraStaff \in 0..EXTRA_STAFF_MAX
  BY <1>1, TxTyped DEF RowsHeld, TxShape
<1>3. \/ /\ x.buy.kind = "plan"
         /\ \E days \in Lengths[x.buy.months] :
              Writes(w, x.org,
                     Extended(s, PeriodStart(s, x.buy.plan, x.now) + days, x.buy.plan,
                              x.buy.extraStaff, BillingMonthsOf(x.buy.months)),
                     "activated", x.buy.months, "reward")
      \/ /\ x.buy.kind = "staff"
         /\ Writes(w, x.org, StaffAdded(s, x.buy.extraStaff), "staff_added", 0, "reward")
  BY DEF ExtendSub
<1> HIDE DEF x, s
<1>4. CASE x.buy.kind = "plan"
  <2>1. PICK days \in Lengths[x.buy.months] :
              Writes(w, x.org,
                     Extended(s, PeriodStart(s, x.buy.plan, x.now) + days, x.buy.plan,
                              x.buy.extraStaff, BillingMonthsOf(x.buy.months)),
                     "activated", x.buy.months, "reward")
    BY <1>3, <1>4
  <2> DEFINE new == Extended(s, PeriodStart(s, x.buy.plan, x.now) + days, x.buy.plan,
                             x.buy.extraStaff, BillingMonthsOf(x.buy.months))
  <2>2. BillingMonthsOf(x.buy.months) \in {1, 12, Keep}
    BY DEF BillingMonthsOf
  <2>3. /\ new \in Sub /\ new.rewarded = s.rewarded
        /\ s.plan = new.plan => Grows(s, new, x.buy.months)
        /\ KeepsWorth(s, new, x.buy.months, x.now)
    <3>1. x.buy.months \in 1..36
      BY <1>2, <1>4
    <3>2. ExtendedBy(s, new, x.buy.plan, x.buy.months, x.now)
      BY <1>2, <2>2 DEF ExtendedBy
    <3>3. s \in Sub /\ x.now \in Nat /\ x.buy.plan \in PlanCode \cup {Keep}
      BY <1>2
    <3> HIDE DEF new
    <3> QED BY <3>1, <3>2, <3>3, ExtendedSub
  <2> HIDE DEF new
  <2>4. Writes(w, x.org, new, "activated", x.buy.months, "reward")
    BY <2>1 DEF new
  <2>5. P(new, "activated")
    BY <2>3, <2>4 DEF Builds
  <2> QED BY <1>1, <2>3, <2>5 DEF x, s
<1>5. CASE x.buy.kind = "staff"
  <2> DEFINE new == StaffAdded(s, x.buy.extraStaff)
  <2>1. /\ new \in Sub /\ new.rewarded = s.rewarded /\ new.periodEnd = s.periodEnd
        /\ new.plan = s.plan /\ Worth(new, x.now) = Worth(s, x.now) /\ x.buy.months = 0
    BY <1>2, <1>5, StaffAddedSub
  <2>2. Writes(w, x.org, new, "staff_added", x.buy.months, "reward")
    BY <1>3, <1>5, <2>1
  <2> HIDE DEF new
  <2>3. s.periodEnd \in Nat
    BY <1>2 DEF Sub
  <2>4. s.plan \in PlanCode => Worth(s, x.now) \in Nat /\ MonthPrice[s.plan] \in Nat
    BY <1>2, PeriodStarts, PlanPrices
  <2>5. P(new, "staff_added")
    BY <2>1, <2>2, <2>3, <2>4 DEF Builds, Grows, KeepsWorth, MonthsWorth
  <2> QED BY <1>1, <2>1, <2>5 DEF x, s
<1>6. x.buy.kind \in {"plan", "staff"}
  BY <1>1, TxTyped DEF RowsHeld, x
<1> QED BY <1>4, <1>5, <1>6

LEMMA BonusBuilds ==
  ASSUME NEW s \in Sub, NEW x, x.now \in Nat, NEW days \in Lengths[1],
         NEW bonus, bonus = Bonus(s, x, days),
         NEW new, new = bonus \/ new = [bonus EXCEPT !.rewarded = TRUE]
  PROVE  /\ new \in Sub /\ Builds(s, new, "bonus", 1, x.now)
         /\ bonus.rewarded = s.rewarded
         /\ new = [bonus EXCEPT !.rewarded = TRUE] => new.rewarded
<1>1. ExtendedBy(s, bonus, Keep, 1, x.now)
  BY DEF Bonus, ExtendedBy
<1>2. /\ bonus \in Sub /\ bonus.rewarded = s.rewarded /\ bonus.plan = s.plan
      /\ Grows(s, bonus, 1)
      /\ KeepsWorth(s, bonus, 1, x.now)
  BY <1>1, ExtendedSub
<1>3. /\ new \in Sub /\ new.plan = bonus.plan /\ new.periodEnd = bonus.periodEnd
      /\ new.status = bonus.status /\ new.trialEnd = bonus.trialEnd
      /\ new = [bonus EXCEPT !.rewarded = TRUE] => new.rewarded
  BY <1>2 DEF Sub
<1>4. Worth(new, x.now) = Worth(bonus, x.now)
  BY <1>3 DEF Worth, Tier
<1>5. Builds(s, new, "bonus", 1, x.now)
  BY <1>2, <1>3, <1>4 DEF Builds, Grows, KeepsWorth
<1> QED BY <1>2, <1>3, <1>5

LEMMA RewardReferralDoes ==
  ASSUME RowsHeld, NEW w \in Workers, RewardReferral(w)
  PROVE  LET x == work[w]
             s == Current(x, x.org)
         IN  /\ Busy(w) /\ x.step = "reward"
             /\ \/ ~RewardDue(x) /\ work' = [work EXCEPT ![w].step = "commit"]
                \/ /\ RewardDue(x)
                   /\ \E new \in Sub :
                        /\ Writes(w, x.org, new, "bonus", 1,
                                  IF referredBy[x.org] \in Orgs THEN "inviter" ELSE "commit")
                        /\ new.rewarded
                        /\ Builds(s, new, "bonus", 1, x.now)
<1> DEFINE x == work[w]
           s == Current(x, x.org)
           next == IF referredBy[x.org] \in Orgs THEN "inviter" ELSE "commit"
<1>1. Busy(w) /\ x.step = "reward" /\ x.now \in Nat /\ s \in Sub
  BY TxTyped DEF RewardReferral, Busy, RowsHeld
<1>2. CASE RewardDue(x)
  <2>1. PICK days \in Lengths[1] :
           Writes(w, x.org, [Bonus(s, x, days) EXCEPT !.rewarded = TRUE], "bonus", 1, next)
    BY <1>2 DEF RewardReferral
  <2> DEFINE new == [Bonus(s, x, days) EXCEPT !.rewarded = TRUE]
  <2>2. new \in Sub /\ new.rewarded /\ Builds(s, new, "bonus", 1, x.now)
    BY <1>1, BonusBuilds
  <2> QED BY <1>1, <1>2, <2>1, <2>2
<1>3. CASE ~RewardDue(x)
  BY <1>1, <1>3 DEF RewardReferral
<1> QED BY <1>2, <1>3

LEMMA RewardInviterDoes ==
  ASSUME RowsHeld, NEW w \in Workers, RewardInviter(w)
  PROVE  LET x == work[w]
             p == referredBy[x.org]
             s == Current(x, p)
         IN  /\ Busy(w) /\ x.step = "inviter" /\ p \in Orgs /\ p # x.org /\ SubFree(p, w)
             /\ \E new \in Sub :
                  /\ Writes(w, p, new, "bonus", 1, "commit")
                  /\ new.rewarded = s.rewarded
                  /\ Builds(s, new, "bonus", 1, x.now)
<1> DEFINE x == work[w]
           p == referredBy[x.org]
           s == Current(x, p)
<1>1. /\ Busy(w) /\ x.step = "inviter" /\ x.now \in Nat /\ x.org \in Orgs /\ p \in Orgs
      /\ SubFree(p, w) /\ p # x.org
  BY TxTyped DEF RewardInviter, Busy, RowsHeld, TxFinds, NotOneself
<1>2. s \in Sub
  BY <1>1, TxTyped DEF RowsHeld
<1>3. PICK days \in Lengths[1] : Writes(w, p, Bonus(s, x, days), "bonus", 1, "commit")
  BY DEF RewardInviter
<1>4. /\ Bonus(s, x, days) \in Sub /\ Bonus(s, x, days).rewarded = s.rewarded
      /\ Builds(s, Bonus(s, x, days), "bonus", 1, x.now)
  BY <1>1, <1>2, BonusBuilds
<1> QED BY <1>1, <1>3, <1>4

-----------------------------------------------------------------------------
(* The rows held, action by action.                                        *)

LEMMA WriteLedgerDoes ==
  ASSUME RowsHeld, NEW w \in Workers, WriteLedger(w)
  PROVE  LET x == work[w]
             y == work'[w]
         IN  /\ Busy(w) /\ x.step = "ledger" /\ KeyFree(x.transfer, w) /\ ~Applied(x.transfer)
             /\ work' \in [Workers -> Tx \cup {NoTx}] /\ y \in Tx /\ y # NoTx
             /\ \A v \in Workers \ {w} : work'[v] = work[v]
             /\ y.step = "extend" /\ y.ledger = AppliedRow(x) /\ y.ledger \in Row
             /\ y.source = x.source /\ y.transfer = x.transfer /\ y.intent = x.intent
             /\ y.org = x.org /\ y.buy = x.buy /\ y.now = x.now
             /\ y.subs = x.subs /\ y.trail = x.trail
<1> DEFINE x == work[w]
           row == AppliedRow(x)
<1>1. /\ Busy(w) /\ x.step = "ledger" /\ KeyFree(x.transfer, w) /\ ~Applied(x.transfer)
      /\ work' = [work EXCEPT ![w].step = "extend", ![w].ledger = row]
  BY DEF WriteLedger, Busy, Applied
<1>2. x \in Tx /\ x.transfer \in Transfers /\ x.intent \in Intents \cup {NoIntent}
      /\ x.org \in Orgs /\ x.source \in {"webhook", "admin"}
  BY <1>1, TxTyped DEF RowsHeld
<1>3. ledger[x.transfer] # NoRow => ledger[x.transfer].intent \in Intents \cup {NoIntent}
  BY <1>2 DEF RowsHeld, TypeOK, Row
<1>4. row \in Row
  BY <1>2, <1>3 DEF AppliedRow, Row
<1>5. work \in [Workers -> Tx \cup {NoTx}]
  BY DEF RowsHeld, TypeOK
<1> HIDE DEF row
<1>6. /\ work'[w] = [x EXCEPT !.step = "extend", !.ledger = row]
      /\ \A v \in Workers \ {w} : work'[v] = work[v]
      /\ work' = [v \in Workers |-> work'[v]]
  BY <1>1, <1>5
<1> HIDE DEF x
<1>7. /\ work'[w] \in Tx /\ work'[w].step = "extend" /\ work'[w].ledger = row
      /\ work'[w].source = x.source /\ work'[w].transfer = x.transfer
      /\ work'[w].intent = x.intent /\ work'[w].org = x.org /\ work'[w].buy = x.buy
      /\ work'[w].now = x.now /\ work'[w].subs = x.subs /\ work'[w].trail = x.trail
  BY <1>2, <1>4, <1>6 DEF Tx
<1>8. work'[w] # NoTx
  BY <1>7, AbsenceAssumption
<1>9. work' \in [Workers -> Tx \cup {NoTx}]
  BY <1>5, <1>6, <1>7
<1> QED BY <1>1, <1>4, <1>6, <1>7, <1>8, <1>9 DEF x, row

LEMMA WriteLedgerHeld ==
  ASSUME RowsHeld, NEW w \in Workers, WriteLedger(w)
  PROVE  RowsHeld'
<1> DEFINE x == work[w]
           y == work'[w]
<1>1. /\ Busy(w) /\ x.step = "ledger" /\ KeyFree(x.transfer, w) /\ ~Applied(x.transfer)
      /\ work' \in [Workers -> Tx \cup {NoTx}] /\ y \in Tx /\ y # NoTx
      /\ \A v \in Workers \ {w} : work'[v] = work[v]
      /\ y.step = "extend" /\ y.ledger = AppliedRow(x) /\ y.ledger \in Row
      /\ y.source = x.source /\ y.transfer = x.transfer /\ y.intent = x.intent
      /\ y.org = x.org /\ y.buy = x.buy /\ y.subs = x.subs /\ y.trail = x.trail
      /\ UNCHANGED <<now, bank, acked, intents, sub, referredBy, ledger, audit, faults>>
  BY WriteLedgerDoes DEF WriteLedger
<1>2. TypeOK'
  BY <1>1 DEF RowsHeld, TypeOK
<1>3. TxShape(x) /\ TxFinds(w) /\ y.ledger # NoRow
  BY <1>1, AbsenceAssumption DEF RowsHeld
<1>4. TxShape(y)
  <2>1. /\ y.ledger.outcome = "applied" /\ y.ledger.org = x.org /\ y.ledger.source = x.source
        /\ x.intent # NoIntent => y.ledger.intent = x.intent
    BY <1>1 DEF AppliedRow
  <2>2. x.source = "webhook" => x.intent # NoIntent
    BY <1>3, AbsenceAssumption DEF TxShape
  <2> HIDE DEF x, y
  <2> QED BY <1>1, <1>3, <2>1, <2>2 DEF TxShape
<1>5. TxFinds(w)'
  BY <1>1, <1>3 DEF TxFinds, Applied
<1>6. ASSUME NEW v \in Workers \ {w}, Busy(v)
      PROVE  Apart(v, w)'
  <2>1. Apart(v, w) /\ (work[v].transfer # x.transfer \/ work[v].ledger = NoRow)
    BY <1>1, <1>6 DEF RowsHeld, KeyFree, Busy
  <2> QED BY <1>1, <2>1 DEF Apart
<1>7. \A t \in Transfers : Applied(t)' => Applied(t)
  BY <1>1 DEF Applied
<1> QED BY <1>1, <1>2, <1>4, <1>5, <1>6, <1>7, OneTxMoves

(* A write to a subscription that no other transaction holds.              *)
LEMMA WritesHeld ==
  ASSUME RowsHeld, NEW w \in Workers, Busy(w), NEW o \in Orgs, NEW new \in Sub,
         NEW action \in {"activated", "staff_added", "bonus"}, NEW months \in 0..36,
         NEW step \in {"reward", "inviter", "commit"},
         Writes(w, o, new, action, months, step),
         work[w].step \notin {"ledger"}, SubFree(o, w),
         o = work[w].org \/ work[w].subs[work[w].org] # NoSub,
         step = "inviter" => referredBy[work[w].org] \in Orgs,
         UNCHANGED <<now, bank, acked, intents, sub, referredBy, ledger, audit, faults>>
  PROVE  RowsHeld'
<1> DEFINE x == work[w]
           y == work'[w]
<1>1. /\ work' \in [Workers -> Tx \cup {NoTx}] /\ y \in Tx /\ y # NoTx
      /\ \A v \in Workers \ {w} : work'[v] = work[v]
      /\ y.step = step
      /\ y.subs \in [Orgs -> Sub \cup {NoSub}] /\ y.subs[o] = new
      /\ \A p \in Orgs \ {o} : y.subs[p] = x.subs[p]
      /\ y.source = x.source /\ y.transfer = x.transfer /\ y.intent = x.intent
      /\ y.org = x.org /\ y.buy = x.buy /\ y.ledger = x.ledger
  <2>1. TypeOK
    BY DEF RowsHeld
  <2>2. AfterWrites(w, o, new, action, months, step)
    BY <2>1, WritesDoes
  <2> QED BY <2>2 DEF AfterWrites
<1>2. TypeOK'
  BY <1>1 DEF RowsHeld, TypeOK
<1>3. TxShape(x) /\ TxFinds(w) /\ x.org \in Orgs
  BY TxTyped DEF RowsHeld
<1>4. y.subs[y.org] # NoSub
  BY <1>1, <1>3, AbsenceAssumption
<1>5. TxShape(y)
  BY <1>1, <1>3, <1>4 DEF TxShape
<1>6. TxFinds(w)'
  BY <1>1, <1>3 DEF TxFinds, Applied
<1>7. ASSUME NEW v \in Workers \ {w}, Busy(v)
      PROVE  Apart(v, w)'
  <2>1. Apart(v, w) /\ work[v].subs[o] = NoSub
    BY <1>7 DEF RowsHeld, SubFree, Busy
  <2> QED BY <1>1, <2>1 DEF Apart
<1>8. \A t \in Transfers : Applied(t)' => Applied(t)
  BY DEF Applied
<1> QED BY <1>1, <1>2, <1>5, <1>6, <1>7, <1>8, OneTxMoves

LEMMA ExtendSubHeld ==
  ASSUME RowsHeld, NEW w \in Workers, ExtendSub(w)
  PROVE  RowsHeld'
<1>1. /\ Busy(w) /\ work[w].step = "extend" /\ SubFree(work[w].org, w)
      /\ \E new \in Sub, action \in {"activated", "staff_added"} :
           Writes(w, work[w].org, new, action, work[w].buy.months, "reward")
  BY ExtendSubDoes
<1>2. work[w].org \in Orgs /\ work[w].buy.months \in 0..36
  BY <1>1, TxTyped DEF RowsHeld
<1>3. UNCHANGED <<now, bank, acked, intents, sub, referredBy, ledger, audit, faults>>
  BY DEF ExtendSub
<1> QED BY <1>1, <1>2, <1>3, WritesHeld

(* What a transaction holds, no other one does.                            *)
LEMMA HeldIsFree ==
  ASSUME RowsHeld, NEW w \in Workers, Busy(w), NEW o \in Orgs, work[w].subs[o] # NoSub
  PROVE  SubFree(o, w)
BY DEF RowsHeld, SubFree, Apart, Busy

LEMMA RewardReferralHeld ==
  ASSUME RowsHeld, NEW w \in Workers, RewardReferral(w)
  PROVE  RowsHeld'
<1> DEFINE x == work[w]
<1>1. Busy(w) /\ x.step = "reward" /\ x.org \in Orgs /\ x.subs[x.org] # NoSub /\ x \in Tx
      /\ TxShape(x) /\ TxFinds(w)
  BY RewardReferralDoes, TxTyped DEF RowsHeld, TxShape
<1>2. UNCHANGED <<now, bank, acked, intents, sub, referredBy, ledger, audit, faults>>
  BY DEF RewardReferral
<1>3. CASE RewardDue(x)
  <2> DEFINE step == IF referredBy[x.org] \in Orgs THEN "inviter" ELSE "commit"
  <2>1. \E new \in Sub : Writes(w, x.org, new, "bonus", 1, step)
    BY <1>3, RewardReferralDoes
  <2>2. step \in {"reward", "inviter", "commit"} /\ (step = "inviter" => referredBy[x.org] \in Orgs)
    OBVIOUS
  <2>3. SubFree(x.org, w)
    BY <1>1, HeldIsFree
  <2>4. PICK new \in Sub : Writes(w, x.org, new, "bonus", 1, step)
    BY <2>1
  <2>5. x.step # "ledger" /\ 1 \in 0..36
    BY <1>1
  <2> HIDE DEF step
  <2> QED BY <1>1, <1>2, <2>2, <2>3, <2>4, <2>5, WritesHeld
<1>4. CASE ~RewardDue(x)
  <2>1. work' = [work EXCEPT ![w].step = "commit"]
    BY <1>4, RewardReferralDoes
  <2>2. work \in [Workers -> Tx \cup {NoTx}]
    BY DEF RowsHeld, TypeOK
  <2>3. /\ work'[w] = [x EXCEPT !.step = "commit"]
        /\ \A v \in Workers \ {w} : work'[v] = work[v]
        /\ work' = [v \in Workers |-> work'[v]]
    BY <2>1, <2>2
  <2> HIDE DEF x
  <2>4. /\ work'[w] \in Tx /\ work'[w].step = "commit" /\ work'[w].ledger = x.ledger
        /\ work'[w].source = x.source /\ work'[w].transfer = x.transfer
        /\ work'[w].intent = x.intent /\ work'[w].org = x.org /\ work'[w].buy = x.buy
        /\ work'[w].subs = x.subs /\ work'[w].trail = x.trail
    BY <1>1, <2>3 DEF Tx
  <2>5. work'[w] # NoTx /\ work' \in [Workers -> Tx \cup {NoTx}]
    BY <2>2, <2>3, <2>4, AbsenceAssumption
  <2>6. TypeOK'
    BY <1>2, <2>5 DEF RowsHeld, TypeOK
  <2>7. TxShape(work'[w])
    BY <1>1, <2>4 DEF TxShape
  <2>8. TxFinds(w)'
    BY <1>1, <1>2, <2>4 DEF TxFinds, Applied, x
  <2>9. ASSUME NEW v \in Workers \ {w}, Busy(v)
        PROVE  Apart(v, w)'
    <3>1. Apart(v, w)
      BY <1>1, <2>9 DEF RowsHeld
    <3> QED BY <2>3, <2>4, <3>1 DEF Apart, x
  <2>10. \A t \in Transfers : Applied(t)' => Applied(t)
    BY <1>2 DEF Applied
  <2> QED BY <1>2, <2>3, <2>6, <2>7, <2>8, <2>9, <2>10, OneTxMoves
<1> QED BY <1>3, <1>4

LEMMA RewardInviterHeld ==
  ASSUME RowsHeld, NEW w \in Workers, RewardInviter(w)
  PROVE  RowsHeld'
<1> DEFINE x == work[w]
<1>1. /\ Busy(w) /\ x.step = "inviter" /\ referredBy[x.org] \in Orgs /\ SubFree(referredBy[x.org], w)
      /\ \E new \in Sub : Writes(w, referredBy[x.org], new, "bonus", 1, "commit")
  BY RewardInviterDoes
<1>2. UNCHANGED <<now, bank, acked, intents, sub, referredBy, ledger, audit, faults>>
  BY DEF RewardInviter
<1>3. x.subs[x.org] # NoSub /\ x.step # "ledger" /\ 1 \in 0..36
  BY <1>1 DEF RowsHeld, TxShape
<1>4. PICK new \in Sub : Writes(w, referredBy[x.org], new, "bonus", 1, "commit")
  BY <1>1
<1> QED BY <1>1, <1>2, <1>3, <1>4, WritesHeld

(* A transaction that begins holds its intent only.                        *)
LEMMA OpenHeld ==
  ASSUME RowsHeld, NEW w \in Workers, NEW source \in {"webhook", "admin"},
         NEW t \in Transfers, NEW i \in Intents \cup {NoIntent}, NEW o \in Orgs,
         NEW buy \in Purchase, Open(w, source, t, i, o, buy),
         source = "webhook" => Payable(i) /\ i \in Intents /\ intents[i] # NoIntent
                                 /\ IntentFree(i, w),
         source = "admin" => i = NoIntent,
         buy.kind = "plan" => buy.months \in 1..36,
         buy.kind = "staff" => buy.months = 0 /\ buy.extraStaff \in 0..EXTRA_STAFF_MAX,
         UNCHANGED <<now, bank, acked, intents, sub, referredBy, ledger, audit, faults>>
  PROVE  RowsHeld'
<1> DEFINE y == [step |-> "ledger", source |-> source, transfer |-> t, intent |-> i, org |-> o,
                 buy |-> buy, now |-> now, ledger |-> NoRow, subs |-> [p \in Orgs |-> NoSub],
                 trail |-> <<>>]
<1>1. work' = [work EXCEPT ![w] = y] /\ work \in [Workers -> Tx \cup {NoTx}] /\ now \in Nat
  BY DEF Open, RowsHeld, TypeOK
<1>2. y \in Tx
  <2>1. <<>> \in Seq(Entry) /\ [p \in Orgs |-> NoSub] \in [Orgs -> Sub \cup {NoSub}]
    OBVIOUS
  <2> QED BY <1>1, <2>1 DEF Tx
<1>3. /\ work'[w] = y /\ \A v \in Workers \ {w} : work'[v] = work[v]
      /\ work' \in [Workers -> Tx \cup {NoTx}]
  BY <1>1, <1>2
<1>4. TypeOK'
  BY <1>3 DEF RowsHeld, TypeOK
<1>5. source = "webhook" => i \in Intents /\ intents[i] # NoIntent /\ intents[i].status = "pending"
  BY DEF Payable
<1>6. TxShape(y)
  BY <1>5 DEF TxShape
<1>7. TxFinds(w)'
  BY <1>3, <1>5 DEF TxFinds
<1>8. ASSUME NEW v \in Workers \ {w}, Busy(v)
      PROVE  Apart(v, w)'
  BY <1>3, <1>8 DEF Apart, IntentFree, Busy
<1>9. \A u \in Transfers : Applied(u)' => Applied(u)
  BY DEF Applied
<1>10. TxShape(work'[w])
  BY <1>3, <1>6
<1> HIDE DEF y
<1> QED BY <1>3, <1>4, <1>7, <1>8, <1>9, <1>10, OneTxMoves

LEMMA PurchaseTyped ==
  ASSUME NEW intent \in Intent
  PROVE  /\ PurchaseOf(intent) \in Purchase
         /\ PurchaseOf(intent).kind = "plan" => PurchaseOf(intent).months \in 1..36
         /\ PurchaseOf(intent).kind = "staff" =>
              PurchaseOf(intent).months = 0 /\ PurchaseOf(intent).extraStaff \in 0..EXTRA_STAFF_MAX
<1>2. intent.extraStaff \in 0..EXTRA_STAFF_MAX /\ intent.months \in {0, 1, 12}
  BY DEF Intent
<1>3. CASE intent.kind = "staff"
  <2>1. PurchaseOf(intent) =
          [kind |-> "staff", plan |-> Keep, months |-> 0, extraStaff |-> intent.extraStaff]
    BY <1>3 DEF PurchaseOf
  <2> QED BY <1>2, <2>1 DEF Purchase
<1>4. CASE intent.kind # "staff"
  <2> DEFINE months == IF intent.months = 0 THEN LegacyMonths(intent.amount) ELSE intent.months
             plan == IF intent.plan = "thuong_lai" THEN "thuong_lai" ELSE "vua"
  <2>1. PurchaseOf(intent) =
          [kind |-> "plan", plan |-> plan, months |-> months, extraStaff |-> intent.extraStaff]
    BY <1>4 DEF PurchaseOf
  <2>2. months \in {1, 12} /\ plan \in PlanCode
    BY <1>2 DEF LegacyMonths, PlanCode
  <2> HIDE DEF months, plan
  <2> QED BY <1>2, <2>1, <2>2 DEF Purchase
<1> QED BY <1>3, <1>4

LEMMA WebhookOpensHeld ==
  ASSUME RowsHeld, NEW w \in Workers, NEW t \in Transfers, WebhookOpens(w, t)
  PROVE  RowsHeld'
<1> DEFINE i == bank[t].code
<1>1. /\ Payable(i) /\ IntentFree(i, w)
      /\ Open(w, "webhook", t, i, intents[i].org, PurchaseOf(intents[i]))
      /\ UNCHANGED <<now, bank, acked, intents, sub, referredBy, ledger, audit, faults>>
  BY DEF WebhookOpens, Paying
<1>2. i \in Intents /\ intents[i] \in Intent /\ intents[i] # NoIntent
  <2>1. bank[t] \in Sent
    BY DEF WebhookOpens, RowsHeld, TypeOK
  <2>2. i \in Intents
    BY <1>1, <2>1 DEF Sent, Payable
  <2>3. intents[i] # NoIntent
    BY <1>1, <2>2 DEF WebhookOpens, RowsHeld, BankRight, Payable
  <2> QED BY <2>2, <2>3 DEF RowsHeld, TypeOK
<1>3. intents[i].org \in Orgs
  BY <1>2 DEF Intent
<1> HIDE DEF i
<1> QED BY <1>1, <1>2, <1>3, PurchaseTyped, OpenHeld

LEMMA AdminOpensHeld ==
  ASSUME RowsHeld, NEW w \in Workers, NEW t \in Transfers, NEW input \in AdminOrders,
         AdminOpens(w, t, input)
  PROVE  RowsHeld'
<1> DEFINE buy == [kind |-> "plan", plan |-> input.plan, months |-> input.months,
                   extraStaff |-> input.extraStaff]
<1>1. input \in AdminInput
  BY BillingAssumption
<1>2. buy \in Purchase /\ buy.kind = "plan" /\ buy.months \in 1..36 /\ input.org \in Orgs
  BY <1>1 DEF AdminInput, Purchase
<1>3. /\ Open(w, "admin", t, NoIntent, input.org, buy)
      /\ UNCHANGED <<now, bank, acked, intents, sub, referredBy, ledger, audit, faults>>
  BY DEF AdminOpens
<1> HIDE DEF buy
<1> QED BY <1>2, <1>3, OpenHeld

(* A transaction that ends without a commit holds nothing any more.        *)
LEMMA CloseHeld ==
  ASSUME RowsHeld, NEW w \in Workers, work' = [work EXCEPT ![w] = NoTx],
         acked' \subseteq Transfers, faults' \in 0..MaxFaults,
         UNCHANGED <<now, bank, intents, sub, referredBy, ledger, audit>>
  PROVE  RowsHeld'
<1>1. /\ ~Busy(w)' /\ \A v \in Workers \ {w} : work'[v] = work[v]
      /\ work' \in [Workers -> Tx \cup {NoTx}]
  BY DEF RowsHeld, TypeOK, Busy
<1>2. TypeOK'
  BY <1>1 DEF RowsHeld, TypeOK
<1>3. \A t \in Transfers : Applied(t)' => Applied(t)
  BY DEF Applied
<1> QED BY <1>1, <1>2, <1>3, OneTxMoves

LEMMA ClosesHeld ==
  ASSUME RowsHeld, NEW w \in Workers, AlreadyApplied(w) \/ Fail(w) \/ BreakDeadlock(w)
  PROVE  RowsHeld'
<1>1. acked \subseteq Transfers /\ faults \in 0..MaxFaults /\ MaxFaults \in Nat
  BY BillingAssumption DEF RowsHeld, TypeOK
<1>2. CASE AlreadyApplied(w)
  <2>1. work[w].transfer \in Transfers
    BY <1>2, TxTyped DEF AlreadyApplied, RowsHeld, Busy
  <2> QED BY <1>1, <1>2, <2>1, CloseHeld DEF AlreadyApplied
<1>3. CASE Fail(w)
  <2>1. faults' \in 0..MaxFaults
    BY <1>1, <1>3 DEF Fail
  <2>2. /\ work' = [work EXCEPT ![w] = NoTx] /\ acked' = acked
        /\ UNCHANGED <<now, bank, intents, sub, referredBy, ledger, audit>>
    BY <1>3 DEF Fail, RollBack
  <2> QED BY <1>1, <2>1, <2>2, CloseHeld
<1>4. CASE BreakDeadlock(w)
  BY <1>1, <1>4, CloseHeld DEF BreakDeadlock, RollBack
<1> QED BY <1>2, <1>3, <1>4

(* Rows that the webhook leaves for a transfer that opens nothing.         *)
LEMMA WebhookRecordsDoes ==
  ASSUME RowsHeld, NEW w \in Workers, NEW t \in Transfers, WebhookRecords(w, t)
  PROVE  /\ ledger' \in [Transfers -> Row \cup {NoRow}]
         /\ \A u \in Transfers \ {t} : ledger'[u] = ledger[u]
         /\ ledger[t] # NoRow => ledger'[t] = ledger[t]
         /\ ledger'[t] # NoRow
         /\ \A u \in Transfers : Applied(u)' <=> Applied(u)
<1>1. /\ ledger' = [ledger EXCEPT ![t] = IF ledger[t] = NoRow THEN Unapplied(t) ELSE ledger[t]]
      /\ bank[t] # NotSent /\ bank[t].code # NoCode
      /\ ledger \in [Transfers -> Row \cup {NoRow}]
  BY DEF WebhookRecords, RowsHeld, TypeOK
<1>2. Unapplied(t) \in Row /\ Unapplied(t).outcome # "applied"
  <2> DEFINE i == bank[t].code
  <2>1. i \in Intents \cup {NoIntent}
    BY <1>1 DEF RowsHeld, TypeOK, Sent
  <2>2. i # NoIntent => intents[i].org \in Orgs
    BY <1>1, <2>1 DEF RowsHeld, TypeOK, BankRight, Intent
  <2>3. Unapplied(t).outcome \in {"no_intent", "underpaid", "intent_closed"}
    BY DEF Unapplied
  <2>4. Unapplied(t) \in Row
    BY <2>1, <2>2 DEF Unapplied, Row
  <2> QED BY <2>3, <2>4
<1>3. /\ ledger' \in [Transfers -> Row \cup {NoRow}]
      /\ \A u \in Transfers \ {t} : ledger'[u] = ledger[u]
      /\ ledger'[t] = IF ledger[t] = NoRow THEN Unapplied(t) ELSE ledger[t]
  BY <1>1, <1>2
<1>4. Unapplied(t) # NoRow
  BY <1>2, AbsenceAssumption
<1>5. \A u \in Transfers : Applied(u)' <=> Applied(u)
  BY <1>2, <1>3 DEF Applied
<1> QED BY <1>3, <1>4, <1>5

(* No transaction moves, and nothing that one has found changes.           *)
LEMMA NoTxMoves ==
  ASSUME RowsHeld, TypeOK', BankRight', NotOneself', UNCHANGED work,
         \A t \in Transfers : Applied(t)' => Applied(t),
         \A i \in Intents : intents[i] # NoIntent /\ intents[i].status = "pending"
           => intents'[i] = intents[i],
         \A o \in Orgs : referredBy[o] \in Orgs => referredBy'[o] = referredBy[o]
  PROVE  RowsHeld'
<1>1. ASSUME NEW v \in Workers, Busy(v)'
      PROVE  TxShape(work'[v]) /\ TxFinds(v)'
  <2>1. /\ Busy(v) /\ work'[v] = work[v] /\ work[v].transfer \in Transfers /\ work[v].org \in Orgs
        /\ TxShape(work[v]) /\ TxFinds(v)
    BY <1>1, TxTyped DEF RowsHeld, Busy
  <2>2. TxFinds(v)'
    BY <2>1 DEF TxFinds, TxShape
  <2> QED BY <2>1, <2>2
<1>2. \A u, v \in Workers : Busy(u)' /\ Busy(v)' /\ u # v => Apart(u, v)'
  BY DEF RowsHeld, Apart, Busy
<1> QED BY <1>1, <1>2 DEF RowsHeld

LEMMA WebhookRecordsHeld ==
  ASSUME RowsHeld, NEW w \in Workers, NEW t \in Transfers, WebhookRecords(w, t)
  PROVE  RowsHeld'
<1>1. /\ ledger' \in [Transfers -> Row \cup {NoRow}]
      /\ \A u \in Transfers : Applied(u)' => Applied(u)
  BY WebhookRecordsDoes
<1>2. /\ UNCHANGED <<now, bank, intents, sub, referredBy, audit, work, faults>>
      /\ acked' = acked \cup {t}
  BY DEF WebhookRecords
<1>3. TypeOK' /\ BankRight' /\ NotOneself'
  BY <1>1, <1>2 DEF RowsHeld, TypeOK, BankRight, NotOneself
<1> QED BY <1>1, <1>2, <1>3, NoTxMoves

LEMMA WebhookSkipsHeld ==
  ASSUME RowsHeld, NEW t \in Transfers, WebhookSkips(t)
  PROVE  RowsHeld'
<1>1. /\ UNCHANGED <<now, bank, intents, sub, referredBy, ledger, audit, work, faults>>
      /\ acked' = acked \cup {t}
  BY DEF WebhookSkips
<1>2. TypeOK' /\ BankRight' /\ NotOneself' /\ \A u \in Transfers : Applied(u)' => Applied(u)
  BY <1>1 DEF RowsHeld, TypeOK, BankRight, NotOneself, Applied
<1> QED BY <1>1, <1>2, NoTxMoves

(* A commit makes what the transaction wrote be so, and lets go of it.     *)
AfterCommit(w) ==
  LET x == work[w] IN
  /\ Busy(w) /\ x.step = "commit" /\ x.ledger \in Row /\ x.transfer \in Transfers /\ x.org \in Orgs
  /\ ledger' \in [Transfers -> Row \cup {NoRow}]
  /\ ledger'[x.transfer] = x.ledger
  /\ \A t \in Transfers \ {x.transfer} : ledger'[t] = ledger[t]
  /\ sub' \in [Orgs -> Sub]
  /\ \A o \in Orgs : sub'[o] = IF x.subs[o] = NoSub THEN sub[o] ELSE x.subs[o]
  /\ audit' = audit \o x.trail /\ audit \in Seq(Entry) /\ x.trail \in Seq(Entry)
  /\ intents' \in [Intents -> Intent \cup {NoIntent}]
  /\ \A i \in Intents : x.source = "webhook" /\ i = x.intent
                          => intents'[i] # NoIntent /\ intents'[i].status = "paid"
  /\ \A i \in Intents : ~(x.source = "webhook" /\ i = x.intent) => intents'[i] = intents[i]
  /\ ~Busy(w)' /\ \A v \in Workers \ {w} : work'[v] = work[v]
  /\ work' \in [Workers -> Tx \cup {NoTx}]
  /\ UNCHANGED <<now, bank, referredBy, faults>>

LEMMA CommitDoes ==
  ASSUME RowsHeld, NEW w \in Workers, Commit(w)
  PROVE  AfterCommit(w)
<1> DEFINE x == work[w]
<1>1. /\ Busy(w) /\ x.step = "commit"
      /\ ledger' = [ledger EXCEPT ![x.transfer] = x.ledger]
      /\ sub' = [o \in Orgs |-> Current(x, o)]
      /\ audit' = audit \o x.trail
      /\ intents' = IF x.source = "webhook" THEN [intents EXCEPT ![x.intent].status = "paid"]
                                            ELSE intents
      /\ work' = [work EXCEPT ![w] = NoTx]
      /\ UNCHANGED <<now, bank, referredBy, faults>>
  BY DEF Commit, Busy
<1>2. /\ x.transfer \in Transfers /\ x.org \in Orgs /\ x.ledger \in Row \cup {NoRow}
      /\ x.trail \in Seq(Entry) /\ \A o \in Orgs : Current(x, o) \in Sub
      /\ TxShape(x) /\ TxFinds(w)
  BY <1>1, TxTyped DEF RowsHeld
<1>3. x.ledger \in Row
  BY <1>1, <1>2 DEF TxShape
<1>4. /\ ledger \in [Transfers -> Row \cup {NoRow}] /\ audit \in Seq(Entry)
      /\ intents \in [Intents -> Intent \cup {NoIntent}] /\ work \in [Workers -> Tx \cup {NoTx}]
  BY DEF RowsHeld, TypeOK
<1>5. CASE x.source = "webhook"
  <2> DEFINE i == x.intent
             paid == [intents[i] EXCEPT !.status = "paid"]
  <2>1. i \in Intents /\ intents[i] \in Intent
    BY <1>2, <1>4, <1>5 DEF TxShape, TxFinds
  <2>2. paid \in Intent /\ paid.status = "paid"
    BY <2>1 DEF Intent
  <2>3. paid # NoIntent
    BY <2>2, AbsenceAssumption
  <2>4. intents' = [intents EXCEPT ![i] = paid]
    BY <1>1, <1>4, <1>5, <2>1
  <2> HIDE DEF paid
  <2>5. /\ intents' \in [Intents -> Intent \cup {NoIntent}]
        /\ intents'[i] = paid /\ \A j \in Intents \ {i} : intents'[j] = intents[j]
    BY <1>4, <2>1, <2>2, <2>4
  <2>6. /\ ledger' \in [Transfers -> Row \cup {NoRow}] /\ ledger'[x.transfer] = x.ledger
        /\ \A t \in Transfers \ {x.transfer} : ledger'[t] = ledger[t]
        /\ sub' \in [Orgs -> Sub]
        /\ \A o \in Orgs : sub'[o] = IF x.subs[o] = NoSub THEN sub[o] ELSE x.subs[o]
    BY <1>1, <1>2, <1>3, <1>4 DEF Current
  <2>7. /\ ~Busy(w)' /\ \A v \in Workers \ {w} : work'[v] = work[v]
        /\ work' \in [Workers -> Tx \cup {NoTx}]
    BY <1>1, <1>4 DEF Busy
  <2> QED BY <1>1, <1>2, <1>3, <1>4, <1>5, <2>2, <2>3, <2>5, <2>6, <2>7 DEF AfterCommit
<1>6. CASE x.source # "webhook"
  <2>1. intents' = intents
    BY <1>1, <1>6
  <2>6. /\ ledger' \in [Transfers -> Row \cup {NoRow}] /\ ledger'[x.transfer] = x.ledger
        /\ \A t \in Transfers \ {x.transfer} : ledger'[t] = ledger[t]
        /\ sub' \in [Orgs -> Sub]
        /\ \A o \in Orgs : sub'[o] = IF x.subs[o] = NoSub THEN sub[o] ELSE x.subs[o]
    BY <1>1, <1>2, <1>3, <1>4 DEF Current
  <2>7. /\ ~Busy(w)' /\ \A v \in Workers \ {w} : work'[v] = work[v]
        /\ work' \in [Workers -> Tx \cup {NoTx}]
    BY <1>1, <1>4 DEF Busy
  <2> QED BY <1>1, <1>2, <1>3, <1>4, <1>6, <2>1, <2>6, <2>7 DEF AfterCommit
<1> QED BY <1>5, <1>6

LEMMA CommitHeld ==
  ASSUME RowsHeld, NEW w \in Workers, Commit(w)
  PROVE  RowsHeld'
<1> DEFINE x == work[w]
<1>1. AfterCommit(w)
  BY CommitDoes
<1>2. /\ TxShape(x) /\ TxFinds(w) /\ Busy(w) /\ x.ledger # NoRow /\ x.step = "commit"
      /\ x.transfer \in Transfers /\ x.org \in Orgs
  BY <1>1, AbsenceAssumption DEF AfterCommit, RowsHeld
<1>3. audit' \in Seq(Entry)
  BY <1>1 DEF AfterCommit
<1>4. acked' \subseteq Transfers
  BY <1>1 DEF Commit, AfterCommit, RowsHeld, TypeOK
<1>5. TypeOK'
  BY <1>1, <1>3, <1>4 DEF AfterCommit, RowsHeld, TypeOK
<1>6. \A i \in Intents : /\ intents[i] # NoIntent => intents'[i] # NoIntent
                         /\ intents[i] # NoIntent /\ intents[i].status # "asked"
                              => intents'[i].status # "asked"
  BY <1>1 DEF AfterCommit
<1>7. BankRight' /\ NotOneself'
  <2>1. \A t \in Transfers : bank[t] # NotSent => bank[t].code \in Intents \cup {NoIntent, NoCode}
    BY DEF RowsHeld, TypeOK, Sent
  <2>2. bank' = bank /\ referredBy' = referredBy
    BY <1>1 DEF AfterCommit
  <2> QED BY <1>6, <2>1, <2>2 DEF RowsHeld, BankRight, NotOneself
<1>8. ASSUME NEW v \in Workers, Busy(v)'
      PROVE  v # w /\ Busy(v) /\ work'[v] = work[v] /\ TxShape(work'[v]) /\ TxFinds(v)'
  <2>1. v # w /\ work'[v] = work[v] /\ Busy(v)
    BY <1>1, <1>8 DEF AfterCommit, Busy
  <2>2. /\ TxShape(work[v]) /\ TxFinds(v) /\ Apart(w, v) /\ work[v].transfer \in Transfers
    BY <1>2, <2>1, TxTyped DEF RowsHeld
  <2>3. work[v].source = "webhook" => intents'[work[v].intent] = intents[work[v].intent]
    <3>1. x.source = "webhook" => x.intent # work[v].intent
      BY <1>2, <2>2, AbsenceAssumption DEF Apart, TxShape
    <3> QED BY <1>1, <2>2, <3>1 DEF AfterCommit, TxShape
  <2>4. work[v].ledger # NoRow => ledger'[work[v].transfer] = ledger[work[v].transfer]
    BY <1>1, <1>2, <2>2 DEF AfterCommit, Apart
  <2>5. TxFinds(v)'
    BY <1>1, <2>1, <2>2, <2>3, <2>4 DEF TxFinds, Applied, AfterCommit
  <2> QED BY <2>1, <2>2, <2>5
<1>9. ASSUME NEW u \in Workers, NEW v \in Workers, Busy(u)', Busy(v)', u # v
      PROVE  Apart(u, v)'
  BY <1>8, <1>9 DEF RowsHeld, Apart
<1> QED BY <1>5, <1>7, <1>8, <1>9 DEF RowsHeld

(* Owners, customers and the calendar.                                     *)
LEMMA QuoteHeld ==
  ASSUME RowsHeld, NEW i \in Intents, NEW o \in Orgs, NEW input \in Wanted, Quote(i, o, input)
  PROVE  RowsHeld'
<1> DEFINE new == [status |-> "asked", org |-> o, kind |-> input.kind, plan |-> input.plan,
                   months |-> input.months, extraStaff |-> input.extraStaff,
                   amount |-> Amount(o, input), createdAt |-> now]
<1>1. /\ intents[i] = NoIntent /\ intents' = [intents EXCEPT ![i] = new]
      /\ UNCHANGED <<now, bank, acked, sub, referredBy, ledger, audit, work, faults>>
  BY DEF Quote
<1>2. input \in Input /\ now \in Nat /\ sub[o] \in Sub
  BY BillingAssumption DEF RowsHeld, TypeOK
<1>3. Amount(o, input) \in Nat
  <2>1. CASE input.kind = "staff"
    <3>1. /\ input.extraStaff \in 0..EXTRA_STAFF_MAX /\ sub[o].billingMonths \in {1, 12}
          /\ sub[o].periodEnd \in Nat
      BY <1>2, <2>1 DEF Input, Sub, EXTRA_STAFF_MAX
    <3> QED BY <1>2, <2>1, <3>1, SumsTyped DEF Amount
  <2>2. CASE input.kind # "staff"
    <3>1. input.extraStaff \in 0..EXTRA_STAFF_MAX /\ input.months \in {1, 12} /\ input.plan \in PlanCode
      BY <1>2, <2>2 DEF Input, EXTRA_STAFF_MAX, PlanCode
    <3> QED BY <1>2, <2>2, <3>1, SumsTyped DEF Amount
  <2> QED BY <2>1, <2>2
<1>4. new \in Intent
  <2>1. /\ input.kind \in {"plan", "staff"} /\ input.plan \in PlanCode \cup {NoPlan}
        /\ input.months \in {0, 1, 12} /\ input.extraStaff \in 0..EXTRA_STAFF_MAX
    BY <1>2 DEF Input, EXTRA_STAFF_MAX, PlanCode
  <2> QED BY <1>2, <1>3, <2>1 DEF Intent
<1> HIDE DEF new
<1>5. /\ intents \in [Intents -> Intent \cup {NoIntent}]
      /\ intents' \in [Intents -> Intent \cup {NoIntent}]
      /\ \A j \in Intents : intents[j] # NoIntent => intents'[j] = intents[j]
  BY <1>1, <1>4 DEF RowsHeld, TypeOK
<1>6. TypeOK'
  BY <1>1, <1>5 DEF RowsHeld, TypeOK
<1>7. \A t \in Transfers : bank[t] # NotSent => bank[t].code \in Intents \cup {NoIntent, NoCode}
  BY DEF RowsHeld, TypeOK, Sent
<1>8. BankRight' /\ NotOneself'
  BY <1>1, <1>5, <1>7 DEF RowsHeld, BankRight, NotOneself
<1>9. \A t \in Transfers : Applied(t)' => Applied(t)
  BY <1>1 DEF Applied
<1> QED BY <1>1, <1>5, <1>6, <1>8, <1>9, NoTxMoves

LEMMA CreateIntentHeld ==
  ASSUME RowsHeld, NEW i \in Intents, CreateIntent(i)
  PROVE  RowsHeld'
<1> DEFINE new == [intents[i] EXCEPT !.status = "pending", !.createdAt = now]
<1>1. /\ intents[i] # NoIntent /\ intents[i].status = "asked"
      /\ intents' = [intents EXCEPT ![i].status = "pending", ![i].createdAt = now]
      /\ UNCHANGED <<now, bank, acked, sub, referredBy, ledger, audit, work, faults>>
  BY DEF CreateIntent
<1>2. intents \in [Intents -> Intent \cup {NoIntent}] /\ now \in Nat
  BY DEF RowsHeld, TypeOK
<1>3. intents' = [intents EXCEPT ![i] = new]
  BY <1>1, <1>2
<1>4. new \in Intent /\ new.status = "pending"
  BY <1>1, <1>2 DEF Intent
<1> HIDE DEF new
<1>5. new # NoIntent
  BY <1>4, AbsenceAssumption
<1>6. /\ intents' \in [Intents -> Intent \cup {NoIntent}] /\ intents'[i] = new
      /\ \A j \in Intents \ {i} : intents'[j] = intents[j]
  BY <1>2, <1>3, <1>4
<1>7. TypeOK'
  BY <1>1, <1>6 DEF RowsHeld, TypeOK
<1>8. \A t \in Transfers : bank[t] # NotSent => bank[t].code \in Intents \cup {NoIntent, NoCode}
  BY DEF RowsHeld, TypeOK, Sent
<1>9. BankRight' /\ NotOneself'
  BY <1>1, <1>4, <1>5, <1>6, <1>8 DEF RowsHeld, BankRight, NotOneself
<1>10. \A t \in Transfers : Applied(t)' => Applied(t)
  BY <1>1 DEF Applied
<1> QED BY <1>1, <1>6, <1>7, <1>9, <1>10, NoTxMoves

LEMMA ClaimReferralHeld ==
  ASSUME RowsHeld, NEW o \in Orgs, NEW p \in Inviters, ClaimReferral(o, p)
  PROVE  RowsHeld'
<1>1. /\ referredBy[o] = Nobody /\ p # o /\ referredBy' = [referredBy EXCEPT ![o] = p]
      /\ UNCHANGED <<now, bank, acked, intents, sub, ledger, audit, work, faults>>
  BY DEF ClaimReferral
<1>2. p \in Inviter /\ referredBy \in [Orgs -> Inviter] /\ Nobody \notin Orgs
  BY BillingAssumption DEF RowsHeld, TypeOK
<1>3. TypeOK' /\ BankRight' /\ NotOneself'
  BY <1>1, <1>2 DEF RowsHeld, TypeOK, BankRight, NotOneself
<1>4. \A t \in Transfers : Applied(t)' => Applied(t)
  BY <1>1 DEF Applied
<1> QED BY <1>1, <1>2, <1>3, <1>4, NoTxMoves

LEMMA TransferHeld ==
  ASSUME RowsHeld, NEW t \in Transfers, NEW code \in Intents \cup {NoIntent, NoCode}, NEW amount \in Int,
         code \in Intents => HasCode(code), Transfer(t, code, amount)
  PROVE  RowsHeld'
<1>1. /\ bank' = [bank EXCEPT ![t] = [code |-> code, amount |-> amount]]
      /\ UNCHANGED <<now, acked, intents, sub, referredBy, ledger, audit, work, faults>>
  BY DEF Transfer
<1>2. [code |-> code, amount |-> amount] \in Sent /\ bank \in [Transfers -> Sent \cup {NotSent}]
  BY DEF Sent, RowsHeld, TypeOK
<1>3. bank' \in [Transfers -> Sent \cup {NotSent}]
  BY <1>1, <1>2
<1>4. TypeOK' /\ NotOneself'
  BY <1>1, <1>3 DEF RowsHeld, TypeOK, NotOneself
<1>5. BankRight'
  BY <1>1, <1>2 DEF RowsHeld, BankRight, HasCode
<1>6. \A u \in Transfers : Applied(u)' => Applied(u)
  BY <1>1 DEF Applied
<1> QED BY <1>1, <1>4, <1>5, <1>6, NoTxMoves

LEMMA TransfersHeld ==
  ASSUME RowsHeld, NEW t \in Transfers,
         \/ \E code \in {NoIntent, NoCode} : Transfer(t, code, 1)
         \/ \E i \in Intents : HasCode(i) /\ \E amount \in Sums(i) : Transfer(t, i, amount)
  PROVE  RowsHeld'
<1>1. ASSUME NEW i \in Intents, HasCode(i), NEW amount \in Sums(i), Transfer(t, i, amount)
      PROVE  RowsHeld'
  <2>1. intents[i] \in Intent
    BY <1>1 DEF HasCode, RowsHeld, TypeOK
  <2>2. amount \in Int
    BY <2>1 DEF Sums, Intent
  <2> QED BY <1>1, <2>2, TransferHeld
<1>2. ASSUME NEW code \in {NoIntent, NoCode}, Transfer(t, code, 1)
      PROVE  RowsHeld'
  BY <1>2, TransferHeld, AbsenceAssumption
<1> QED BY <1>1, <1>2

LEMMA TickHeld ==
  ASSUME RowsHeld, NEW d \in Moments, Tick(d)
  PROVE  RowsHeld'
<1>1. /\ now' = d /\ d \in Nat
      /\ UNCHANGED <<bank, acked, intents, sub, referredBy, ledger, audit, work, faults>>
  BY BillingAssumption DEF Tick
<1>2. TypeOK' /\ BankRight' /\ NotOneself'
  BY <1>1 DEF RowsHeld, TypeOK, BankRight, NotOneself
<1>3. \A t \in Transfers : Applied(t)' => Applied(t)
  BY <1>1 DEF Applied
<1> QED BY <1>1, <1>2, <1>3, NoTxMoves

LEMMA InitHeld ==
  ASSUME Init
  PROVE  RowsHeld
<1>1. now \in Nat /\ 0 \in 0..MaxFaults
  BY BillingAssumption DEF Init
<1>2. <<>> \in Seq(Entry)
  OBVIOUS
<1>3. TypeOK
  BY <1>1, <1>2, BillingAssumption DEF Init, TypeOK
<1>4. BankRight /\ NotOneself /\ \A w \in Workers : ~Busy(w)
  BY BillingAssumption DEF Init, BankRight, NotOneself, Busy
<1> QED BY <1>3, <1>4 DEF RowsHeld

LEMMA StepHeld ==
  ASSUME RowsHeld, [Next]_vars
  PROVE  RowsHeld'
<1>1. CASE UNCHANGED vars
  <2>1. /\ UNCHANGED <<now, bank, acked, intents, sub, referredBy, ledger, audit, work, faults>>
    BY <1>1 DEF vars
  <2>2. TypeOK' /\ BankRight' /\ NotOneself' /\ \A t \in Transfers : Applied(t)' => Applied(t)
    BY <2>1 DEF RowsHeld, TypeOK, BankRight, NotOneself, Applied
  <2> QED BY <2>1, <2>2, NoTxMoves
<1>2. ASSUME NEW i \in Intents, CreateIntent(i) \/ \E o \in Orgs, input \in Wanted : Quote(i, o, input)
      PROVE  RowsHeld'
  BY <1>2, QuoteHeld, CreateIntentHeld
<1>3. ASSUME NEW o \in Orgs, NEW p \in Inviters, ClaimReferral(o, p) PROVE RowsHeld'
  BY <1>3, ClaimReferralHeld
<1>4. ASSUME NEW t \in Transfers,
             \/ \E code \in {NoIntent, NoCode} : Transfer(t, code, 1)
             \/ \E i \in Intents : HasCode(i) /\ \E amount \in Sums(i) : Transfer(t, i, amount)
      PROVE  RowsHeld'
  BY <1>4, TransfersHeld
<1>5. ASSUME NEW t \in Transfers, Deliver(t) PROVE RowsHeld'
  BY <1>5, WebhookOpensHeld, WebhookRecordsHeld, WebhookSkipsHeld DEF Deliver
<1>6. ASSUME NEW w \in Workers, NEW t \in Transfers, NEW input \in AdminOrders,
             AdminOpens(w, t, input)
      PROVE  RowsHeld'
  BY <1>6, AdminOpensHeld
<1>7. ASSUME NEW w \in Workers, Step(w) \/ Fail(w) \/ BreakDeadlock(w) PROVE RowsHeld'
  BY <1>7, ClosesHeld, WriteLedgerHeld, ExtendSubHeld, RewardReferralHeld, RewardInviterHeld,
     CommitHeld DEF Step
<1>8. ASSUME NEW d \in Moments, Tick(d) PROVE RowsHeld'
  BY <1>8, TickHeld
<1> QED BY <1>1, <1>2, <1>3, <1>4, <1>5, <1>6, <1>7, <1>8 DEF Next

(* Open transactions keep apart, and find what they have found.            *)
LEMMA RowsAreHeld == Spec => []RowsHeld
BY InitHeld, StepHeld, PTL DEF Spec

(* Every variable has its type, subscriptions and prices included, for any *)
(* number of organisations, intents, transfers and connections.            *)
THEOREM BillingTyped == Spec => []TypeOK
<1>1. RowsHeld => TypeOK
  BY DEF RowsHeld
<1> QED BY <1>1, RowsAreHeld, PTL

-----------------------------------------------------------------------------
(* The trail of an open transaction: what is paid for, then the reward, on *)
(* both sides.                                                             *)

TrailRight(w) ==
  LET x == work[w]
      n == Len(x.trail)
      p == referredBy[x.org]
  IN  /\ n \in 0..3
      /\ x.step = "reward" => n = 1
      /\ x.step = "inviter" => n = 2
      /\ x.step = "commit" => n = 1 \/ (n = 2 /\ p \notin Orgs) \/ (n = 3 /\ p \in Orgs)
      /\ n >= 1 => x.trail[1].action # "bonus" /\ x.trail[1].org = x.org
                   /\ x.trail[1].months = x.buy.months
      /\ n >= 2 => x.trail[2].action = "bonus" /\ x.trail[2].org = x.org /\ x.trail[2].months = 1
                   /\ p # Nobody
      /\ n >= 3 => x.trail[3].action = "bonus" /\ x.trail[3].org = p /\ x.trail[3].months = 1
                   /\ p # x.org
      /\ \A k \in 1..n : x.trail[k].transfer = x.transfer /\ x.trail[k].referred = x.org
      /\ \A o \in Orgs : x.subs[o] # NoSub => o = x.org \/ (n = 3 /\ o = p)

TrailsHeld == \A w \in Workers : Busy(w) => TrailRight(w)

LEMMA Appended ==
  ASSUME NEW log \in Seq(Entry), NEW e \in Entry
  PROVE  /\ Len(log) \in Nat /\ Len(Append(log, e)) = Len(log) + 1
         /\ \A k \in 1..Len(log) : Append(log, e)[k] = log[k]
         /\ Append(log, e)[Len(log) + 1] = e
OBVIOUS

(* One row more in the trail of a transaction.                             *)
LEMMA TrailGrows ==
  ASSUME RowsHeld, NEW w \in Workers, Busy(w), NEW o \in Orgs, NEW new \in Sub,
         NEW action \in {"activated", "staff_added", "bonus"}, NEW months \in 0..36,
         NEW step \in {"reward", "inviter", "commit"},
         Writes(w, o, new, action, months, step)
  PROVE  LET x == work[w]
             y == work'[w]
             n == Len(x.trail)
         IN  /\ n \in Nat /\ Len(y.trail) = n + 1
             /\ \A k \in 1..n : y.trail[k] = x.trail[k]
             /\ y.trail[n + 1] = AuditRow(x, o, action, months, new)
             /\ AuditRow(x, o, action, months, new) \in Entry
<1>1. AfterWrites(w, o, new, action, months, step)
  BY WritesDoes DEF RowsHeld
<1>2. work[w].trail \in Seq(Entry)
  BY TxTyped DEF RowsHeld
<1> QED BY <1>1, <1>2, Appended DEF AfterWrites

LEMMA TrailExtends ==
  ASSUME RowsHeld, TrailsHeld, NEW w \in Workers,
         WriteLedger(w) \/ ExtendSub(w) \/ RewardReferral(w) \/ RewardInviter(w)
  PROVE  /\ TrailRight(w)' /\ UNCHANGED referredBy
         /\ \A v \in Workers \ {w} : work'[v] = work[v]
<1> DEFINE x == work[w]
           y == work'[w]
<1>1. CASE WriteLedger(w)
  <2>1. /\ Busy(w) /\ x.step = "ledger" /\ y.step = "extend" /\ y.trail = x.trail /\ y.subs = x.subs
        /\ y.org = x.org /\ y.transfer = x.transfer /\ y.buy = x.buy /\ UNCHANGED referredBy
        /\ \A v \in Workers \ {w} : work'[v] = work[v]
    BY <1>1, WriteLedgerDoes DEF WriteLedger
  <2>2. TrailRight(w)
    BY <2>1 DEF TrailsHeld
  <2> QED BY <2>1, <2>2 DEF TrailRight
<1>2. CASE ExtendSub(w)
  <2>1. /\ Busy(w) /\ x.step = "extend"
        /\ \E new \in Sub, action \in {"activated", "staff_added"} :
             Writes(w, x.org, new, action, x.buy.months, "reward")
    BY <1>2, ExtendSubDoes
  <2>2. PICK new \in Sub, action \in {"activated", "staff_added"} :
          Writes(w, x.org, new, action, x.buy.months, "reward")
    BY <2>1
  <2>3. /\ x.org \in Orgs /\ x.buy.months \in 0..36 /\ x.trail = <<>>
        /\ \A o \in Orgs : x.subs[o] = NoSub
    BY <2>1, TxTyped DEF RowsHeld, TxShape
  <2>4. AfterWrites(w, x.org, new, action, x.buy.months, "reward")
    BY <2>1, <2>2, <2>3, WritesDoes DEF RowsHeld
  <2> DEFINE e == AuditRow(x, x.org, action, x.buy.months, new)
  <2>5. /\ y.trail = Append(x.trail, e) /\ e \in Entry /\ x.trail \in Seq(Entry)
        /\ \A v \in Workers \ {w} : work'[v] = work[v]
        /\ y.step = "reward" /\ y.org = x.org /\ y.transfer = x.transfer /\ y.buy = x.buy
        /\ \A o \in Orgs \ {x.org} : y.subs[o] = NoSub
    BY <2>1, <2>3, <2>4, TxTyped DEF AfterWrites, RowsHeld
  <2>6. /\ e.action # "bonus" /\ e.org = x.org /\ e.months = x.buy.months
        /\ e.transfer = x.transfer /\ e.referred = x.org
    BY DEF AuditRow
  <2> HIDE DEF e
  <2>7. Len(y.trail) = 1 /\ y.trail[1] = e
    BY <2>3, <2>5
  <2>8. UNCHANGED referredBy
    BY <1>2 DEF ExtendSub
  <2> QED BY <2>5, <2>6, <2>7, <2>8 DEF TrailRight
<1>3. CASE RewardReferral(w)
  <2>1. /\ Busy(w) /\ x.step = "reward" /\ TrailRight(w) /\ Len(x.trail) = 1 /\ x.org \in Orgs
        /\ UNCHANGED referredBy
    BY <1>3, RewardReferralDoes, TxTyped DEF RewardReferral, TrailsHeld, TrailRight, RowsHeld
  <2>2. CASE ~RewardDue(x)
    <3>1. work' = [work EXCEPT ![w].step = "commit"] /\ work \in [Workers -> Tx \cup {NoTx}]
      BY <1>3, <2>2, RewardReferralDoes DEF RowsHeld, TypeOK
    <3>2. y = [x EXCEPT !.step = "commit"] /\ \A v \in Workers \ {w} : work'[v] = work[v]
      BY <3>1
    <3>3. x \in Tx
      BY <2>1, TxTyped DEF RowsHeld
    <3> HIDE DEF x, y
    <3>4. /\ y.step = "commit" /\ y.trail = x.trail /\ y.subs = x.subs /\ y.org = x.org
          /\ y.transfer = x.transfer /\ y.buy = x.buy
      BY <3>2, <3>3 DEF Tx
    <3> QED BY <2>1, <3>2, <3>4 DEF TrailRight, x, y
  <2>3. CASE RewardDue(x)
    <3> DEFINE step == IF referredBy[x.org] \in Orgs THEN "inviter" ELSE "commit"
    <3>1. PICK new \in Sub : Writes(w, x.org, new, "bonus", 1, step)
      BY <1>3, <2>3, RewardReferralDoes
    <3>2. step \in {"reward", "inviter", "commit"} /\ 1 \in 0..36
      OBVIOUS
    <3> HIDE DEF step
    <3>3. AfterWrites(w, x.org, new, "bonus", 1, step)
      BY <2>1, <3>1, <3>2, WritesDoes DEF RowsHeld
    <3> DEFINE e == AuditRow(x, x.org, "bonus", 1, new)
    <3>4. /\ y.trail = Append(x.trail, e) /\ e \in Entry /\ x.trail \in Seq(Entry)
          /\ \A v \in Workers \ {w} : work'[v] = work[v]
          /\ y.step = step /\ y.org = x.org /\ y.transfer = x.transfer /\ y.buy = x.buy
          /\ \A o \in Orgs \ {x.org} : y.subs[o] = x.subs[o]
      BY <2>1, <3>3, TxTyped DEF AfterWrites, RowsHeld
    <3>5. /\ e.action = "bonus" /\ e.org = x.org /\ e.months = 1
          /\ e.transfer = x.transfer /\ e.referred = x.org
      BY DEF AuditRow
    <3> HIDE DEF e
    <3>6. Len(y.trail) = 2 /\ y.trail[1] = x.trail[1] /\ y.trail[2] = e
      BY <2>1, <3>4
    <3>7. referredBy[x.org] # Nobody
      BY <2>3 DEF RewardDue
    <3> QED BY <2>1, <3>4, <3>5, <3>6, <3>7 DEF TrailRight, step
  <2> QED BY <2>2, <2>3
<1>4. CASE RewardInviter(w)
  <2> DEFINE p == referredBy[x.org]
  <2>1. /\ Busy(w) /\ x.step = "inviter" /\ TrailRight(w) /\ Len(x.trail) = 2 /\ x.org \in Orgs
        /\ p \in Orgs /\ p # x.org /\ UNCHANGED referredBy
        /\ \E new \in Sub : Writes(w, p, new, "bonus", 1, "commit")
    BY <1>4, RewardInviterDoes, TxTyped DEF RewardInviter, TrailsHeld, TrailRight, RowsHeld
  <2>2. PICK new \in Sub : Writes(w, p, new, "bonus", 1, "commit")
    BY <2>1
  <2>3. 1 \in 0..36
    OBVIOUS
  <2>4. AfterWrites(w, p, new, "bonus", 1, "commit")
    BY <2>1, <2>2, <2>3, WritesDoes DEF RowsHeld
  <2> DEFINE e == AuditRow(x, p, "bonus", 1, new)
  <2>5. /\ y.trail = Append(x.trail, e) /\ e \in Entry /\ x.trail \in Seq(Entry)
        /\ \A v \in Workers \ {w} : work'[v] = work[v]
        /\ y.step = "commit" /\ y.org = x.org /\ y.transfer = x.transfer /\ y.buy = x.buy
        /\ \A o \in Orgs \ {p} : y.subs[o] = x.subs[o]
    BY <2>1, <2>4, TxTyped DEF AfterWrites, RowsHeld
  <2>6. /\ e.action = "bonus" /\ e.org = p /\ e.months = 1
        /\ e.transfer = x.transfer /\ e.referred = x.org
    BY DEF AuditRow
  <2> HIDE DEF e
  <2>7. Len(y.trail) = 3 /\ y.trail[1] = x.trail[1] /\ y.trail[2] = x.trail[2] /\ y.trail[3] = e
    BY <2>1, <2>5
  <2>8. referredBy[y.org] = p /\ p # Nobody
    BY <2>1, <2>5, BillingAssumption
  <2> QED BY <2>1, <2>5, <2>6, <2>7, <2>8 DEF TrailRight
<1> QED BY <1>1, <1>2, <1>3, <1>4

-----------------------------------------------------------------------------
(* The kinds of steps: nothing of the money moves, a transaction begins,   *)
(* ends without a commit, writes, or commits.                              *)

IsPaid(i) == intents[i] # NoIntent /\ intents[i].status = "paid"

Quietly == UNCHANGED <<sub, audit, ledger, intents, referredBy>>

Still ==
  /\ UNCHANGED <<sub, audit, work>>
  /\ \A t \in Transfers : (Applied(t)' <=> Applied(t)) /\ (Applied(t) => ledger'[t] = ledger[t])
  /\ \A i \in Intents : IsPaid(i)' <=> IsPaid(i)
  /\ \A o \in Orgs : referredBy[o] # Nobody => referredBy'[o] = referredBy[o]

Opened(w) ==
  /\ Quietly
  /\ work'[w].trail = <<>> /\ work'[w].step = "ledger" /\ \A o \in Orgs : work'[w].subs[o] = NoSub
  /\ \A v \in Workers \ {w} : work'[v] = work[v]

Closed(w) ==
  /\ Quietly
  /\ ~Busy(w)' /\ \A v \in Workers \ {w} : work'[v] = work[v]

Extends(w) == WriteLedger(w) \/ ExtendSub(w) \/ RewardReferral(w) \/ RewardInviter(w)

LEMMA OpensOpened ==
  ASSUME TypeOK, NEW w \in Workers, NEW source, NEW t, NEW i, NEW o, NEW buy,
         Open(w, source, t, i, o, buy), Quietly
  PROVE  Opened(w)
<1> DEFINE y == [step |-> "ledger", source |-> source, transfer |-> t, intent |-> i, org |-> o,
                 buy |-> buy, now |-> now, ledger |-> NoRow, subs |-> [p \in Orgs |-> NoSub],
                 trail |-> <<>>]
<1>1. work' = [work EXCEPT ![w] = y] /\ work \in [Workers -> Tx \cup {NoTx}]
  BY DEF Open, TypeOK
<1>2. y.trail = <<>> /\ y.step = "ledger" /\ \A p \in Orgs : y.subs[p] = NoSub
  OBVIOUS
<1> HIDE DEF y
<1> QED BY <1>1, <1>2 DEF Opened

LEMMA StepKinds ==
  ASSUME RowsHeld, [Next]_vars
  PROVE  Still \/ \E w \in Workers : Opened(w) \/ Closed(w) \/ Extends(w) \/ Commit(w)
<1>1. CASE UNCHANGED vars
  BY <1>1 DEF vars, Still, Applied, IsPaid
<1>2. ASSUME NEW i \in Intents, CreateIntent(i)
      PROVE  Still
  <2>1. /\ intents[i] # NoIntent /\ intents[i].status = "asked" /\ intents \in [Intents -> Intent \cup {NoIntent}]
        /\ intents' = [intents EXCEPT ![i].status = "pending", ![i].createdAt = now]
        /\ UNCHANGED <<sub, audit, work, ledger, referredBy>>
    BY <1>2 DEF CreateIntent, RowsHeld, TypeOK
  <2>2. intents'[i].status = "pending" /\ \A j \in Intents \ {i} : intents'[j] = intents[j]
    BY <2>1 DEF Intent
  <2> QED BY <2>1, <2>2 DEF Still, Applied, IsPaid
<1>3. ASSUME NEW i \in Intents, NEW o \in Orgs, NEW input \in Wanted, Quote(i, o, input)
      PROVE  Still
  <2> DEFINE new == [status |-> "asked", org |-> o, kind |-> input.kind, plan |-> input.plan,
                     months |-> input.months, extraStaff |-> input.extraStaff,
                     amount |-> Amount(o, input), createdAt |-> now]
  <2>1. /\ intents[i] = NoIntent /\ intents \in [Intents -> Intent \cup {NoIntent}]
        /\ intents' = [intents EXCEPT ![i] = new] /\ UNCHANGED <<sub, audit, work, ledger, referredBy>>
    BY <1>3 DEF Quote, RowsHeld, TypeOK
  <2>2. new.status = "asked"
    OBVIOUS
  <2> HIDE DEF new
  <2>3. intents'[i].status = "asked" /\ \A j \in Intents \ {i} : intents'[j] = intents[j]
    BY <2>1, <2>2
  <2> QED BY <2>1, <2>3 DEF Still, Applied, IsPaid
<1>4. ASSUME NEW o \in Orgs, NEW p \in Inviters, ClaimReferral(o, p)
      PROVE  Still
  BY <1>4 DEF ClaimReferral, RowsHeld, TypeOK, Still, Applied, IsPaid
<1>5. ASSUME NEW t \in Transfers, NEW code, NEW amount, Transfer(t, code, amount)
      PROVE  Still
  BY <1>5 DEF Transfer, Still, Applied, IsPaid
<1>6. ASSUME NEW w \in Workers, NEW t \in Transfers, WebhookRecords(w, t)
      PROVE  Still
  <2>1. /\ \A u \in Transfers \ {t} : ledger'[u] = ledger[u]
        /\ ledger[t] # NoRow => ledger'[t] = ledger[t]
        /\ \A u \in Transfers : Applied(u)' <=> Applied(u)
    BY <1>6, WebhookRecordsDoes
  <2>2. UNCHANGED <<sub, audit, work, intents, referredBy>>
    BY <1>6 DEF WebhookRecords
  <2> QED BY <2>1, <2>2 DEF Still, Applied, IsPaid
<1>7. ASSUME NEW w \in Workers, NEW t \in Transfers, WebhookOpens(w, t)
      PROVE  Opened(w)
  <2>1. /\ Open(w, "webhook", t, bank[t].code, intents[bank[t].code].org,
                PurchaseOf(intents[bank[t].code]))
        /\ Quietly
    BY <1>7 DEF WebhookOpens, Quietly
  <2> QED BY <2>1, OpensOpened DEF RowsHeld
<1>8. ASSUME NEW w \in Workers, NEW t \in Transfers, NEW input \in AdminOrders,
             AdminOpens(w, t, input)
      PROVE  Opened(w)
  <2>1. /\ Open(w, "admin", t, NoIntent, input.org,
                [kind |-> "plan", plan |-> input.plan, months |-> input.months,
                 extraStaff |-> input.extraStaff])
        /\ Quietly
    BY <1>8 DEF AdminOpens, Quietly
  <2> QED BY <2>1, OpensOpened DEF RowsHeld
<1>9. ASSUME NEW w \in Workers, AlreadyApplied(w) \/ Fail(w) \/ BreakDeadlock(w)
      PROVE  Closed(w)
  BY <1>9 DEF AlreadyApplied, Fail, BreakDeadlock, RollBack, Closed, Quietly, RowsHeld, TypeOK, Busy
<1>10. ASSUME NEW d \in Moments, Tick(d)
       PROVE  Still
  BY <1>10 DEF Tick, Still, Applied, IsPaid
<1>11. ASSUME NEW t \in Transfers, Deliver(t)
       PROVE  Still \/ \E w \in Workers : Opened(w)
  <2>1. ASSUME WebhookSkips(t) PROVE Still
    BY <2>1 DEF WebhookSkips, Still, Applied, IsPaid
  <2> QED BY <1>6, <1>7, <1>11, <2>1 DEF Deliver
<1>12. ASSUME NEW w \in Workers, Step(w) \/ Fail(w) \/ BreakDeadlock(w)
       PROVE  Closed(w) \/ Extends(w) \/ Commit(w)
  BY <1>9, <1>12 DEF Step, Extends
<1> QED
  BY <1>1, <1>2, <1>3, <1>4, <1>5, <1>8, <1>10, <1>11, <1>12 DEF Next

(* Who invited the organisation is not forgotten while its transaction is  *)
(* open, and the trail is of the one or the two it rewards.                *)
LEMMA TrailStep ==
  ASSUME RowsHeld, RowsHeld', TrailsHeld, [Next]_vars
  PROVE  TrailsHeld'
<1> SUFFICES ASSUME NEW v \in Workers, Busy(v)'
             PROVE  TrailRight(v)'
  BY DEF TrailsHeld
<1>0. ASSUME Busy(v), work'[v] = work[v],
             \A o \in Orgs : referredBy[o] # Nobody => referredBy'[o] = referredBy[o]
      PROVE  TrailRight(v)'
  <2>1. /\ work[v].org \in Orgs /\ TrailRight(v) /\ TxFinds(v) /\ Nobody \notin Orgs
    BY <1>0, TxTyped, BillingAssumption DEF RowsHeld, TrailsHeld
  <2> QED BY <1>0, <2>1 DEF TrailRight
<1>1. CASE Still
  BY <1>0, <1>1 DEF Still, Busy
<1>2. ASSUME NEW w \in Workers, Opened(w)
      PROVE  TrailRight(v)'
  <2>1. CASE v = w
    <3>1. work'[v].trail = <<>> /\ work'[v].step = "ledger" /\ \A o \in Orgs : work'[v].subs[o] = NoSub
      BY <1>2, <2>1 DEF Opened
    <3> QED BY <3>1 DEF TrailRight
  <2> QED BY <1>0, <1>2, <2>1 DEF Opened, Quietly, Busy
<1>3. ASSUME NEW w \in Workers, Closed(w)
      PROVE  TrailRight(v)'
  BY <1>0, <1>3 DEF Closed, Quietly, Busy
<1>4. ASSUME NEW w \in Workers, Extends(w)
      PROVE  TrailRight(v)'
  BY <1>0, <1>4, TrailExtends DEF Extends, Busy
<1>5. ASSUME NEW w \in Workers, Commit(w)
      PROVE  TrailRight(v)'
  BY <1>0, <1>5, CommitDoes DEF AfterCommit, Busy
<1> QED BY <1>1, <1>2, <1>3, <1>4, <1>5, StepKinds

LEMMA TrailsAreRight == Spec => []TrailsHeld
<1>1. Init => TrailsHeld
  BY DEF Init, TrailsHeld, Busy
<1>2. RowsHeld /\ RowsHeld' /\ TrailsHeld /\ [Next]_vars => TrailsHeld'
  BY TrailStep
<1> QED BY <1>1, <1>2, RowsAreHeld, PTL DEF Spec

-----------------------------------------------------------------------------
(* What counts once.                                                       *)

(* `whole` is `log` with `more` after it.                                  *)
Joins(log, more, whole) ==
  /\ Len(log) \in Nat /\ Len(more) \in Nat /\ Len(whole) = Len(log) + Len(more)
  /\ DOMAIN log = 1..Len(log) /\ DOMAIN more = 1..Len(more) /\ DOMAIN whole = 1..Len(whole)
  /\ \A k \in 1..Len(log) : whole[k] = log[k]
  /\ \A k \in 1..Len(more) : whole[Len(log) + k] = more[k]

LEMMA Joined ==
  ASSUME NEW log \in Seq(Entry), NEW more \in Seq(Entry)
  PROVE  Joins(log, more, log \o more)
BY DEF Joins

PaidBy(i) == {t \in Transfers : Applied(t) /\ ledger[t].source = "webhook" /\ ledger[t].intent = i}

CountedOnce(t) == IF Applied(t) THEN \E k : Payments(t) = {k} ELSE Payments(t) = {}
PaysOnce(i) == IF IsPaid(i) THEN \E t : PaidBy(i) = {t} ELSE PaidBy(i) = {}

(* The rows of the trail that open a plan name the ledger's organisation.   *)
RowsPaid ==
  \A k \in DOMAIN audit : audit[k].action # "bonus" =>
    /\ audit[k].transfer \in Transfers /\ Applied(audit[k].transfer)
    /\ ledger[audit[k].transfer].org = audit[k].org

CountsRight ==
  /\ \A t \in Transfers : CountedOnce(t)
  /\ \A i \in Intents : PaysOnce(i)
  /\ RowsPaid

(* What a commit adds to the trail and to the ledger.                      *)
Committed(w) ==
  LET x == work[w]
      n == Len(audit)
  IN  /\ AfterCommit(w) /\ TxShape(x) /\ TxFinds(w) /\ TrailRight(w)
      /\ Joins(audit, x.trail, audit')
      /\ \A t \in Transfers : t = x.transfer => ~Applied(t) /\ Applied(t)'
      /\ \A t \in Transfers \ {x.transfer} : (Applied(t)' <=> Applied(t)) /\ ledger'[t] = ledger[t]
      /\ Len(x.trail) \in 1..3
      /\ audit'[n + 1].transfer = x.transfer /\ audit'[n + 1].action # "bonus"
      /\ audit'[n + 1].org = x.org
      /\ \A k \in 1..n : k \in DOMAIN audit /\ audit'[k] = audit[k]
      /\ \A k \in DOMAIN audit' : k \in 1..n \/ k = n + 1 \/ (k > n + 1 /\ audit'[k].action = "bonus")
      /\ n + 1 \in DOMAIN audit' /\ DOMAIN audit \subseteq DOMAIN audit' /\ DOMAIN audit = 1..n /\ n \in Nat

LEMMA CommitCounts ==
  ASSUME RowsHeld, TrailsHeld, NEW w \in Workers, Commit(w)
  PROVE  Committed(w)
<1> DEFINE x == work[w]
           n == Len(audit)
<1>1. AfterCommit(w) /\ TxShape(x) /\ TxFinds(w) /\ TrailRight(w) /\ x.ledger # NoRow
  BY CommitDoes, AbsenceAssumption DEF AfterCommit, RowsHeld, TrailsHeld
<1>2. Joins(audit, x.trail, audit')
  BY <1>1, Joined DEF AfterCommit
<1>3. /\ \A t \in Transfers : t = x.transfer => ~Applied(t) /\ Applied(t)'
      /\ \A t \in Transfers \ {x.transfer} : (Applied(t)' <=> Applied(t)) /\ ledger'[t] = ledger[t]
  BY <1>1 DEF AfterCommit, TxShape, TxFinds, Applied
<1>4. Len(x.trail) \in 1..3
  BY <1>1 DEF AfterCommit, TrailRight
<1>5. \A k \in 1..Len(x.trail) : x.trail[k].action = "bonus" \/ k = 1
  BY <1>1, <1>4 DEF TrailRight
<1>6. /\ x.trail[1].transfer = x.transfer /\ x.trail[1].action # "bonus" /\ x.trail[1].org = x.org
  BY <1>1, <1>4 DEF TrailRight
<1>7. audit'[n + 1] = x.trail[1] /\ n \in Nat /\ DOMAIN audit = 1..n /\ DOMAIN audit' = 1..(n + Len(x.trail))
  BY <1>2, <1>4 DEF Joins
<1>8. \A k \in DOMAIN audit' : k \in 1..n \/ k = n + 1 \/ (k > n + 1 /\ audit'[k].action = "bonus")
  <2> SUFFICES ASSUME NEW k \in DOMAIN audit', k > n + 1
               PROVE  audit'[k].action = "bonus"
    BY <1>7
  <2>1. k - n \in 1..Len(x.trail) /\ k - n # 1 /\ n + (k - n) = k
    BY <1>4, <1>7
  <2>2. audit'[n + (k - n)] = x.trail[k - n]
    BY <1>2, <2>1 DEF Joins
  <2> QED BY <1>5, <2>1, <2>2
<1>9. \A k \in 1..n : k \in DOMAIN audit /\ audit'[k] = audit[k]
  BY <1>2 DEF Joins
<1> QED BY <1>1, <1>2, <1>3, <1>4, <1>6, <1>7, <1>8, <1>9 DEF Committed

LEMMA CountStep ==
  ASSUME RowsHeld, TrailsHeld, CountsRight, [Next]_vars
  PROVE  CountsRight'
<1>1. ASSUME UNCHANGED audit,
             \A t \in Transfers : (Applied(t)' <=> Applied(t)) /\ (Applied(t) => ledger'[t] = ledger[t]),
             \A i \in Intents : IsPaid(i)' <=> IsPaid(i)
      PROVE  CountsRight'
  <2>1. \A t \in Transfers : Payments(t)' = Payments(t)
    BY <1>1 DEF Payments
  <2>2. \A i \in Intents : PaidBy(i)' = PaidBy(i)
    BY <1>1 DEF PaidBy
  <2>3. RowsPaid'
    BY <1>1 DEF CountsRight, RowsPaid
  <2>4. \A t \in Transfers : CountedOnce(t)'
    BY <1>1, <2>1 DEF CountsRight, CountedOnce
  <2>5. \A i \in Intents : PaysOnce(i)'
    BY <1>1, <2>2 DEF CountsRight, PaysOnce
  <2> QED BY <2>3, <2>4, <2>5 DEF CountsRight
<1>2. CASE Still
  BY <1>1, <1>2 DEF Still
<1>3. ASSUME Quietly
      PROVE  CountsRight'
  BY <1>1, <1>3 DEF Quietly, Applied, IsPaid
<1>4. ASSUME NEW w \in Workers, Extends(w)
      PROVE  CountsRight'
  BY <1>3, <1>4 DEF Extends, WriteLedger, ExtendSub, RewardReferral, RewardInviter, Quietly
<1>5. ASSUME NEW w \in Workers, Commit(w)
      PROVE  CountsRight'
  <2> DEFINE x == work[w]
             n == Len(audit)
  <2>1. Committed(w)
    BY <1>5, CommitCounts
  <2>2. /\ x.transfer \in Transfers /\ ledger'[x.transfer] = x.ledger /\ x.ledger.org = x.org
        /\ x.ledger.source = x.source
        /\ x.source = "webhook" => x.ledger.intent = x.intent
    BY <2>1, AbsenceAssumption DEF Committed, AfterCommit, TxShape
  <2>3. ASSUME NEW t \in Transfers PROVE CountedOnce(t)'
    <3>1. CASE t = x.transfer
      <4>1. Payments(t) = {} /\ Applied(t)'
        BY <2>1, <3>1 DEF Committed, CountsRight, CountedOnce
      <4>2. Payments(t)' = {n + 1}
        BY <2>1, <3>1, <4>1 DEF Payments, Committed
      <4> QED BY <4>1, <4>2 DEF CountedOnce
    <3>2. CASE t # x.transfer
      <4>1. Payments(t)' = Payments(t)
        BY <2>1, <3>2 DEF Payments, Committed
      <4> QED BY <2>1, <3>2, <4>1 DEF CountedOnce, CountsRight, Committed
    <3> QED BY <3>1, <3>2
  <2>4. ASSUME NEW i \in Intents PROVE PaysOnce(i)'
    <3>1. CASE x.source = "webhook" /\ i = x.intent
      <4>1. IsPaid(i)' /\ ~IsPaid(i)
        BY <2>1, <3>1 DEF Committed, AfterCommit, IsPaid, TxFinds
      <4>2. PaidBy(i) = {}
        BY <4>1 DEF CountsRight, PaysOnce
      <4>3. PaidBy(i)' = {x.transfer}
        <5>1. \A t \in Transfers \ {x.transfer} : t \notin PaidBy(i)'
          BY <2>1, <4>2 DEF PaidBy, Committed
        <5>2. ASSUME NEW t, t = x.transfer PROVE t \in PaidBy(i)'
          <6>1. t \in Transfers /\ Applied(t)'
            BY <2>1, <2>2, <5>2 DEF Committed
          <6>2. ledger'[t].source = "webhook" /\ ledger'[t].intent = i
            BY <2>2, <3>1, <5>2
          <6> QED BY <6>1, <6>2 DEF PaidBy
        <5>3. PaidBy(i)' \subseteq Transfers
          BY DEF PaidBy
        <5> QED BY <5>1, <5>2, <5>3
      <4> QED BY <4>1, <4>3 DEF PaysOnce
    <3>2. CASE ~(x.source = "webhook" /\ i = x.intent)
      <4>1. IsPaid(i)' <=> IsPaid(i)
        BY <2>1, <3>2 DEF Committed, AfterCommit, IsPaid
      <4>2. ASSUME NEW t, t = x.transfer PROVE t \notin PaidBy(i)' /\ t \notin PaidBy(i)
        <5>1. t \in Transfers /\ ~Applied(t)
          BY <2>1, <2>2, <4>2 DEF Committed
        <5>2. ~(ledger'[t].source = "webhook" /\ ledger'[t].intent = i)
          BY <2>2, <3>2, <4>2
        <5> QED BY <5>1, <5>2 DEF PaidBy
      <4>3. \A t \in Transfers \ {x.transfer} : t \in PaidBy(i)' <=> t \in PaidBy(i)
        BY <2>1 DEF PaidBy, Committed
      <4>4. PaidBy(i)' \subseteq Transfers /\ PaidBy(i) \subseteq Transfers
        BY DEF PaidBy
      <4>5. PaidBy(i)' = PaidBy(i)
        BY <4>2, <4>3, <4>4
      <4> QED BY <4>1, <4>5 DEF PaysOnce, CountsRight
    <3> QED BY <3>1, <3>2
  <2>5. RowsPaid'
    <3>1. ASSUME NEW k \in DOMAIN audit', NEW t, t = audit'[k].transfer, audit'[k].action # "bonus"
          PROVE  t \in Transfers /\ Applied(t)' /\ ledger'[t].org = audit'[k].org
      <4>1. CASE k = n + 1
        BY <2>1, <2>2, <3>1, <4>1 DEF Committed
      <4>2. CASE k # n + 1
        <5>1. k \in DOMAIN audit /\ audit'[k] = audit[k]
          BY <2>1, <3>1, <4>2 DEF Committed
        <5>2. t \in Transfers /\ Applied(t) /\ ledger[t].org = audit[k].org
          BY <3>1, <5>1 DEF CountsRight, RowsPaid
        <5>3. t # x.transfer
          BY <2>1, <5>2 DEF Committed
        <5> QED BY <2>1, <5>1, <5>2, <5>3 DEF Committed
      <4> QED BY <4>1, <4>2
    <3> QED BY <3>1, Zenon DEF RowsPaid, Applied
  <2> QED BY <2>3, <2>4, <2>5 DEF CountsRight
<1> QED BY <1>2, <1>3, <1>4, <1>5, StepKinds DEF Opened, Closed

LEMMA InitCounts ==
  ASSUME Init
  PROVE  CountsRight
<1>1. /\ audit = <<>> /\ \A t \in Transfers : ~Applied(t)
      /\ \A i \in Intents : ~IsPaid(i)
  BY BillingAssumption DEF Init, Applied, IsPaid
<1>2. DOMAIN audit = {}
  BY <1>1
<1> QED BY <1>1, <1>2 DEF CountsRight, CountedOnce, PaysOnce, RowsPaid, Payments, PaidBy

LEMMA CountsAreRight == Spec => []CountsRight
<1>1. RowsHeld /\ TrailsHeld /\ CountsRight /\ [Next]_vars => CountsRight'
  BY CountStep
<1> QED BY <1>1, InitCounts, RowsAreHeld, TrailsAreRight, PTL DEF Spec

(* Neither a transfer nor an intent counts twice, however many transfers   *)
(* arrive under one code, however often the bank repeats them, and         *)
(* whichever the administrator opens by hand in the meantime.              *)
THEOREM NothingIsCountedTwice == Spec => []NothingCountsTwice
<1>1. CountsRight => NothingCountsTwice
  <2> SUFFICES ASSUME CountsRight PROVE TransferCountsOnce /\ IntentPaysOnce
    BY DEF NothingCountsTwice
  <2>1. ASSUME NEW t \in Transfers
        PROVE  Cardinality(Payments(t)) = IF Applied(t) THEN 1 ELSE 0
    BY FS_Singleton, FS_EmptySet DEF CountsRight, CountedOnce
  <2>2. ASSUME NEW i \in Intents
        PROVE  Cardinality(PaidBy(i)) = IF IsPaid(i) THEN 1 ELSE 0
    BY FS_Singleton, FS_EmptySet DEF CountsRight, PaysOnce
  <2> QED BY <2>1, <2>2 DEF TransferCountsOnce, IntentPaysOnce, PaidBy, IsPaid
<1> QED BY <1>1, CountsAreRight, PTL

(* What the webhook works on was sent, under the code of its intent; what  *)
(* has a row or an answer was sent.                                        *)
SentFirst ==
  /\ \A w \in Workers : Busy(w) =>
       /\ bank[work[w].transfer] # NotSent
       /\ work[w].source = "webhook" => bank[work[w].transfer].code = work[w].intent
  /\ \A t \in Transfers : t \in acked \/ ledger[t] # NoRow => bank[t] # NotSent

(* Only these steps answer a transfer or write a row.                      *)
LEMMA OnlyTheseAnswer ==
  ASSUME [Next]_vars
  PROVE  \/ UNCHANGED <<acked, ledger>>
         \/ \E t \in Transfers : WebhookSkips(t)
         \/ \E w \in Workers, t \in Transfers : WebhookRecords(w, t)
         \/ \E w \in Workers : AlreadyApplied(w) \/ Commit(w)
BY DEF Next, vars, Quote, CreateIntent, ClaimReferral, Transfer, Deliver, WebhookOpens, AdminOpens,
       Open, Step, WriteLedger, ExtendSub, Writes, RewardReferral, RewardInviter, Fail, BreakDeadlock,
       RollBack, Tick

(* A transfer is sent once, and stays as it was sent.                      *)
LEMMA SentStays ==
  ASSUME RowsHeld, [Next]_vars, NEW t \in Transfers, bank[t] # NotSent
  PROVE  bank'[t] = bank[t]
<1>1. bank \in [Transfers -> Sent \cup {NotSent}]
  BY DEF RowsHeld, TypeOK
<1>2. ASSUME NEW u \in Transfers, NEW code, NEW amount, Transfer(u, code, amount)
      PROVE  bank'[t] = bank[t]
  BY <1>1, <1>2 DEF Transfer
<1>3. CASE bank' = bank
  BY <1>3
<1> USE <1>3
<1> QED
  BY <1>2
  DEF Next, vars, Quote, CreateIntent, ClaimReferral, Deliver, WebhookOpens, WebhookRecords,
      WebhookSkips, AdminOpens, Step, AlreadyApplied, WriteLedger, ExtendSub, RewardReferral,
      RewardInviter, Commit, Fail, BreakDeadlock, RollBack, Tick

(* A transaction that goes on does so for its transfer and its intent.     *)
SameTransfer(w) ==
  /\ work'[w].transfer = work[w].transfer /\ work'[w].intent = work[w].intent
  /\ work'[w].source = work[w].source

LEMMA WritesKeepTransfer ==
  ASSUME TypeOK, NEW v \in Workers, Busy(v), NEW o, NEW new, NEW action, NEW months, NEW step,
         Writes(v, o, new, action, months, step)
  PROVE  SameTransfer(v) /\ \A w \in Workers \ {v} : work'[w] = work[w]
<1> DEFINE subs == [work[v].subs EXCEPT ![o] = new]
           trail == Append(work[v].trail, AuditRow(work[v], o, action, months, new))
<1>1. work[v] \in Tx /\ work \in [Workers -> Tx \cup {NoTx}]
  BY TxTyped DEF TypeOK
<1>2. work' = [work EXCEPT ![v] = [work[v] EXCEPT !.subs = subs, !.step = step, !.trail = trail]]
  BY <1>1 DEF Writes, Tx
<1> HIDE DEF subs, trail
<1> QED BY <1>1, <1>2 DEF Tx, SameTransfer

LEMMA StepKeepsTransfer ==
  ASSUME TypeOK, NEW v \in Workers,
         WriteLedger(v) \/ ExtendSub(v) \/ RewardReferral(v) \/ RewardInviter(v)
  PROVE  Busy(v) /\ SameTransfer(v) /\ \A w \in Workers \ {v} : work'[w] = work[w]
<1>1. Busy(v) /\ work[v] \in Tx /\ work \in [Workers -> Tx \cup {NoTx}]
  BY TxTyped DEF WriteLedger, ExtendSub, RewardReferral, RewardInviter, Busy, TypeOK
<1>2. CASE WriteLedger(v)
  <2> DEFINE row == AppliedRow(work[v])
  <2>1. work' = [work EXCEPT ![v] = [work[v] EXCEPT !.step = "extend", !.ledger = row]]
    BY <1>1, <1>2 DEF WriteLedger
  <2> HIDE DEF row
  <2> QED BY <1>1, <2>1 DEF Tx, SameTransfer
<1>3. CASE \E o, new, action, months, step : Writes(v, o, new, action, months, step)
  BY <1>1, <1>3, WritesKeepTransfer
<1>4. CASE work' = [work EXCEPT ![v].step = "commit"]
  <2>1. work' = [work EXCEPT ![v] = [work[v] EXCEPT !.step = "commit"]]
    BY <1>1, <1>4
  <2> QED BY <1>1, <2>1 DEF Tx, SameTransfer
<1>5. CASE ExtendSub(v)
  <2> SUFFICES \E o, new, action, months, step : Writes(v, o, new, action, months, step)
    BY <1>3
  <2> QED BY <1>5 DEF ExtendSub
<1>6. CASE RewardReferral(v)
  BY <1>3, <1>4, <1>6 DEF RewardReferral
<1>7. CASE RewardInviter(v)
  BY <1>3, <1>7 DEF RewardInviter
<1> QED BY <1>2, <1>5, <1>6, <1>7

LEMMA SentStep ==
  ASSUME RowsHeld, RowsHeld', SentFirst, [Next]_vars
  PROVE  SentFirst'
<1>1. ASSUME NEW w \in Workers, Busy(w)'
      PROVE  /\ bank'[work'[w].transfer] # NotSent
             /\ work'[w].source = "webhook" => bank'[work'[w].transfer].code = work'[w].intent
  <2>1. CASE Busy(w) /\ work'[w].transfer = work[w].transfer /\ work'[w].intent = work[w].intent
             /\ work'[w].source = work[w].source
    <3>1. work[w].transfer \in Transfers
      BY <2>1, TxTyped DEF RowsHeld
    <3> QED BY <2>1, <3>1, SentStays DEF SentFirst
  <2>3. \/ Busy(w) /\ work'[w].transfer = work[w].transfer /\ work'[w].intent = work[w].intent
            /\ work'[w].source = work[w].source
        \/ \E t \in Transfers : bank[t] # NotSent /\ work'[w].transfer = t
                                 /\ (work'[w].source = "webhook" => bank[t].code = work'[w].intent)
    <3>0. work \in [Workers -> Tx \cup {NoTx}]
      BY DEF RowsHeld, TypeOK
    <3>1. CASE work'[w] = work[w]
      BY <1>1, <3>1 DEF Busy
    <3>2. ASSUME NEW v \in Workers, NEW t \in Transfers, WebhookOpens(v, t)
          PROVE  \/ work'[w] = work[w]
                 \/ /\ bank[t] # NotSent /\ work'[w].transfer = t
                    /\ work'[w].intent = bank[t].code
      BY <3>0, <3>2 DEF WebhookOpens, Open
    <3>3. ASSUME NEW v \in Workers, NEW t \in Transfers, NEW input \in AdminOrders,
                 AdminOpens(v, t, input)
          PROVE  \/ work'[w] = work[w]
                 \/ /\ bank[t] # NotSent /\ work'[w].transfer = t
                    /\ work'[w].source = "admin"
      BY <3>0, <3>3 DEF AdminOpens, Open
    <3>4. ASSUME NEW v \in Workers, Step(v) \/ Fail(v) \/ BreakDeadlock(v)
          PROVE  \/ work'[w] = work[w]
                 \/ /\ work'[w].transfer = work[w].transfer /\ work'[w].intent = work[w].intent
                    /\ work'[w].source = work[w].source /\ Busy(w)
      <4>1. CASE WriteLedger(v) \/ ExtendSub(v) \/ RewardReferral(v) \/ RewardInviter(v)
        BY <4>1, StepKeepsTransfer DEF SameTransfer, RowsHeld
      <4>2. CASE AlreadyApplied(v) \/ Commit(v) \/ Fail(v) \/ BreakDeadlock(v)
        BY <1>1, <3>0, <4>2 DEF AlreadyApplied, Commit, Fail, BreakDeadlock, RollBack, Busy
      <4> QED BY <3>4, <4>1, <4>2 DEF Step
    <3>5. CASE work' = work
      BY <3>1, <3>5
    <3> QED
      BY <3>1, <3>2, <3>3, <3>4, <3>5
      DEF Next, vars, Quote, CreateIntent, ClaimReferral, Transfer, Deliver, WebhookRecords,
          WebhookSkips, Tick
  <2>4. ASSUME NEW t \in Transfers, bank[t] # NotSent, work'[w].transfer = t,
               work'[w].source = "webhook" => bank[t].code = work'[w].intent
        PROVE  /\ bank'[work'[w].transfer] # NotSent
               /\ work'[w].source = "webhook" => bank'[work'[w].transfer].code = work'[w].intent
    <3>1. bank'[t] = bank[t]
      BY <2>4, SentStays
    <3> QED BY <2>4, <3>1
  <2> QED BY <2>1, <2>3, <2>4
<1>2. ASSUME NEW t \in Transfers, t \in acked' \/ ledger'[t] # NoRow
      PROVE  bank'[t] # NotSent
  <2>1. CASE bank[t] # NotSent
    BY <2>1, SentStays
  <2>2. CASE bank[t] = NotSent
    <3>1. t \notin acked /\ ledger[t] = NoRow
      BY <2>2 DEF SentFirst
    <3>2. CASE UNCHANGED <<acked, ledger>>
      BY <1>2, <3>1, <3>2
    <3>3. ASSUME NEW u \in Transfers, WebhookSkips(u)
          PROVE  FALSE
      BY <1>2, <2>2, <3>1, <3>3 DEF WebhookSkips
    <3>4. ASSUME NEW w \in Workers, NEW u \in Transfers, WebhookRecords(w, u)
          PROVE  FALSE
      <4>1. bank[u] # NotSent /\ acked' = acked \cup {u} /\ \A x \in Transfers \ {u} : ledger'[x] = ledger[x]
        BY <3>4, WebhookRecordsDoes DEF WebhookRecords
      <4> QED BY <1>2, <2>2, <3>1, <4>1
    <3>5. ASSUME NEW w \in Workers, AlreadyApplied(w)
          PROVE  FALSE
      BY <1>2, <2>2, <3>1, <3>5 DEF AlreadyApplied, SentFirst, Busy
    <3>6. ASSUME NEW w \in Workers, Commit(w)
          PROVE  FALSE
      <4>1. AfterCommit(w) /\ bank[work[w].transfer] # NotSent
        BY <3>6, CommitDoes DEF AfterCommit, SentFirst
      <4>2. acked' \subseteq acked \cup {work[w].transfer}
        BY <3>6 DEF Commit
      <4> QED BY <1>2, <2>2, <3>1, <4>1, <4>2 DEF AfterCommit
    <3> QED BY <3>2, <3>3, <3>4, <3>5, <3>6, OnlyTheseAnswer
  <2> QED BY <2>1, <2>2
<1> QED BY <1>1, <1>2 DEF SentFirst

LEMMA AnswerStep ==
  ASSUME RowsHeld, SentFirst, AnsweredIsRecorded, [Next]_vars
  PROVE  AnsweredIsRecorded'
<1>0. \A t \in Transfers : t \in acked \/ ledger[t] # NoRow => bank'[t] = bank[t]
  BY SentStays DEF SentFirst
<1>a. acked \subseteq Transfers
  BY DEF RowsHeld, TypeOK
<1>1. CASE UNCHANGED <<acked, ledger>>
  BY <1>0, <1>a, <1>1 DEF AnsweredIsRecorded
<1>2. ASSUME NEW t \in Transfers, WebhookSkips(t)
      PROVE  AnsweredIsRecorded'
  BY <1>a, <1>2 DEF WebhookSkips, AnsweredIsRecorded
<1>3. ASSUME NEW w \in Workers, NEW t \in Transfers, WebhookRecords(w, t)
      PROVE  AnsweredIsRecorded'
  <2>1. /\ acked' = acked \cup {t} /\ ledger'[t] # NoRow /\ bank' = bank
        /\ bank[t].code # NoCode
        /\ \A u \in Transfers \ {t} : ledger'[u] = ledger[u]
    BY <1>3, WebhookRecordsDoes DEF WebhookRecords
  <2> QED BY <1>a, <2>1 DEF AnsweredIsRecorded
<1>4. ASSUME NEW w \in Workers, AlreadyApplied(w)
      PROVE  AnsweredIsRecorded'
  BY <1>a, <1>4 DEF AlreadyApplied, AnsweredIsRecorded
<1>5. ASSUME NEW w \in Workers, Commit(w)
      PROVE  AnsweredIsRecorded'
  <2> DEFINE x == work[w]
  <2>1. AfterCommit(w) /\ x.ledger # NoRow /\ bank' = bank
    BY <1>5, CommitDoes, AbsenceAssumption DEF AfterCommit
  <2>2. acked' \subseteq acked \cup {x.transfer}
    BY <1>5 DEF Commit
  <2>3. TxShape(x) /\ x.ledger.source = x.source
    BY <2>1 DEF AfterCommit, RowsHeld, TxShape
  <2>4. bank[x.transfer].code = NoCode => x.ledger.source = "admin"
    <3>1. x.source = "webhook" => bank[x.transfer].code = x.intent /\ x.intent \in Intents
      BY <2>1, <2>3 DEF AfterCommit, SentFirst, TxShape
    <3>2. x.source \in {"webhook", "admin"}
      BY <2>1, TxTyped DEF AfterCommit, RowsHeld
    <3> QED BY <2>3, <3>1, <3>2, AbsenceAssumption
  <2>5. /\ x.transfer \in Transfers /\ ledger'[x.transfer] = x.ledger
        /\ \A t \in Transfers \ {x.transfer} : ledger'[t] = ledger[t]
    BY <2>1 DEF AfterCommit
  <2> HIDE DEF x
  <2>6. ASSUME NEW t \in acked', bank[t].code # NoCode
        PROVE  ledger'[t] # NoRow
    BY <1>a, <2>1, <2>2, <2>5, <2>6 DEF AnsweredIsRecorded
  <2>7. ASSUME NEW t \in Transfers, ledger'[t] # NoRow, bank[t].code = NoCode
        PROVE  ledger'[t].source = "admin"
    BY <2>4, <2>5, <2>7 DEF AnsweredIsRecorded
  <2> QED BY <2>1, <2>6, <2>7 DEF AnsweredIsRecorded
<1> QED BY <1>1, <1>2, <1>3, <1>4, <1>5, OnlyTheseAnswer

(* No transfer with a code is answered and left out of the ledger; one     *)
(* without a code has a row only when the administrator opens a plan with  *)
(* it.                                                                     *)
THEOREM NoCodeIsForgotten == Spec => []AnsweredIsRecorded
<1>1. Init => AnsweredIsRecorded /\ SentFirst
  BY DEF Init, AnsweredIsRecorded, SentFirst, Busy
<1>2. RowsHeld /\ RowsHeld' /\ SentFirst /\ AnsweredIsRecorded /\ [Next]_vars
        => SentFirst' /\ AnsweredIsRecorded'
  BY AnswerStep, SentStep
<1> QED BY <1>1, <1>2, RowsAreHeld, PTL DEF Spec

-----------------------------------------------------------------------------
(* What a transaction that goes on has written.                            *)

SameTx(x, y) ==
  /\ y.org = x.org /\ y.buy = x.buy /\ y.now = x.now /\ y.transfer = x.transfer

WritesNothing(w) ==
  LET x == work[w]
      y == work'[w]
  IN  /\ SameTx(x, y) /\ y.trail = x.trail /\ y.subs = x.subs
      /\ (x.step = "ledger" /\ y.step = "extend")
         \/ (x.step = "reward" /\ ~RewardDue(x) /\ y.step = "commit")

WritesOne(w, o, new, action, months) ==
  LET x == work[w]
      y == work'[w]
      s == IF x.subs[o] = NoSub THEN sub[o] ELSE x.subs[o]
  IN  /\ SameTx(x, y)
      /\ x.trail \in Seq(Entry) /\ AuditRow(x, o, action, months, new) \in Entry
      /\ y.trail = Append(x.trail, AuditRow(x, o, action, months, new))
      /\ y.subs[o] = new /\ \A q \in Orgs \ {o} : y.subs[q] = x.subs[q]
      /\ s \in Sub /\ new # NoSub /\ Builds(s, new, action, months, x.now)
      /\ \/ /\ x.step = "extend" /\ o = x.org /\ x.subs[o] = NoSub /\ action # "bonus"
            /\ months = x.buy.months /\ y.step = "reward" /\ new.rewarded = s.rewarded
         \/ /\ x.step = "reward" /\ o = x.org /\ x.subs[o] # NoSub /\ action = "bonus" /\ months = 1
            /\ RewardDue(x) /\ y.step \in {"inviter", "commit"} /\ new.rewarded
         \/ /\ x.step = "inviter" /\ o = referredBy[x.org] /\ o # x.org /\ x.subs[o] = NoSub
            /\ action = "bonus" /\ months = 1 /\ y.step = "commit" /\ new.rewarded = s.rewarded

GoesOn(w) ==
  /\ Busy(w) /\ Busy(w)' /\ Quietly /\ \A v \in Workers \ {w} : work'[v] = work[v]
  /\ TrailRight(w) /\ work[w].org \in Orgs
  /\ \/ WritesNothing(w)
     \/ \E o \in Orgs, new \in Sub, action \in {"activated", "staff_added", "bonus"}, months \in 0..36 :
          WritesOne(w, o, new, action, months)

LEMMA ExtendsGoesOn ==
  ASSUME RowsHeld, TrailsHeld, NEW w \in Workers, Extends(w)
  PROVE  GoesOn(w)
<1> DEFINE x == work[w]
           y == work'[w]
<1>1. /\ Busy(w) /\ TrailRight(w) /\ x.org \in Orgs /\ Quietly /\ x.trail \in Seq(Entry) /\ x \in Tx
      /\ TxShape(x) /\ TypeOK /\ \A o \in Orgs : Current(x, o) \in Sub
  <2>1. Busy(w) /\ Quietly
    BY DEF Extends, WriteLedger, ExtendSub, RewardReferral, RewardInviter, Busy, Quietly
  <2> QED BY <2>1, TxTyped DEF RowsHeld, TrailsHeld
<1>2. ASSUME NEW o \in Orgs, NEW new \in Sub, NEW action \in {"activated", "staff_added", "bonus"},
             NEW months \in 0..36, NEW step \in {"reward", "inviter", "commit"},
             Writes(w, o, new, action, months, step)
      PROVE  AfterWrites(w, o, new, action, months, step)
  BY <1>1, <1>2, WritesDoes
<1>3. CASE WriteLedger(w)
  BY <1>1, <1>3, WriteLedgerDoes DEF GoesOn, WritesNothing, SameTx, Busy
<1>4. CASE ExtendSub(w)
  <2>1. /\ x.step = "extend"
        /\ \E new \in Sub, action \in {"activated", "staff_added"} :
             /\ Writes(w, x.org, new, action, x.buy.months, "reward")
             /\ new.rewarded = Current(x, x.org).rewarded
             /\ Builds(Current(x, x.org), new, action, x.buy.months, x.now)
    BY <1>4, ExtendSubDoes
  <2>2. PICK new \in Sub, action \in {"activated", "staff_added"} :
             /\ Writes(w, x.org, new, action, x.buy.months, "reward")
             /\ new.rewarded = Current(x, x.org).rewarded
             /\ Builds(Current(x, x.org), new, action, x.buy.months, x.now)
    BY <2>1
  <2>3. x.buy.months \in 0..36 /\ x.subs[x.org] = NoSub
    BY <1>1, <2>1, TxTyped DEF TxShape
  <2>4. AfterWrites(w, x.org, new, action, x.buy.months, "reward")
    BY <1>1, <1>2, <2>2, <2>3
  <2>6. WritesOne(w, x.org, new, action, x.buy.months)
    <3>1. Current(x, x.org) = IF x.subs[x.org] = NoSub THEN sub[x.org] ELSE x.subs[x.org]
      BY DEF Current
    <3>2. /\ SameTx(x, y) /\ AuditRow(x, x.org, action, x.buy.months, new) \in Entry /\ y.step = "reward"
          /\ y.trail = Append(x.trail, AuditRow(x, x.org, action, x.buy.months, new))
          /\ y.subs[x.org] = new /\ \A q \in Orgs \ {x.org} : y.subs[q] = x.subs[q]
          /\ new # NoSub
      BY <2>4, AbsenceAssumption DEF AfterWrites, SameTx
    <3>3. Current(x, x.org) \in Sub /\ action # "bonus"
      BY <1>1
    <3> QED BY <1>1, <2>1, <2>2, <2>3, <3>1, <3>2, <3>3, Zenon DEF WritesOne
  <2>5. Busy(w)' /\ \A v \in Workers \ {w} : work'[v] = work[v]
    BY <2>4 DEF AfterWrites, Busy
  <2> QED BY <1>1, <2>3, <2>5, <2>6 DEF GoesOn
<1>5. CASE RewardReferral(w)
  <2>1. x.step = "reward" /\ x.subs[x.org] # NoSub
    BY <1>1, <1>5, RewardReferralDoes DEF TxShape
  <2>2. CASE ~RewardDue(x)
    <3>1. work' = [work EXCEPT ![w].step = "commit"] /\ work \in [Workers -> Tx \cup {NoTx}]
      BY <1>5, <2>2, RewardReferralDoes DEF RowsHeld, TypeOK
    <3>2. y = [x EXCEPT !.step = "commit"] /\ \A v \in Workers \ {w} : work'[v] = work[v]
      BY <3>1
    <3>3. y \in Tx /\ y.step = "commit" /\ y.trail = x.trail /\ y.subs = x.subs /\ SameTx(x, y)
      BY <1>1, <3>2 DEF Tx, SameTx
    <3>4. Busy(w)'
      BY <3>3, AbsenceAssumption DEF Busy
    <3> QED BY <1>1, <2>1, <2>2, <3>2, <3>3, <3>4 DEF GoesOn, WritesNothing
  <2>3. CASE RewardDue(x)
    <3> DEFINE step == IF referredBy[x.org] \in Orgs THEN "inviter" ELSE "commit"
    <3>1. PICK new \in Sub : /\ Writes(w, x.org, new, "bonus", 1, step) /\ new.rewarded
                             /\ Builds(Current(x, x.org), new, "bonus", 1, x.now)
      BY <1>5, <2>3, RewardReferralDoes
    <3>2. step \in {"inviter", "commit"} /\ 1 \in 0..36
      OBVIOUS
    <3> HIDE DEF step
    <3>5. AfterWrites(w, x.org, new, "bonus", 1, step)
      BY <1>1, <1>2, <3>1, <3>2
    <3>3. WritesOne(w, x.org, new, "bonus", 1)
      <4>1. Current(x, x.org) = IF x.subs[x.org] = NoSub THEN sub[x.org] ELSE x.subs[x.org]
        BY DEF Current
      <4>2. /\ SameTx(x, y) /\ AuditRow(x, x.org, "bonus", 1, new) \in Entry /\ y.step = step
            /\ y.trail = Append(x.trail, AuditRow(x, x.org, "bonus", 1, new))
            /\ y.subs[x.org] = new /\ \A q \in Orgs \ {x.org} : y.subs[q] = x.subs[q]
            /\ new # NoSub
        BY <3>5, AbsenceAssumption DEF AfterWrites, SameTx
      <4>3. Current(x, x.org) \in Sub
        BY <1>1
      <4> QED BY <1>1, <2>1, <2>3, <3>1, <3>2, <4>1, <4>2, <4>3, Zenon DEF WritesOne
    <3>4. Busy(w)' /\ \A v \in Workers \ {w} : work'[v] = work[v]
      BY <3>5 DEF AfterWrites, Busy
    <3> QED BY <1>1, <3>2, <3>3, <3>4 DEF GoesOn
  <2> QED BY <2>2, <2>3
<1>6. CASE RewardInviter(w)
  <2> DEFINE p == referredBy[x.org]
  <2>1. /\ x.step = "inviter" /\ p \in Orgs /\ p # x.org
        /\ \E new \in Sub : /\ Writes(w, p, new, "bonus", 1, "commit")
                            /\ new.rewarded = Current(x, p).rewarded
                            /\ Builds(Current(x, p), new, "bonus", 1, x.now)
    BY <1>6, RewardInviterDoes
  <2>2. x.subs[p] = NoSub
    <3>0. Len(x.trail) = 2
      BY <1>1, <2>1 DEF TrailRight
    <3>1. \A o \in Orgs : x.subs[o] # NoSub => o = x.org
      BY <1>1, <3>0 DEF TrailRight
    <3> HIDE DEF p
    <3> QED BY <2>1, <3>1
  <2> HIDE DEF p
  <2>3. PICK new \in Sub : /\ Writes(w, p, new, "bonus", 1, "commit")
                            /\ new.rewarded = Current(x, p).rewarded
                            /\ Builds(Current(x, p), new, "bonus", 1, x.now)
    BY <2>1
  <2>4. 1 \in 0..36
    OBVIOUS
  <2>7. AfterWrites(w, p, new, "bonus", 1, "commit")
    BY <1>2, <2>1, <2>3, <2>4
  <2>5. WritesOne(w, p, new, "bonus", 1)
    <3>1. Current(x, p) = IF x.subs[p] = NoSub THEN sub[p] ELSE x.subs[p]
      BY DEF Current
    <3>2. /\ SameTx(x, y) /\ AuditRow(x, p, "bonus", 1, new) \in Entry /\ y.step = "commit"
          /\ y.trail = Append(x.trail, AuditRow(x, p, "bonus", 1, new))
          /\ y.subs[p] = new /\ \A q \in Orgs \ {p} : y.subs[q] = x.subs[q]
          /\ new # NoSub
      BY <2>7, AbsenceAssumption DEF AfterWrites, SameTx
    <3>3. Current(x, p) \in Sub /\ p = referredBy[x.org]
      BY <1>1, <2>1 DEF p
    <3> QED BY <1>1, <2>1, <2>2, <2>3, <3>1, <3>2, <3>3, Zenon DEF WritesOne
  <2>6. Busy(w)' /\ \A v \in Workers \ {w} : work'[v] = work[v]
    BY <2>7 DEF AfterWrites, Busy
  <2> QED BY <1>1, <2>1, <2>4, <2>5, <2>6 DEF GoesOn
<1> QED BY <1>3, <1>4, <1>5, <1>6 DEF Extends

-----------------------------------------------------------------------------
(* One organisation's rows build on one another.                           *)

OrgRows(log, o) == {k \in DOMAIN log : log[k].org = o}

Follows(s, e) ==
  s.plan = e.plan \/ e.action # "activated" => s.periodEnd + 28 * e.months <= e.periodEnd

NextRow(log, o, j, k) ==
  /\ j \in OrgRows(log, o) /\ k \in OrgRows(log, o) /\ j < k
  /\ \A i \in OrgRows(log, o) : i <= j \/ k <= i
FirstRow(log, o, k) == k \in OrgRows(log, o) /\ \A i \in OrgRows(log, o) : k <= i
LastRow(log, o, k) == k \in OrgRows(log, o) /\ \A i \in OrgRows(log, o) : i <= k

Ends(log, o, to) ==
  \E k : LastRow(log, o, k) /\ to.periodEnd = log[k].periodEnd /\ to.plan = log[k].plan

(* From the one subscription the rows of `log` lead to the other.          *)
Leads(from, log, to, o) ==
  /\ \A j, k \in OrgRows(log, o) : NextRow(log, o, j, k) => Follows(log[j], log[k])
  /\ \A k \in OrgRows(log, o) : FirstRow(log, o, k) => Follows(from, log[k])
  /\ (OrgRows(log, o) = {} /\ to = from) \/ Ends(log, o, to)

LEMMA JoinedRows ==
  ASSUME NEW log, NEW more, NEW whole, Joins(log, more, whole), NEW o
  PROVE  /\ \A k \in OrgRows(log, o) : k \in Int /\ k <= Len(log) /\ k \in OrgRows(whole, o) /\ whole[k] = log[k]
         /\ \A k \in OrgRows(more, o) : k \in Int /\ k >= 1 /\ Len(log) + k \in OrgRows(whole, o)
                                        /\ whole[Len(log) + k] = more[k]
         /\ \A k \in OrgRows(whole, o) :
              /\ k \in Int
              /\ \/ k <= Len(log) /\ k \in OrgRows(log, o) /\ whole[k] = log[k]
                 \/ k > Len(log) /\ k - Len(log) \in OrgRows(more, o) /\ whole[k] = more[k - Len(log)]
<1>1. /\ Len(log) \in Nat /\ Len(more) \in Nat /\ Len(whole) = Len(log) + Len(more)
      /\ DOMAIN log = 1..Len(log) /\ DOMAIN more = 1..Len(more) /\ DOMAIN whole = 1..Len(whole)
      /\ \A k \in 1..Len(log) : whole[k] = log[k]
      /\ \A k \in 1..Len(more) : whole[Len(log) + k] = more[k]
  BY DEF Joins
<1>2. ASSUME NEW k \in OrgRows(log, o)
      PROVE  k \in Int /\ k <= Len(log) /\ k \in OrgRows(whole, o) /\ whole[k] = log[k]
  BY <1>1 DEF OrgRows
<1>3. ASSUME NEW k \in OrgRows(more, o)
      PROVE  k \in Int /\ k >= 1 /\ Len(log) + k \in OrgRows(whole, o) /\ whole[Len(log) + k] = more[k]
  BY <1>1 DEF OrgRows
<1>4. ASSUME NEW k \in OrgRows(whole, o)
      PROVE  /\ k \in Int
             /\ \/ k <= Len(log) /\ k \in OrgRows(log, o) /\ whole[k] = log[k]
                \/ k > Len(log) /\ k - Len(log) \in OrgRows(more, o) /\ whole[k] = more[k - Len(log)]
  <2>1. k \in 1..Len(whole) /\ whole[k].org = o
    BY <1>1 DEF OrgRows
  <2>2. CASE k <= Len(log)
    BY <1>1, <2>1, <2>2 DEF OrgRows
  <2>3. CASE k > Len(log)
    <3>1. k - Len(log) \in 1..Len(more) /\ Len(log) + (k - Len(log)) = k
      BY <1>1, <2>1, <2>3
    <3>2. whole[k] = more[k - Len(log)]
      BY <1>1, <3>1
    <3> QED BY <1>1, <2>1, <2>3, <3>1, <3>2 DEF OrgRows
  <2> QED BY <1>1, <2>1, <2>2, <2>3
<1> QED BY <1>2, <1>3, <1>4

LEMMA LeadsOn ==
  ASSUME NEW log, NEW more, NEW whole, Joins(log, more, whole), NEW o, NEW from, NEW mid, NEW to,
         Leads(from, log, mid, o), Leads(mid, more, to, o)
  PROVE  Leads(from, whole, to, o)
<1> DEFINE n == Len(log)
           L == OrgRows(log, o)
           M == OrgRows(more, o)
           W == OrgRows(whole, o)
<1>0. n \in Nat
  BY DEF Joins
<1>1. /\ \A k \in L : k \in Int /\ k <= n /\ k \in W /\ whole[k] = log[k]
      /\ \A k \in M : k \in Int /\ k >= 1 /\ n + k \in W /\ whole[n + k] = more[k]
      /\ \A k \in W : /\ k \in Int
                      /\ \/ k <= n /\ k \in L /\ whole[k] = log[k]
                         \/ k > n /\ k - n \in M /\ whole[k] = more[k - n]
  BY JoinedRows
<1>2. /\ \A j, k \in L : NextRow(log, o, j, k) => Follows(log[j], log[k])
      /\ \A k \in L : FirstRow(log, o, k) => Follows(from, log[k])
      /\ (L = {} /\ mid = from) \/ Ends(log, o, mid)
  BY DEF Leads
<1>3. /\ \A j, k \in M : NextRow(more, o, j, k) => Follows(more[j], more[k])
      /\ \A k \in M : FirstRow(more, o, k) => Follows(mid, more[k])
      /\ (M = {} /\ to = mid) \/ Ends(more, o, to)
  BY DEF Leads
<1>4. /\ \A j, k : NextRow(log, o, j, k) <=> j \in L /\ k \in L /\ j < k /\ \A i \in L : i <= j \/ k <= i
      /\ \A j, k : NextRow(more, o, j, k) <=> j \in M /\ k \in M /\ j < k /\ \A i \in M : i <= j \/ k <= i
      /\ \A j, k : NextRow(whole, o, j, k) <=> j \in W /\ k \in W /\ j < k /\ \A i \in W : i <= j \/ k <= i
      /\ \A k : FirstRow(log, o, k) <=> k \in L /\ \A i \in L : k <= i
      /\ \A k : FirstRow(more, o, k) <=> k \in M /\ \A i \in M : k <= i
      /\ \A k : FirstRow(whole, o, k) <=> k \in W /\ \A i \in W : k <= i
      /\ \A k : LastRow(log, o, k) <=> k \in L /\ \A i \in L : i <= k
      /\ \A k : LastRow(more, o, k) <=> k \in M /\ \A i \in M : i <= k
      /\ \A k : LastRow(whole, o, k) <=> k \in W /\ \A i \in W : i <= k
  BY DEF NextRow, FirstRow, LastRow
<1> HIDE DEF L, M, W, n
<1>5. ASSUME NEW k \in M, FirstRow(more, o, k), NEW j \in L, LastRow(log, o, j)
      PROVE  Follows(log[j], more[k])
  <2>1. Ends(log, o, mid)
    BY <1>2, <1>5
  <2>2. PICK l : LastRow(log, o, l) /\ mid.periodEnd = log[l].periodEnd /\ mid.plan = log[l].plan
    BY <2>1 DEF Ends
  <2>3. l = j
    <3>1. l \in L /\ j \in L /\ (\A i \in L : i <= l) /\ (\A i \in L : i <= j)
      BY <1>4, <1>5, <2>2
    <3>2. l \in Int /\ j \in Int
      BY <1>1, <3>1
    <3> QED BY <3>1, <3>2
  <2>4. Follows(mid, more[k])
    BY <1>3, <1>5
  <2> QED BY <2>2, <2>3, <2>4 DEF Follows
<1>6. ASSUME NEW j \in W, NEW k \in W, NextRow(whole, o, j, k)
      PROVE  Follows(whole[j], whole[k])
  <2>0. j < k /\ \A i \in W : i <= j \/ k <= i
    BY <1>4, <1>6
  <2>1. CASE k <= n
    <3>1. j \in L /\ k \in L /\ whole[j] = log[j] /\ whole[k] = log[k]
      BY <1>0, <1>1, <2>0, <2>1
    <3>2. NextRow(log, o, j, k)
      BY <1>1, <1>4, <2>0, <3>1
    <3> QED BY <1>2, <3>1, <3>2
  <2>2. CASE j > n
    <3>1. j - n \in M /\ k - n \in M /\ whole[j] = more[j - n] /\ whole[k] = more[k - n]
          /\ j \in Int /\ k \in Int /\ j - n < k - n
      BY <1>0, <1>1, <2>0, <2>2
    <3>2. \A i \in M : i <= j - n \/ k - n <= i
      <4> SUFFICES ASSUME NEW i \in M PROVE i <= j - n \/ k - n <= i
        OBVIOUS
      <4>1. i \in Int /\ n + i \in W
        BY <1>1
      <4>2. n + i <= j \/ k <= n + i
        BY <2>0, <4>1
      <4> QED BY <1>0, <3>1, <4>1, <4>2
    <3>3. NextRow(more, o, j - n, k - n)
      BY <1>4, <3>1, <3>2
    <3> QED BY <1>3, <3>1, <3>3
  <2>3. CASE j <= n /\ k > n
    <3>1. j \in L /\ k - n \in M /\ whole[j] = log[j] /\ whole[k] = more[k - n] /\ j \in Int /\ k \in Int
      BY <1>0, <1>1, <2>3
    <3>2. LastRow(log, o, j)
      BY <1>0, <1>1, <1>4, <2>0, <2>3, <3>1
    <3>3. FirstRow(more, o, k - n)
      <4> SUFFICES ASSUME NEW i \in M PROVE k - n <= i
        BY <1>4, <3>1
      <4>1. i \in Int /\ i >= 1 /\ n + i \in W
        BY <1>1
      <4>2. n + i <= j \/ k <= n + i
        BY <2>0, <4>1
      <4> QED BY <1>0, <2>3, <3>1, <4>1, <4>2
    <3> QED BY <1>5, <3>1, <3>2, <3>3
  <2> QED BY <1>0, <1>1, <2>1, <2>2, <2>3
<1>7. ASSUME NEW k \in W, FirstRow(whole, o, k)
      PROVE  Follows(from, whole[k])
  <2>0. \A i \in W : k <= i
    BY <1>4, <1>7
  <2>1. CASE k <= n
    <3>1. k \in L /\ whole[k] = log[k] /\ FirstRow(log, o, k)
      BY <1>0, <1>1, <1>4, <2>0, <2>1
    <3> QED BY <1>2, <3>1
  <2>2. CASE k > n
    <3>1. k - n \in M /\ whole[k] = more[k - n] /\ k \in Int
      BY <1>0, <1>1, <2>2
    <3>2. L = {}
      BY <1>0, <1>1, <2>0, <2>2, <3>1
    <3>3. mid = from
      BY <1>2, <1>4, <3>2 DEF Ends
    <3>4. FirstRow(more, o, k - n)
      <4> SUFFICES ASSUME NEW i \in M PROVE k - n <= i
        BY <1>4, <3>1
      <4>1. i \in Int /\ n + i \in W
        BY <1>1
      <4> QED BY <1>0, <2>0, <3>1, <4>1
    <3> QED BY <1>3, <3>1, <3>3, <3>4
  <2> QED BY <1>0, <1>1, <2>1, <2>2
<1>8. (W = {} /\ to = from) \/ Ends(whole, o, to)
  <2>1. CASE Ends(more, o, to)
    <3>1. PICK k : LastRow(more, o, k) /\ to.periodEnd = more[k].periodEnd /\ to.plan = more[k].plan
      BY <2>1 DEF Ends
    <3>2. k \in M /\ n + k \in W /\ whole[n + k] = more[k] /\ k \in Int /\ k >= 1
      BY <1>1, <1>4, <3>1
    <3>3. \A i \in W : i <= n + k
      <4> SUFFICES ASSUME NEW i \in W PROVE i <= n + k
        OBVIOUS
      <4>1. i \in Int /\ (i <= n \/ i - n \in M)
        BY <1>1
      <4>2. i - n \in M => i - n <= k
        BY <1>4, <3>1
      <4> QED BY <1>0, <3>2, <4>1, <4>2
    <3> QED BY <1>4, <3>1, <3>2, <3>3 DEF Ends
  <2>2. CASE M = {} /\ to = mid /\ Ends(log, o, mid)
    <3>1. PICK k : LastRow(log, o, k) /\ mid.periodEnd = log[k].periodEnd /\ mid.plan = log[k].plan
      BY <2>2 DEF Ends
    <3>2. LastRow(whole, o, k) /\ whole[k] = log[k]
      BY <1>1, <1>4, <2>2, <3>1
    <3> QED BY <2>2, <3>1, <3>2 DEF Ends
  <2>3. CASE M = {} /\ to = mid /\ L = {} /\ mid = from
    <3>1. W = {}
      BY <1>1, <2>3
    <3> QED BY <2>3, <3>1
  <2> QED BY <1>2, <1>3, <2>1, <2>2, <2>3
<1> QED BY <1>6, <1>7, <1>8 DEF Leads, L, M, W

LEMMA NoRowsLead ==
  ASSUME NEW log, NEW o, NEW s, OrgRows(log, o) = {}
  PROVE  Leads(s, log, s, o)
BY DEF Leads

LEMMA OneRow ==
  ASSUME NEW e \in Entry, NEW o
  PROVE  /\ e.org # o => OrgRows(<<e>>, o) = {}
         /\ \A s, new : e.org = o /\ Follows(s, e) /\ new.periodEnd = e.periodEnd /\ new.plan = e.plan
                          => Leads(s, <<e>>, new, o)
<1>1. e.org # o => OrgRows(<<e>>, o) = {}
  BY DEF OrgRows
<1>2. ASSUME e.org = o, NEW s, NEW new, Follows(s, e), new.periodEnd = e.periodEnd, new.plan = e.plan
      PROVE  Leads(s, <<e>>, new, o)
  <2>1. OrgRows(<<e>>, o) = {1} /\ <<e>>[1] = e
    BY <1>2 DEF OrgRows
  <2>2. LastRow(<<e>>, o, 1) /\ \A j, k : ~NextRow(<<e>>, o, j, k)
    BY <2>1 DEF LastRow, NextRow
  <2>3. Ends(<<e>>, o, new)
    BY <1>2, <2>1, <2>2 DEF Ends
  <2> QED BY <1>2, <2>1, <2>2, <2>3 DEF Leads
<1> QED BY <1>1, <1>2

LEMMA AppendJoins ==
  ASSUME NEW log \in Seq(Entry), NEW e \in Entry
  PROVE  Joins(log, <<e>>, Append(log, e))
BY DEF Joins

-----------------------------------------------------------------------------
(* No month is lost.                                                       *)

WorkLeads(w, o) ==
  LET x == work[w] IN
    IF x.subs[o] = NoSub THEN OrgRows(x.trail, o) = {}
                         ELSE Leads(sub[o], x.trail, x.subs[o], o)

MonthsHeld ==
  /\ \A o \in Orgs : Leads(StartSub[o], audit, sub[o], o)
  /\ \A w \in Workers : Busy(w) => \A o \in Orgs : WorkLeads(w, o)

(* A commit leaves alone the subscriptions that others hold.               *)
LEMMA CommitSpares ==
  ASSUME RowsHeld, NEW w \in Workers, AfterCommit(w), NEW v \in Workers \ {w}, Busy(v), NEW o \in Orgs
  PROVE  work[v].subs[o] = NoSub \/ sub'[o] = sub[o]
<1>1. Apart(v, w)
  BY DEF RowsHeld, AfterCommit
<1> QED BY <1>1 DEF Apart, AfterCommit

LEMMA WorkLeadsOn ==
  ASSUME MonthsHeld, NEW w \in Workers, GoesOn(w), NEW o \in Orgs
  PROVE  WorkLeads(w, o)'
<1> DEFINE x == work[w]
           y == work'[w]
<1>1. WorkLeads(w, o) /\ sub' = sub
  BY DEF MonthsHeld, GoesOn, Quietly
<1>2. CASE WritesNothing(w)
  BY <1>1, <1>2 DEF WritesNothing, WorkLeads
<1>3. ASSUME NEW q \in Orgs, NEW new \in Sub, NEW action \in {"activated", "staff_added", "bonus"},
             NEW months \in 0..36, WritesOne(w, q, new, action, months)
      PROVE  WorkLeads(w, o)'
  <2> DEFINE s == IF x.subs[q] = NoSub THEN sub[q] ELSE x.subs[q]
             e == AuditRow(x, q, action, months, new)
  <2>1. /\ x.trail \in Seq(Entry) /\ e \in Entry /\ y.trail = Append(x.trail, e)
        /\ y.subs[q] = new /\ \A p \in Orgs \ {q} : y.subs[p] = x.subs[p]
        /\ new # NoSub /\ Builds(s, new, action, months, x.now)
    BY <1>3 DEF WritesOne
  <2>2. /\ e.org = q /\ new.periodEnd = e.periodEnd /\ new.plan = e.plan /\ e.months = months
        /\ e.action = action
    BY DEF AuditRow
  <2>3. Follows(s, e)
    BY <2>1, <2>2 DEF Builds, Grows, Follows
  <2> HIDE DEF e, s
  <2>4. Joins(x.trail, <<e>>, y.trail)
    BY <2>1, AppendJoins
  <2>5. CASE o = q
    <3>1. Leads(sub[q], x.trail, s, q)
      BY <1>1, <2>5, NoRowsLead DEF WorkLeads, s
    <3>2. Leads(s, <<e>>, new, q)
      BY <2>1, <2>2, <2>3, OneRow
    <3>3. Leads(sub[q], y.trail, new, q)
      BY <2>4, <3>1, <3>2, LeadsOn
    <3> QED BY <1>1, <2>1, <2>5, <3>3 DEF WorkLeads
  <2>6. CASE o # q
    <3>1. OrgRows(<<e>>, o) = {} /\ y.subs[o] = x.subs[o]
      BY <2>1, <2>2, <2>6, OneRow
    <3>2. CASE x.subs[o] = NoSub
      <4>1. OrgRows(x.trail, o) = {}
        BY <1>1, <3>2 DEF WorkLeads
      <4>2. OrgRows(y.trail, o) = {}
        BY <2>4, <3>1, <4>1, JoinedRows
      <4> QED BY <3>1, <3>2, <4>2 DEF WorkLeads
    <3>3. CASE x.subs[o] # NoSub
      <4>1. Leads(sub[o], x.trail, x.subs[o], o)
        BY <1>1, <3>3 DEF WorkLeads
      <4>2. Leads(x.subs[o], <<e>>, x.subs[o], o)
        BY <3>1, NoRowsLead
      <4>3. Leads(sub[o], y.trail, y.subs[o], o)
        BY <2>4, <3>1, <4>1, <4>2, LeadsOn
      <4> QED BY <1>1, <3>1, <3>3, <4>3 DEF WorkLeads
    <3> QED BY <3>2, <3>3
  <2> QED BY <2>5, <2>6
<1> QED BY <1>2, <1>3 DEF GoesOn

LEMMA MonthStep ==
  ASSUME RowsHeld, TrailsHeld, MonthsHeld, [Next]_vars
  PROVE  MonthsHeld'
<1>0. ASSUME NEW v \in Workers, Busy(v), work'[v] = work[v], NEW o \in Orgs,
             work[v].subs[o] = NoSub \/ sub'[o] = sub[o]
      PROVE  WorkLeads(v, o)'
  BY <1>0 DEF MonthsHeld, WorkLeads
<1>1. ASSUME UNCHANGED <<sub, audit>>,
             \A v \in Workers : Busy(v)' => (Busy(v) /\ work'[v] = work[v]) \/ \A o \in Orgs : WorkLeads(v, o)'
      PROVE  MonthsHeld'
  <2>1. \A o \in Orgs : Leads(StartSub[o], audit, sub[o], o)'
    BY <1>1 DEF MonthsHeld
  <2>2. \A v \in Workers : Busy(v)' => \A o \in Orgs : WorkLeads(v, o)'
    BY <1>0, <1>1
  <2> QED BY <2>1, <2>2 DEF MonthsHeld
<1>2. CASE Still
  BY <1>1, <1>2 DEF Still, Busy
<1>3. ASSUME NEW w \in Workers, Opened(w) PROVE MonthsHeld'
  <2>1. \A o \in Orgs : OrgRows(work'[w].trail, o) = {}
    BY <1>3 DEF Opened, OrgRows
  <2>2. \A o \in Orgs : WorkLeads(w, o)'
    BY <1>3, <2>1 DEF Opened, WorkLeads
  <2> QED BY <1>1, <1>3, <2>2 DEF Opened, Quietly, Busy
<1>4. ASSUME NEW w \in Workers, Closed(w) PROVE MonthsHeld'
  BY <1>1, <1>4 DEF Closed, Quietly, Busy
<1>5. ASSUME NEW w \in Workers, Extends(w) PROVE MonthsHeld'
  <2>1. GoesOn(w)
    BY <1>5, ExtendsGoesOn
  <2>2. \A o \in Orgs : WorkLeads(w, o)'
    BY <2>1, WorkLeadsOn
  <2> QED BY <1>1, <2>1, <2>2 DEF GoesOn, Quietly, Busy
<1>6. ASSUME NEW w \in Workers, Commit(w) PROVE MonthsHeld'
  <2> DEFINE x == work[w]
  <2>1. AfterCommit(w) /\ Joins(audit, x.trail, audit') /\ Busy(w)
    BY <1>6, CommitCounts DEF Committed, AfterCommit
  <2>2. ASSUME NEW o \in Orgs PROVE Leads(StartSub[o], audit', sub'[o], o)
    <3>1. Leads(StartSub[o], audit, sub[o], o) /\ WorkLeads(w, o)
      BY <2>1 DEF MonthsHeld
    <3>2. sub'[o] = IF x.subs[o] = NoSub THEN sub[o] ELSE x.subs[o]
      BY <2>1 DEF AfterCommit
    <3>3. Leads(sub[o], x.trail, sub'[o], o)
      BY <3>1, <3>2, NoRowsLead DEF WorkLeads
    <3> QED BY <2>1, <3>1, <3>3, LeadsOn
  <2>3. ASSUME NEW v \in Workers, Busy(v)', NEW o \in Orgs PROVE WorkLeads(v, o)'
    <3>1. v # w /\ Busy(v) /\ work'[v] = work[v]
      BY <2>1, <2>3 DEF AfterCommit, Busy
    <3> QED BY <1>0, <2>1, <3>1, CommitSpares
  <2> QED BY <2>2, <2>3 DEF MonthsHeld
<1> QED BY <1>2, <1>3, <1>4, <1>5, <1>6, StepKinds

LEMMA MonthsAreHeld == Spec => []MonthsHeld
<1>1. Init => MonthsHeld
  <2> SUFFICES ASSUME Init PROVE MonthsHeld
    OBVIOUS
  <2>1. \A o \in Orgs : OrgRows(audit, o) = {}
    BY DEF Init, OrgRows
  <2> QED BY <2>1, NoRowsLead DEF Init, MonthsHeld, Busy
<1>2. RowsHeld /\ TrailsHeld /\ MonthsHeld /\ [Next]_vars => MonthsHeld'
  BY MonthStep
<1> QED BY <1>1, <1>2, RowsAreHeld, TrailsAreRight, PTL DEF Spec

(* Every month that the trail names is in the period: payments and rewards *)
(* of one organisation build on one another, on however many connections.  *)
THEOREM NoMonthIsLost == Spec => []NoMonthLost
<1>1. TypeOK /\ MonthsHeld => NoMonthLost
  <2> SUFFICES ASSUME TypeOK, MonthsHeld PROVE NoMonthLost
    OBVIOUS
  <2>1. \A o : RowsOf(o) = OrgRows(audit, o)
    BY DEF RowsOf, OrgRows
  <2>2. ASSUME NEW k \in DOMAIN audit, NEW j \in DOMAIN audit, Previous(j, k),
               audit[j].plan = audit[k].plan \/ audit[k].action # "activated"
        PROVE  audit[j].periodEnd + 28 * audit[k].months <= audit[k].periodEnd
    <3> DEFINE o == audit[k].org
    <3>0. audit \in Seq(Entry) /\ audit[k] \in Entry
      BY DEF TypeOK
    <3>1. o \in Orgs
      BY <3>0 DEF Entry
    <3>2. NextRow(audit, o, j, k)
      BY <2>1, <2>2 DEF Previous, NextRow, OrgRows
    <3>3. Leads(StartSub[o], audit, sub[o], o)
      BY <3>1 DEF MonthsHeld
    <3> HIDE DEF o
    <3>4. Follows(audit[j], audit[k])
      BY <3>2, <3>3 DEF Leads, NextRow
    <3> QED BY <2>2, <3>4 DEF Follows
  <2>3. ASSUME NEW o \in Orgs
        PROVE  \/ RowsOf(o) = {} /\ sub[o] = StartSub[o]
               \/ \E k \in RowsOf(o) : /\ \A j \in RowsOf(o) : j <= k
                                       /\ sub[o].periodEnd = audit[k].periodEnd
    <3>1. Leads(StartSub[o], audit, sub[o], o)
      BY DEF MonthsHeld
    <3> QED BY <2>1, <3>1 DEF Leads, Ends, LastRow
  <2> QED BY <2>2, <2>3 DEF NoMonthLost
<1>2. RowsHeld => TypeOK
  BY DEF RowsHeld
<1> QED BY <1>1, <1>2, RowsAreHeld, MonthsAreHeld, PTL

-----------------------------------------------------------------------------
(* Days paid for keep their worth.                                         *)

(* The months that a transaction has given to an organisation so far.      *)
Given(x, o) ==
  IF o = x.org THEN x.buy.months + (IF Len(x.trail) >= 2 THEN 1 ELSE 0)
               ELSE IF Len(x.trail) = 3 /\ x.trail[3].org = o THEN 1 ELSE 0

LEMMA MonthsAreGiven ==
  ASSUME TypeOK, NEW w \in Workers, Busy(w), TrailRight(w), Len(work[w].trail) >= 1, NEW o \in Orgs
  PROVE  MonthsGiven(work[w], o) = Given(work[w], o)
<1> DEFINE x == work[w]
           n == Len(x.trail)
           B == {k \in DOMAIN x.trail : x.trail[k].org = o /\ x.trail[k].action = "bonus"}
<1>1. /\ n \in 1..3 /\ x.trail \in Seq(Entry) /\ DOMAIN x.trail = 1..n /\ x.org \in Orgs
      /\ x.buy.months \in 0..36
  BY TxTyped DEF TrailRight
<1>8. x.buy.months \in Int
  <2>1. x.buy.months \in 0..36
    BY TxTyped
  <2>2. \A m \in 0..36 : m \in Int
    OBVIOUS
  <2> QED BY <2>1, <2>2, Zenon
<1>2. /\ x.trail[1].action # "bonus"
      /\ n >= 2 => x.trail[2].action = "bonus" /\ x.trail[2].org = x.org
      /\ n >= 3 => x.trail[3].action = "bonus" /\ x.trail[3].org # x.org
  BY <1>1 DEF TrailRight
<1>3. MonthsGiven(x, o) = (IF o = x.org THEN x.buy.months ELSE 0) + Cardinality(B)
  BY DEF MonthsGiven
<1>4. Given(x, o) = IF o = x.org THEN x.buy.months + (IF n >= 2 THEN 1 ELSE 0)
                    ELSE IF n = 3 /\ x.trail[3].org = o THEN 1 ELSE 0
  BY DEF Given
<1>5. B = IF o = x.org THEN (IF n >= 2 THEN {2} ELSE {})
          ELSE IF n = 3 /\ x.trail[3].org = o THEN {3} ELSE {}
  <2>1. B \subseteq 1..n /\ \A k \in 1..n : k \in B <=> x.trail[k].org = o /\ x.trail[k].action = "bonus"
    BY <1>1
  <2> HIDE DEF B, x
  <2>2. CASE n = 1
    BY <1>2, <2>1, <2>2
  <2>3. CASE n = 2
    <3>1. B \subseteq {1, 2} /\ 1 \notin B /\ (2 \in B <=> o = x.org)
      BY <1>2, <2>1, <2>3
    <3>2. B = IF o = x.org THEN {2} ELSE {}
      BY <3>1
    <3> QED BY <2>3, <3>2
  <2>4. CASE n = 3
    <3>1. /\ B \subseteq {1, 2, 3} /\ 1 \notin B /\ (2 \in B <=> o = x.org)
          /\ (3 \in B <=> x.trail[3].org = o)
      BY <1>2, <2>1, <2>4
    <3>2. x.trail[3].org # x.org
      BY <1>2, <2>4
    <3>3. o = x.org => B = {2}
      BY <3>1, <3>2
    <3>4. o # x.org => B = IF x.trail[3].org = o THEN {3} ELSE {}
      BY <3>1
    <3> QED BY <2>4, <3>3, <3>4
  <2> QED BY <1>1, <2>2, <2>3, <2>4
<1> HIDE DEF B, x, n
<1>6. Cardinality({2}) = 1 /\ Cardinality({3}) = 1 /\ Cardinality({}) = 0
  BY FS_Singleton, FS_EmptySet
<1>7. Cardinality(B) = IF o = x.org THEN (IF n >= 2 THEN 1 ELSE 0)
                       ELSE IF n = 3 /\ x.trail[3].org = o THEN 1 ELSE 0
  BY <1>5, <1>6, Zenon
<1>9. MonthsGiven(x, o) = Given(x, o)
  BY <1>3, <1>4, <1>7, <1>8
<1> QED BY <1>9 DEF x

(* What it writes for a trader is worth what was there and the months.     *)
WorkWorth(w, o) ==
  LET x == work[w] IN
    x.subs[o] # NoSub => KeepsWorth(sub[o], x.subs[o], Given(x, o), x.now)

WorthHeld ==
  /\ \A o \in Orgs : OrgType[o] = "trader" => sub[o].plan \in PlanCode
  /\ \A w \in Workers : Busy(w) => \A o \in Orgs : WorkWorth(w, o)

(* Months given in two steps are the months of both.                       *)
LEMMA WorthAdds ==
  ASSUME NEW s \in Sub, NEW mid \in Sub, NEW new \in Sub, NEW a \in Nat, NEW day \in Nat,
         KeepsWorth(s, mid, a, day), KeepsWorth(mid, new, 1, day), new.plan = mid.plan
  PROVE  KeepsWorth(s, new, a + 1, day)
<1> SUFFICES ASSUME s.plan \in PlanCode
             PROVE  /\ new.plan \in PlanCode
                    /\ Worth(s, day) + MonthsWorth(a + 1, new.plan) <= Worth(new, day)
  BY DEF KeepsWorth
<1>1. /\ mid.plan \in PlanCode /\ new.plan \in PlanCode
      /\ Worth(s, day) + MonthsWorth(a, new.plan) <= Worth(mid, day)
      /\ Worth(mid, day) + MonthsWorth(1, new.plan) <= Worth(new, day)
  BY DEF KeepsWorth
<1>2. Worth(s, day) \in Nat /\ Worth(mid, day) \in Nat /\ Worth(new, day) \in Nat
  BY <1>1, PeriodStarts
<1>3. MonthPrice[new.plan] = 199 \/ MonthPrice[new.plan] = 449
  BY <1>1, PlanPrices
<1>4. MonthsWorth(a + 1, new.plan) = MonthsWorth(a, new.plan) + MonthsWorth(1, new.plan)
      /\ MonthsWorth(a, new.plan) \in Nat /\ MonthsWorth(1, new.plan) \in Nat
  BY <1>3 DEF MonthsWorth
<1> QED BY <1>1, <1>2, <1>4

LEMMA WorkWorthOn ==
  ASSUME RowsHeld, WorthHeld, NEW w \in Workers, GoesOn(w), NEW o \in Orgs
  PROVE  WorkWorth(w, o)'
<1> DEFINE x == work[w]
           y == work'[w]
           n == Len(x.trail)
<1>4. x.buy.months \in Nat
  <2>1. x.buy.months \in 0..36
    BY TxTyped DEF GoesOn, RowsHeld
  <2> HIDE DEF x
  <2> QED BY <2>1
<1>1. /\ WorkWorth(w, o) /\ sub' = sub /\ Busy(w) /\ TrailRight(w) /\ x.org \in Orgs
      /\ x.trail \in Seq(Entry) /\ x.now \in Nat /\ x.buy.months \in 0..36 /\ sub[o] \in Sub
      /\ n \in 0..3
  BY TxTyped DEF WorthHeld, GoesOn, Quietly, TrailRight, RowsHeld, TypeOK
<1>2. CASE WritesNothing(w)
  <2>1. y.subs = x.subs /\ y.trail = x.trail /\ y.org = x.org /\ y.buy = x.buy /\ y.now = x.now
    BY <1>2 DEF WritesNothing, SameTx
  <2> QED BY <1>1, <2>1 DEF WorkWorth, Given
<1>3. ASSUME NEW q \in Orgs, NEW new \in Sub, NEW action \in {"activated", "staff_added", "bonus"},
             NEW months \in 0..36, WritesOne(w, q, new, action, months)
      PROVE  WorkWorth(w, o)'
  <2> DEFINE s == IF x.subs[q] = NoSub THEN sub[q] ELSE x.subs[q]
             e == AuditRow(x, q, action, months, new)
  <2>1. /\ e \in Entry /\ y.trail = Append(x.trail, e) /\ SameTx(x, y)
        /\ y.subs[q] = new /\ \A p \in Orgs \ {q} : y.subs[p] = x.subs[p]
        /\ Builds(s, new, action, months, x.now) /\ s \in Sub
        /\ \/ x.step = "extend" /\ q = x.org /\ x.subs[q] = NoSub /\ months = x.buy.months
           \/ x.step = "reward" /\ q = x.org /\ x.subs[q] # NoSub /\ action = "bonus" /\ months = 1
           \/ x.step = "inviter" /\ q # x.org /\ x.subs[q] = NoSub /\ months = 1
    BY <1>3 DEF WritesOne
  <2>2. e.org = q /\ KeepsWorth(s, new, months, x.now) /\ (action = "bonus" => new.plan = s.plan)
    BY <2>1 DEF AuditRow, Builds
  <2> HIDE DEF e, s
  <2>3. /\ Len(y.trail) = n + 1 /\ y.trail[n + 1] = e /\ \A k \in 1..n : y.trail[k] = x.trail[k]
        /\ y.org = x.org /\ y.buy = x.buy /\ y.now = x.now
    BY <1>1, <2>1, Appended DEF SameTx
  <2>4. /\ x.step = "extend" => n = 0
        /\ x.step = "reward" => n = 1
        /\ x.step = "inviter" => n = 2
    <3>1. x.step = "extend" => x.trail = <<>>
      BY <1>1 DEF RowsHeld, TxShape
    <3> QED BY <1>1, <3>1 DEF TrailRight
  <2>5. CASE o # q
    <3>1. y.subs[o] = x.subs[o]
      BY <2>1, <2>5
    <3>2. CASE x.subs[o] # NoSub
      <4>1. KeepsWorth(sub[o], x.subs[o], Given(x, o), x.now)
        BY <1>1, <3>2 DEF WorkWorth
      <4>2. Given(y, o) = Given(x, o)
        <5>1. x.step = "inviter" /\ n = 2 /\ o = x.org
          <6>1. x.step # "extend"
            BY <1>1, <3>2 DEF RowsHeld, TxShape
          <6>2. x.step # "reward"
            BY <1>1, <2>1, <2>4, <2>5, <3>2 DEF TrailRight
          <6>3. x.step = "inviter" /\ n = 2
            BY <2>1, <2>4, <6>1, <6>2
          <6> QED BY <1>1, <3>2, <6>3 DEF TrailRight
        <5> QED BY <2>3, <5>1 DEF Given
      <4> QED BY <1>1, <2>3, <3>1, <4>1, <4>2 DEF WorkWorth
    <3> QED BY <3>1, <3>2 DEF WorkWorth
  <2>6. CASE o = q /\ x.step = "extend"
    <3>0. s = sub[o] /\ months = x.buy.months /\ o = x.org
      BY <2>1, <2>6 DEF s
    <3>1. Given(y, o) = months
      <4>1. Len(y.trail) = 1 /\ y.org = o /\ y.buy.months = months /\ months \in Int
        BY <1>4, <2>3, <2>4, <2>6, <3>0
      <4> QED BY <4>1 DEF Given
    <3> QED BY <1>1, <2>1, <2>2, <2>3, <2>6, <3>0, <3>1 DEF WorkWorth
  <2>7. CASE o = q /\ x.step = "inviter"
    <3>1. s = sub[o] /\ Given(y, o) = 1 /\ months = 1
      BY <1>1, <2>1, <2>2, <2>3, <2>4, <2>7 DEF Given, s
    <3> QED BY <1>1, <2>1, <2>2, <2>3, <2>7, <3>1 DEF WorkWorth
  <2>8. CASE o = q /\ x.step = "reward"
    <3>0. s = x.subs[o] /\ months = 1 /\ o = x.org /\ new.plan = s.plan /\ x.subs[o] # NoSub
      BY <2>1, <2>2, <2>8 DEF s
    <3>1. Given(y, o) = x.buy.months + 1 /\ Given(x, o) = x.buy.months
      <4>1. /\ Len(y.trail) = 2 /\ y.org = o /\ y.buy.months = x.buy.months /\ n = 1
            /\ x.buy.months \in Int /\ x.org = o
        <5>1. n = 1
          BY <2>4, <2>8
        <5> QED BY <1>4, <2>3, <3>0, <5>1
      <4> QED BY <4>1 DEF Given
    <3>2. KeepsWorth(sub[o], s, x.buy.months, x.now)
      BY <1>1, <3>0, <3>1 DEF WorkWorth
    <3>3. KeepsWorth(sub[o], new, x.buy.months + 1, x.now)
      <4>1. x.buy.months \in Nat /\ s \in Sub /\ KeepsWorth(s, new, 1, x.now)
        BY <1>4, <2>1, <2>2, <3>0
      <4> HIDE DEF x
      <4> QED BY <1>1, <3>0, <3>2, <4>1, WorthAdds
    <3> QED BY <1>1, <2>1, <2>3, <2>8, <3>1, <3>3 DEF WorkWorth
  <2> QED BY <2>1, <2>5, <2>6, <2>7, <2>8
<1> QED BY <1>2, <1>3 DEF GoesOn

LEMMA WorthStep ==
  ASSUME RowsHeld, TrailsHeld, WorthHeld, [Next]_vars
  PROVE  WorthHeld'
<1>0. ASSUME NEW v \in Workers, Busy(v), work'[v] = work[v], NEW o \in Orgs,
             work[v].subs[o] = NoSub \/ sub'[o] = sub[o]
      PROVE  WorkWorth(v, o)'
  BY <1>0 DEF WorthHeld, WorkWorth
<1>1. ASSUME UNCHANGED sub,
             \A v \in Workers : Busy(v)' => (Busy(v) /\ work'[v] = work[v]) \/ \A o \in Orgs : WorkWorth(v, o)'
      PROVE  WorthHeld'
  <2>1. \A v \in Workers : Busy(v)' => \A o \in Orgs : WorkWorth(v, o)'
    BY <1>0, <1>1
  <2> QED BY <1>1, <2>1 DEF WorthHeld
<1>2. CASE Still
  BY <1>1, <1>2 DEF Still, Busy
<1>3. ASSUME NEW w \in Workers, Opened(w) PROVE WorthHeld'
  <2>2. \A o \in Orgs : WorkWorth(w, o)'
    BY <1>3 DEF Opened, WorkWorth
  <2> QED BY <1>1, <1>3, <2>2 DEF Opened, Quietly, Busy
<1>4. ASSUME NEW w \in Workers, Closed(w) PROVE WorthHeld'
  BY <1>1, <1>4 DEF Closed, Quietly, Busy
<1>5. ASSUME NEW w \in Workers, Extends(w) PROVE WorthHeld'
  <2>1. GoesOn(w)
    BY <1>5, ExtendsGoesOn
  <2>2. \A o \in Orgs : WorkWorth(w, o)'
    BY <2>1, WorkWorthOn
  <2> QED BY <1>1, <2>1, <2>2 DEF GoesOn, Quietly, Busy
<1>6. ASSUME NEW w \in Workers, Commit(w) PROVE WorthHeld'
  <2> DEFINE x == work[w]
  <2>1. AfterCommit(w) /\ Busy(w)
    BY <1>6, CommitDoes DEF AfterCommit
  <2>2. ASSUME NEW o \in Orgs, OrgType[o] = "trader" PROVE sub'[o].plan \in PlanCode
    BY <2>1, <2>2 DEF WorthHeld, WorkWorth, AfterCommit, KeepsWorth
  <2>3. ASSUME NEW v \in Workers, Busy(v)', NEW o \in Orgs PROVE WorkWorth(v, o)'
    <3>1. v # w /\ Busy(v) /\ work'[v] = work[v]
      BY <2>1, <2>3 DEF AfterCommit, Busy
    <3> QED BY <1>0, <2>1, <3>1, CommitSpares
  <2> QED BY <2>2, <2>3 DEF WorthHeld
<1> QED BY <1>2, <1>3, <1>4, <1>5, <1>6, StepKinds

LEMMA WorthIsHeld == Spec => []WorthHeld
<1>1. Init => WorthHeld
  BY BillingAssumption DEF Init, WorthHeld, Busy, Sub
<1>2. RowsHeld /\ TrailsHeld /\ WorthHeld /\ [Next]_vars => WorthHeld'
  BY WorthStep
<1> QED BY <1>1, <1>2, RowsAreHeld, TrailsAreRight, PTL DEF Spec

(* The days a trader has paid for keep their worth when the plan changes,  *)
(* and every month bought or earned comes on top at the price of the plan. *)
THEOREM PaidDaysAreKept == Spec => PaidDaysKept
<1> DEFINE Kept ==
      \A w \in Workers : Commit(w) =>
        LET x == work[w] IN
          \A o \in Orgs : x.subs[o] # NoSub /\ OrgType[o] = "trader" =>
            Worth(sub[o], x.now) + 28 * MonthsGiven(x, o) * MonthPrice[sub'[o].plan]
              <= Worth(sub'[o], x.now)
<1>1. RowsHeld /\ TrailsHeld /\ WorthHeld /\ [Next]_vars => [Kept]_vars
  <2> SUFFICES ASSUME RowsHeld, TrailsHeld, WorthHeld PROVE Kept
    OBVIOUS
  <2>1. SUFFICES ASSUME NEW w \in Workers, Commit(w), NEW o \in Orgs, work[w].subs[o] # NoSub,
                        OrgType[o] = "trader"
                 PROVE  Worth(sub[o], work[w].now)
                          + 28 * MonthsGiven(work[w], o) * MonthPrice[sub'[o].plan]
                            <= Worth(sub'[o], work[w].now)
    OBVIOUS
  <2>2. /\ Committed(w) /\ AfterCommit(w) /\ Busy(w) /\ TrailRight(w) /\ Len(work[w].trail) >= 1 /\ TypeOK
    BY <2>1, CommitCounts DEF Committed, AfterCommit, RowsHeld
  <2>3. MonthsGiven(work[w], o) = Given(work[w], o)
    BY <2>2, MonthsAreGiven
  <2>4. sub'[o] = work[w].subs[o] /\ sub[o].plan \in PlanCode
    BY <2>1, <2>2 DEF AfterCommit, WorthHeld
  <2>5. KeepsWorth(sub[o], sub'[o], Given(work[w], o), work[w].now)
    BY <2>1, <2>2, <2>4 DEF WorthHeld, WorkWorth
  <2> QED BY <2>3, <2>4, <2>5 DEF KeepsWorth, MonthsWorth
<1>2. [][Kept]_vars => PaidDaysKept
  BY PTL DEF PaidDaysKept
<1> QED BY <1>1, <1>2, RowsAreHeld, TrailsAreRight, WorthIsHeld, PTL DEF Spec

-----------------------------------------------------------------------------
(* The reward of an invitation.                                            *)

NonePaid(t0, o) == \A t \in Transfers \ {t0} : ~(Applied(t) /\ ledger[t].org = o)

(* Rewarded with one row, or with two next to each other, or not at all.   *)
RewardRows(o) ==
  \E k \in Nat :
    /\ audit[k].org = o
    /\ \/ referredBy[o] \notin Orgs /\ BonusRows(o) = {k}
       \/ referredBy[o] \in Orgs /\ BonusRows(o) = {k, k + 1} /\ audit[k + 1].org = referredBy[o]

NonePaidBefore(o) ==
  \A k \in BonusRows(o), j \in DOMAIN audit :
    audit[j].org = o /\ audit[j].action # "bonus" /\ j < k => audit[j].transfer = audit[k].transfer

RewardState(o) ==
  \/ BonusRows(o) = {} /\ (sub[o].rewarded <=> StartSub[o].rewarded)
  \/ /\ ~StartSub[o].rewarded /\ sub[o].rewarded /\ referredBy[o] # Nobody
     /\ RewardRows(o) /\ NonePaidBefore(o)

(* What an open transaction has written of rewards, and why.               *)
RewardedWork(w) ==
  LET x == work[w]
      n == Len(x.trail)
  IN  /\ n = 1 => (x.subs[x.org].rewarded <=> sub[x.org].rewarded)
      /\ n >= 2 => /\ ~sub[x.org].rewarded /\ x.subs[x.org].rewarded
                   /\ NonePaid(x.transfer, x.org)
      /\ \A o \in Orgs \ {x.org} : x.subs[o] # NoSub => (x.subs[o].rewarded <=> sub[o].rewarded)
      /\ x.step = "commit" /\ n = 1 /\ StartInviter[x.org] # Nobody => x.subs[x.org].rewarded

InvitersKept == \A o \in Orgs : StartInviter[o] # Nobody => referredBy[o] # Nobody

RewardsRight ==
  /\ InvitersKept /\ FirstPaymentRewarded
  /\ \A o \in Orgs : RewardState(o)
  /\ \A w \in Workers : Busy(w) => RewardedWork(w)

(* Nothing is paid, and a transaction of others has moved at most.         *)
LEMMA RewardsUntouched ==
  ASSUME RowsHeld, RewardsRight, UNCHANGED <<sub, audit>>,
         \A t \in Transfers : (Applied(t)' <=> Applied(t)) /\ (Applied(t) => ledger'[t] = ledger[t]),
         \A o \in Orgs : referredBy[o] # Nobody => referredBy'[o] = referredBy[o],
         \A v \in Workers : Busy(v)' => (Busy(v) /\ work'[v] = work[v]) \/ RewardedWork(v)'
  PROVE  RewardsRight'
<1>0. Nobody \notin Orgs
  BY BillingAssumption
<1>1. InvitersKept'
  BY DEF RewardsRight, InvitersKept
<1>2. FirstPaymentRewarded'
  BY DEF RewardsRight, FirstPaymentRewarded
<1>3. ASSUME NEW o \in Orgs PROVE RewardState(o)'
  <2>1. RewardState(o) /\ BonusRows(o)' = BonusRows(o)
    BY DEF RewardsRight, BonusRows
  <2>2. NonePaidBefore(o) => NonePaidBefore(o)'
    BY <2>1 DEF NonePaidBefore
  <2>3. referredBy[o] # Nobody /\ RewardRows(o) => RewardRows(o)'
    BY <2>1 DEF RewardRows
  <2> QED BY <2>1, <2>2, <2>3 DEF RewardState
<1>4. ASSUME NEW v \in Workers, Busy(v)' PROVE RewardedWork(v)'
  <2> SUFFICES ASSUME Busy(v), work'[v] = work[v] PROVE RewardedWork(v)'
    BY <1>4
  <2>1. RewardedWork(v)
    BY DEF RewardsRight
  <2>2. ASSUME NEW t0, NEW o, NonePaid(t0, o) PROVE NonePaid(t0, o)'
    BY <2>2 DEF NonePaid
  <2>3. \A t0, o : t0 = work[v].transfer /\ o = work[v].org /\ NonePaid(t0, o) => NonePaid(t0, o)'
    BY <2>2
  <2> QED BY <2>1, <2>3 DEF RewardedWork, NonePaid
<1> QED BY <1>1, <1>2, <1>3, <1>4 DEF RewardsRight

LEMMA RewardedWorkOn ==
  ASSUME RowsHeld, RewardsRight, NEW w \in Workers, GoesOn(w)
  PROVE  RewardedWork(w)'
<1> DEFINE x == work[w]
           y == work'[w]
           n == Len(x.trail)
<1>1. /\ RewardedWork(w) /\ sub' = sub /\ ledger' = ledger /\ Busy(w) /\ TrailRight(w) /\ x.org \in Orgs
      /\ x.trail \in Seq(Entry) /\ TxShape(x) /\ n \in 0..3
  BY TxTyped DEF RewardsRight, GoesOn, Quietly, TrailRight, RowsHeld
<1>2. NonePaid(x.transfer, x.org) <=> PaidBefore(x) = {}
  BY DEF NonePaid, PaidBefore, Applied
<1>3. CASE WritesNothing(w)
  <2>1. /\ y.subs = x.subs /\ y.trail = x.trail /\ y.org = x.org /\ y.transfer = x.transfer
        /\ (x.step = "ledger" /\ y.step = "extend")
             \/ (x.step = "reward" /\ ~RewardDue(x) /\ y.step = "commit")
    BY <1>3 DEF WritesNothing, SameTx
  <2>2. y.step = "commit" /\ n = 1 /\ StartInviter[x.org] # Nobody => x.subs[x.org].rewarded
    <3> SUFFICES ASSUME y.step = "commit", n = 1, StartInviter[x.org] # Nobody
                 PROVE  x.subs[x.org].rewarded
      OBVIOUS
    <3>1. x.step = "reward" /\ ~RewardDue(x) /\ x.subs[x.org] # NoSub
      BY <1>1, <2>1 DEF TxShape
    <3>2. Current(x, x.org) = x.subs[x.org] /\ referredBy[x.org] # Nobody
      BY <1>1, <3>1 DEF Current, RewardsRight, InvitersKept
    <3>3. CASE PaidBefore(x) # {}
      <4>1. \E t \in Transfers : Applied(t) /\ ledger[t].org = x.org
        BY <3>3 DEF PaidBefore, Applied
      <4>2. sub[x.org].rewarded
        BY <1>1, <4>1 DEF RewardsRight, FirstPaymentRewarded
      <4> QED BY <1>1, <4>2 DEF RewardedWork
    <3>4. CASE PaidBefore(x) = {}
      BY <3>1, <3>2, <3>4 DEF RewardDue
    <3> QED BY <3>3, <3>4
  <2> QED BY <1>1, <2>1, <2>2 DEF RewardedWork, NonePaid, Applied
<1>4. ASSUME NEW q \in Orgs, NEW new \in Sub, NEW action \in {"activated", "staff_added", "bonus"},
             NEW months \in 0..36, WritesOne(w, q, new, action, months)
      PROVE  RewardedWork(w)'
  <2> DEFINE s == IF x.subs[q] = NoSub THEN sub[q] ELSE x.subs[q]
             e == AuditRow(x, q, action, months, new)
  <2>1. /\ e \in Entry /\ y.trail = Append(x.trail, e)
        /\ y.org = x.org /\ y.transfer = x.transfer
        /\ y.subs[q] = new /\ \A p \in Orgs \ {q} : y.subs[p] = x.subs[p]
        /\ \/ /\ x.step = "extend" /\ q = x.org /\ x.subs[q] = NoSub /\ y.step = "reward"
              /\ new.rewarded = s.rewarded
           \/ /\ x.step = "reward" /\ q = x.org /\ x.subs[q] # NoSub /\ RewardDue(x) /\ new.rewarded
           \/ /\ x.step = "inviter" /\ q # x.org /\ x.subs[q] = NoSub /\ new.rewarded = s.rewarded
    BY <1>4 DEF WritesOne, SameTx
  <2> HIDE DEF e
  <2>2. Len(y.trail) = n + 1
    BY <1>1, <2>1, Appended
  <2>3. /\ x.step = "extend" => n = 0
        /\ x.step = "reward" => n = 1
        /\ x.step = "inviter" => n = 2
    <3>1. x.step = "extend" => x.trail = <<>>
      BY <1>1 DEF TxShape
    <3> QED BY <1>1, <3>1 DEF TrailRight
  <2>4. CASE x.step = "extend"
    <3>1. n = 0 /\ q = x.org /\ s = sub[q] /\ Len(y.trail) = 1 /\ y.step = "reward"
          /\ y.subs[x.org].rewarded = sub[x.org].rewarded
      BY <2>1, <2>2, <2>3, <2>4
    <3>2. \A o \in Orgs \ {x.org} : y.subs[o] = NoSub
      BY <1>1, <2>1, <2>4, <3>1 DEF TxShape
    <3> QED BY <1>1, <2>1, <3>1, <3>2 DEF RewardedWork
  <2>5. CASE x.step = "reward"
    <3>0. /\ q = x.org /\ y.subs[x.org] = new /\ RewardDue(x) /\ x.subs[x.org] # NoSub
          /\ new.rewarded
      BY <2>1, <2>5
    <3>5. y.subs[x.org].rewarded
      BY <3>0, Zenon
    <3>6. n = 1 /\ Len(y.trail) = 2
      <4>1. n = 1
        BY <2>3, <2>5
      <4> HIDE DEF n, y, x
      <4> QED BY <2>2, <4>1
    <3>1. n = 1 /\ q = x.org /\ Len(y.trail) = 2 /\ y.subs[x.org].rewarded
          /\ RewardDue(x) /\ x.subs[x.org] # NoSub
      BY <3>0, <3>5, <3>6, Zenon
    <3>2. ~x.subs[x.org].rewarded /\ NonePaid(x.transfer, x.org)
      BY <1>2, <3>1 DEF RewardDue, Current
    <3>3. ~sub[x.org].rewarded
      BY <1>1, <3>1, <3>2 DEF RewardedWork
    <3>4. \A o \in Orgs \ {x.org} : y.subs[o] # NoSub => (y.subs[o].rewarded <=> sub[o].rewarded)
      BY <1>1, <2>1, <3>1 DEF RewardedWork
    <3> QED BY <1>1, <2>1, <3>1, <3>2, <3>3, <3>4 DEF RewardedWork, NonePaid, Applied
  <2>6. CASE x.step = "inviter"
    <3>1. n = 2 /\ q # x.org /\ s = sub[q] /\ Len(y.trail) = 3 /\ y.subs[q].rewarded = sub[q].rewarded
          /\ y.subs[x.org] = x.subs[x.org]
      BY <1>1, <2>1, <2>2, <2>3, <2>6
    <3>2. ~sub[x.org].rewarded /\ x.subs[x.org].rewarded /\ NonePaid(x.transfer, x.org)
      BY <1>1, <3>1 DEF RewardedWork
    <3>3. \A o \in Orgs \ {x.org} : y.subs[o] # NoSub => (y.subs[o].rewarded <=> sub[o].rewarded)
      BY <1>1, <2>1, <3>1 DEF RewardedWork
    <3> QED BY <1>1, <2>1, <3>1, <3>2, <3>3 DEF RewardedWork, NonePaid, Applied
  <2> QED BY <2>1, <2>4, <2>5, <2>6
<1> QED BY <1>3, <1>4 DEF GoesOn

LEMMA CommitRewards ==
  ASSUME RowsHeld, CountsRight, RewardsRight, NEW w \in Workers, Committed(w), NEW o \in Orgs
  PROVE  RewardState(o)' /\ (sub[o].rewarded => sub'[o].rewarded)
<1> DEFINE x == work[w]
           N == Len(audit)
           n == Len(x.trail)
           p == referredBy[x.org]
<1>1. /\ AfterCommit(w) /\ TrailRight(w) /\ Joins(audit, x.trail, audit') /\ n \in 1..3 /\ N \in Nat
      /\ RewardedWork(w) /\ RewardState(o) /\ x.org \in Orgs /\ x.subs[x.org] # NoSub
      /\ x.step = "commit" /\ referredBy' = referredBy
      /\ sub'[o] = IF x.subs[o] = NoSub THEN sub[o] ELSE x.subs[o]
      /\ DOMAIN audit = 1..N
  BY DEF Committed, AfterCommit, RewardsRight, RowsHeld, TxShape
<1>2. /\ \A k \in 1..N : audit'[k] = audit[k]
      /\ \A k \in 1..n : audit'[N + k] = x.trail[k]
      /\ DOMAIN audit' = 1..(N + n)
  BY <1>1 DEF Joins
<1>3. /\ x.trail[1].action # "bonus" /\ x.trail[1].org = x.org
      /\ n >= 2 => x.trail[2].action = "bonus" /\ x.trail[2].org = x.org /\ p # Nobody
      /\ n >= 3 => x.trail[3].action = "bonus" /\ x.trail[3].org = p /\ p # x.org
      /\ \A k \in 1..n : x.trail[k].transfer = x.transfer /\ x.trail[k].referred = x.org
      /\ n = 1 \/ (n = 2 /\ p \notin Orgs) \/ (n = 3 /\ p \in Orgs)
  BY <1>1 DEF TrailRight
<1> HIDE DEF x, N, n, p
<1>4. \A k \in DOMAIN audit' : (k \in 1..N \/ k - N \in 1..n) /\ N + (k - N) = k /\ k \in Int
  BY <1>1, <1>2
<1>5. CASE o # x.org \/ n = 1
  <2>1. BonusRows(o)' = BonusRows(o)
    <3>1. ASSUME NEW k \in DOMAIN audit', audit'[k].action = "bonus", audit'[k].referred = o
          PROVE  k \in BonusRows(o)
      <4>1. CASE k \in 1..N
        BY <1>1, <1>2, <3>1, <4>1 DEF BonusRows
      <4>2. CASE k - N \in 1..n
        <5>1. audit'[k] = x.trail[k - N]
          BY <1>2, <1>4, <3>1, <4>2
        <5>2. o = x.org /\ k - N = 1
          BY <1>3, <1>5, <3>1, <4>2, <5>1
        <5> QED BY <1>3, <3>1, <5>1, <5>2
      <4> QED BY <1>4, <3>1, <4>1, <4>2
    <3>2. ASSUME NEW k \in BonusRows(o)
          PROVE  k \in DOMAIN audit' /\ audit'[k].action = "bonus" /\ audit'[k].referred = o
      BY <1>1, <1>2, <3>2 DEF BonusRows
    <3> QED BY <3>1, <3>2 DEF BonusRows
  <2>2. sub'[o].rewarded <=> sub[o].rewarded
    <3>1. CASE o = x.org
      BY <1>1, <1>5, <3>1 DEF RewardedWork, x, n
    <3>2. CASE o # x.org
      BY <1>1, <3>2 DEF RewardedWork, x
    <3> QED BY <3>1, <3>2
  <2>3. \A k \in BonusRows(o) : k \in 1..N /\ audit'[k] = audit[k]
    BY <1>1, <1>2 DEF BonusRows
  <2>4. ASSUME NonePaidBefore(o) PROVE NonePaidBefore(o)'
    <3> SUFFICES ASSUME NEW k \in BonusRows(o), NEW j \in DOMAIN audit', audit'[j].org = o,
                        audit'[j].action # "bonus", j < k
                 PROVE  audit'[j].transfer = audit'[k].transfer
      BY <2>1 DEF NonePaidBefore
    <3>1. j \in 1..N /\ k \in 1..N
      BY <1>1, <1>4, <2>3
    <3> QED BY <1>1, <1>2, <2>3, <2>4, <3>1 DEF NonePaidBefore
  <2>5. ASSUME RewardRows(o) PROVE RewardRows(o)'
    <3>1. PICK k \in Nat :
            /\ audit[k].org = o
            /\ \/ referredBy[o] \notin Orgs /\ BonusRows(o) = {k}
               \/ referredBy[o] \in Orgs /\ BonusRows(o) = {k, k + 1} /\ audit[k + 1].org = referredBy[o]
      BY <2>5 DEF RewardRows
    <3>2. k \in BonusRows(o) /\ (referredBy[o] \in Orgs => k + 1 \in BonusRows(o))
      BY <3>1
    <3> QED BY <1>1, <2>1, <2>3, <3>1, <3>2 DEF RewardRows
  <2> QED BY <1>1, <2>1, <2>2, <2>4, <2>5 DEF RewardState
<1>6. CASE o = x.org /\ n >= 2
  <2>1. ~sub[o].rewarded /\ sub'[o].rewarded /\ NonePaid(x.transfer, o) /\ p = referredBy[o] /\ p # Nobody
    BY <1>1, <1>3, <1>6 DEF RewardedWork, x, n, p
  <2>2. BonusRows(o) = {} /\ ~StartSub[o].rewarded
    BY <1>1, <2>1 DEF RewardState
  <2>3. ASSUME NEW k \in DOMAIN audit'
        PROVE  k \in BonusRows(o)' <=> k = N + 2 \/ (n = 3 /\ k = N + 3)
    <3>1. CASE k \in 1..N
      BY <1>1, <1>2, <2>2, <3>1 DEF BonusRows
    <3>2. CASE k - N \in 1..n
      <4>1. audit'[k] = x.trail[k - N] /\ k - N \in {1, 2, 3} /\ audit'[k].referred = o
        BY <1>1, <1>2, <1>3, <1>4, <1>6, <3>2
      <4>2. audit'[k].action = "bonus" <=> k - N = 2 \/ (n = 3 /\ k - N = 3)
        BY <1>1, <1>3, <1>6, <3>2, <4>1
      <4>3. k \in BonusRows(o)' <=> audit'[k].action = "bonus"
        BY <4>1 DEF BonusRows
      <4> QED BY <1>1, <1>4, <4>2, <4>3
    <3> QED BY <1>4, <3>1, <3>2
  <2>4. N + 2 \in DOMAIN audit' /\ (n = 3 => N + 3 \in DOMAIN audit')
    BY <1>1, <1>2, <1>6
  <2>5. BonusRows(o)' \subseteq DOMAIN audit'
    BY DEF BonusRows
  <2>6. BonusRows(o)' = IF n = 3 THEN {N + 2, N + 3} ELSE {N + 2}
    BY <2>3, <2>4, <2>5
  <2>7. audit'[N + 2] = x.trail[2] /\ (n = 3 => audit'[N + 3] = x.trail[3])
    BY <1>1, <1>2, <1>6
  <2>8. RewardRows(o)'
    <3>1. N + 2 \in Nat /\ (N + 2) + 1 = N + 3
      BY <1>1
    <3>2. audit'[N + 2].org = o /\ (n = 3 => audit'[N + 3].org = p) /\ (n = 3 <=> p \in Orgs)
      BY <1>1, <1>3, <1>6, <2>7
    <3>3. /\ audit'[N + 2].org = o
          /\ \/ referredBy'[o] \notin Orgs /\ BonusRows(o)' = {N + 2}
             \/ /\ referredBy'[o] \in Orgs /\ BonusRows(o)' = {N + 2, (N + 2) + 1}
                /\ audit'[(N + 2) + 1].org = referredBy'[o]
      BY <1>1, <2>1, <2>6, <3>1, <3>2
    <3> QED BY <3>1, <3>3 DEF RewardRows
  <2>9. NonePaidBefore(o)'
    <3> SUFFICES ASSUME NEW k \in BonusRows(o)', NEW j \in DOMAIN audit', audit'[j].org = o,
                        audit'[j].action # "bonus", j < k
                 PROVE  audit'[j].transfer = audit'[k].transfer
      BY DEF NonePaidBefore
    <3>1. k \in DOMAIN audit' /\ k - N \in 1..n /\ audit'[k] = x.trail[k - N]
      <4>1. k \in DOMAIN audit' /\ (k = N + 2 \/ (n = 3 /\ k = N + 3))
        BY <2>3, <2>5
      <4> QED BY <1>1, <1>6, <2>7, <4>1
    <3>2. audit'[k].transfer = x.transfer
      BY <1>3, <3>1
    <3>3. CASE j \in 1..N
      <4>1. audit'[j] = audit[j] /\ j \in DOMAIN audit
        BY <1>1, <1>2, <3>3
      <4>2. /\ audit[j].transfer \in Transfers /\ Applied(audit[j].transfer)
            /\ ledger[audit[j].transfer].org = o
        BY <4>1 DEF CountsRight, RowsPaid
      <4>3. audit[j].transfer = x.transfer
        BY <2>1, <4>2 DEF NonePaid
      <4> QED BY <3>2, <4>1, <4>3
    <3>4. CASE j - N \in 1..n
      <4>1. audit'[j] = x.trail[j - N]
        BY <1>2, <1>4, <3>4
      <4> QED BY <1>3, <3>2, <3>4, <4>1
    <3> QED BY <1>4, <3>3, <3>4
  <2> QED BY <1>1, <2>1, <2>2, <2>8, <2>9 DEF RewardState
<1>7. sub[o].rewarded => sub'[o].rewarded
  <2>1. CASE o # x.org
    BY <1>1, <2>1 DEF RewardedWork, x
  <2>2. CASE o = x.org
    <3>1. n = 1 => (sub'[o].rewarded <=> sub[o].rewarded)
      BY <1>1, <2>2 DEF RewardedWork, x, n
    <3>2. n >= 2 => ~sub[o].rewarded
      BY <1>1, <2>2 DEF RewardedWork, x, n
    <3> QED BY <1>1, <3>1, <3>2
  <2> QED BY <2>1, <2>2
<1>8. n = 1 \/ n >= 2
  BY <1>1
<1> QED BY <1>5, <1>6, <1>7, <1>8

LEMMA RewardStep ==
  ASSUME RowsHeld, TrailsHeld, CountsRight, RewardsRight, [Next]_vars
  PROVE  RewardsRight'
<1>1. CASE Still
  BY <1>1, RewardsUntouched DEF Still, Busy
<1>2. ASSUME NEW w \in Workers, Opened(w) PROVE RewardsRight'
  <2>1. RewardedWork(w)'
    BY <1>2 DEF Opened, RewardedWork
  <2> QED BY <1>2, <2>1, RewardsUntouched DEF Opened, Quietly, Busy, Applied
<1>3. ASSUME NEW w \in Workers, Closed(w) PROVE RewardsRight'
  BY <1>3, RewardsUntouched DEF Closed, Quietly, Busy, Applied
<1>4. ASSUME NEW w \in Workers, Extends(w) PROVE RewardsRight'
  <2>1. GoesOn(w)
    BY <1>4, ExtendsGoesOn
  <2>2. RewardedWork(w)'
    BY <2>1, RewardedWorkOn
  <2> QED BY <2>1, <2>2, RewardsUntouched DEF GoesOn, Quietly, Busy, Applied
<1>5. ASSUME NEW w \in Workers, Commit(w) PROVE RewardsRight'
  <2> DEFINE x == work[w]
  <2>1. Committed(w)
    BY <1>5, CommitCounts
  <2>2. \A o \in Orgs : RewardState(o)' /\ (sub[o].rewarded => sub'[o].rewarded)
    BY <2>1, CommitRewards
  <2>3. /\ x.step = "commit" /\ x.org \in Orgs /\ x.transfer \in Transfers /\ x.subs[x.org] # NoSub
        /\ ledger'[x.transfer] = x.ledger /\ x.ledger.org = x.org /\ x.ledger # NoRow
        /\ referredBy' = referredBy /\ Len(x.trail) \in 1..3 /\ RewardedWork(w) /\ Busy(w)
        /\ sub'[x.org] = x.subs[x.org]
    BY <2>1, AbsenceAssumption DEF Committed, AfterCommit, TxShape, RewardsRight
  <2>4. InvitersKept'
    BY <2>3 DEF RewardsRight, InvitersKept
  <2>5. FirstPaymentRewarded'
    <3> SUFFICES ASSUME NEW o \in Orgs, StartInviter[o] # Nobody, NEW t \in Transfers,
                        Applied(t)', ledger'[t].org = o
                 PROVE  sub'[o].rewarded
      BY DEF FirstPaymentRewarded
    <3>1. CASE t # x.transfer
      <4>1. Applied(t) /\ ledger[t].org = o
        BY <2>1, <3>1 DEF Committed
      <4> QED BY <2>2, <4>1 DEF RewardsRight, FirstPaymentRewarded
    <3>2. CASE t = x.transfer
      <4>1. o = x.org
        BY <2>3, <3>2
      <4>2. x.subs[x.org].rewarded
        <5>0. \A m \in 1..3 : m = 1 \/ m >= 2
          OBVIOUS
        <5>1. Len(x.trail) = 1 \/ Len(x.trail) >= 2
          BY <2>3, <5>0, Zenon
        <5>2. CASE Len(x.trail) = 1
          BY <2>3, <4>1, <5>2 DEF RewardedWork
        <5>3. CASE Len(x.trail) >= 2
          BY <2>3, <5>3 DEF RewardedWork
        <5> QED BY <5>1, <5>2, <5>3
      <4> QED BY <2>3, <4>1, <4>2
    <3> QED BY <3>1, <3>2
  <2>6. ASSUME NEW v \in Workers, Busy(v)' PROVE RewardedWork(v)'
    <3> DEFINE y == work[v]
    <3>1. v # w /\ Busy(v) /\ work'[v] = y
      BY <2>1, <2>6 DEF Committed, AfterCommit, Busy
    <3>2. /\ RewardedWork(v) /\ TxShape(y) /\ TrailRight(v) /\ y.org \in Orgs /\ Apart(v, w)
          /\ y.step \in {"ledger", "extend", "reward", "inviter", "commit"}
      BY <2>3, <3>1, TxTyped DEF RewardsRight, RowsHeld, TrailsHeld
    <3>3. \A o \in Orgs : y.subs[o] = NoSub \/ sub'[o] = sub[o]
      BY <2>1, <3>1, CommitSpares DEF Committed
    <3>4. Len(y.trail) >= 1 => y.subs[y.org] # NoSub
      <4>1. y.step \in {"ledger", "extend"} => Len(y.trail) = 0
        BY <3>2 DEF TxShape
      <4> QED BY <3>2, <4>1 DEF TxShape
    <3>5. ASSUME Len(y.trail) >= 1, NEW t0, NonePaid(t0, y.org) PROVE NonePaid(t0, y.org)'
      <4>1. y.org # x.org
        BY <2>3, <3>2, <3>4, <3>5 DEF Apart
      <4>2. ASSUME NEW t \in Transfers \ {t0}, Applied(t)', ledger'[t].org = y.org PROVE FALSE
        BY <2>1, <2>3, <3>5, <4>1, <4>2 DEF Committed, NonePaid
      <4> QED BY <3>1, <4>2 DEF NonePaid
    <3> QED BY <3>1, <3>2, <3>3, <3>4, <3>5 DEF RewardedWork, TrailRight
  <2> QED BY <2>2, <2>4, <2>5, <2>6 DEF RewardsRight
<1> QED BY <1>1, <1>2, <1>3, <1>4, <1>5, StepKinds

LEMMA RewardsAreRight == Spec => []RewardsRight
<1>1. Init => RewardsRight
  <2> SUFFICES ASSUME Init PROVE RewardsRight
    OBVIOUS
  <2>1. /\ audit = <<>> /\ sub = StartSub /\ referredBy = StartInviter
        /\ \A t \in Transfers : ~Applied(t)
        /\ \A w \in Workers : ~Busy(w)
    BY DEF Init, Applied, Busy
  <2>2. \A o \in Orgs : BonusRows(o) = {}
    BY <2>1 DEF BonusRows
  <2>3. InvitersKept /\ FirstPaymentRewarded
    BY <2>1 DEF InvitersKept, FirstPaymentRewarded
  <2> QED BY <2>1, <2>2, <2>3 DEF RewardsRight, RewardState
<1>2. RowsHeld /\ TrailsHeld /\ CountsRight /\ RewardsRight /\ [Next]_vars => RewardsRight'
  BY RewardStep
<1> QED BY <1>1, <1>2, RowsAreHeld, TrailsAreRight, CountsAreRight, PTL DEF Spec

LEMMA TwoOf ==
  ASSUME NEW a, NEW b, a # b
  PROVE  Cardinality({a}) = 1 /\ Cardinality({a, b}) = 2
<1>1. IsFiniteSet({a}) /\ Cardinality({a}) = 1
  BY FS_Singleton
<1>2. Cardinality({a} \cup {b}) = 2
  BY <1>1, FS_AddElement
<1>3. {a, b} = {a} \cup {b}
  OBVIOUS
<1> QED BY <1>1, <1>2, <1>3

LEMMA RewardCounts ==
  ASSUME NotOneself, NEW o \in Orgs, RewardRows(o)
  PROVE  /\ BonusRows(o) # {}
         /\ Cardinality({k \in BonusRows(o) : audit[k].org = o}) = 1
         /\ {audit[k].org : k \in BonusRows(o)} = {o} \cup (Orgs \cap {referredBy[o]})
         /\ Cardinality(BonusRows(o)) = Cardinality({audit[k].org : k \in BonusRows(o)})
<1> DEFINE B == BonusRows(o)
           p == referredBy[o]
<1>1. PICK k \in Nat :
        /\ audit[k].org = o
        /\ \/ p \notin Orgs /\ B = {k}
           \/ p \in Orgs /\ B = {k, k + 1} /\ audit[k + 1].org = p
  BY DEF RewardRows
<1>2. p # o /\ k # k + 1
  BY DEF NotOneself
<1> HIDE DEF B, p
<1>3. CASE p \notin Orgs /\ B = {k}
  <2>1. /\ {i \in B : audit[i].org = o} = {k} /\ {audit[i].org : i \in B} = {o}
        /\ {o} \cup (Orgs \cap {p}) = {o}
    BY <1>1, <1>3
  <2> QED BY <1>3, <2>1, FS_Singleton DEF B, p
<1>4. CASE p \in Orgs /\ B = {k, k + 1} /\ audit[k + 1].org = p
  <2>1. /\ {i \in B : audit[i].org = o} = {k} /\ {audit[i].org : i \in B} = {o, p}
        /\ {o} \cup (Orgs \cap {p}) = {o, p}
    BY <1>1, <1>2, <1>4
  <2>2. Cardinality({k, k + 1}) = 2 /\ Cardinality({k}) = 1 /\ Cardinality({o, p}) = 2
    BY <1>2, TwoOf
  <2> QED BY <1>4, <2>1, <2>2 DEF B, p
<1> QED BY <1>1, <1>3, <1>4

(* An invitation is rewarded on both sides together, by the first payment  *)
(* of the one invited, and by no other, in whatever order payments run.    *)
THEOREM RewardsAreEarnedOnce == Spec => []FirstPaymentRewardedOnce
<1>1. NotOneself /\ RewardsRight => FirstPaymentRewardedOnce
  <2> SUFFICES ASSUME NotOneself, RewardsRight PROVE RewardedOnce /\ FirstPaymentRewarded
    BY DEF FirstPaymentRewardedOnce
  <2>1. ASSUME NEW o \in Orgs
        PROVE  /\ (BonusRows(o) # {}) <=> (sub[o].rewarded /\ ~StartSub[o].rewarded)
               /\ BonusRows(o) # {} =>
                    /\ Cardinality({k \in BonusRows(o) : audit[k].org = o}) = 1
                    /\ {audit[k].org : k \in BonusRows(o)} = {o} \cup (Orgs \cap {referredBy[o]})
                    /\ Cardinality(BonusRows(o)) = Cardinality({audit[k].org : k \in BonusRows(o)})
                    /\ \A k \in BonusRows(o), j \in DOMAIN audit :
                         audit[j].org = o /\ audit[j].action # "bonus" /\ j < k
                           => audit[j].transfer = audit[k].transfer
    <3>1. RewardState(o)
      BY DEF RewardsRight
    <3>2. CASE BonusRows(o) = {} /\ (sub[o].rewarded <=> StartSub[o].rewarded)
      BY <3>2
    <3>3. CASE ~StartSub[o].rewarded /\ sub[o].rewarded /\ RewardRows(o) /\ NonePaidBefore(o)
      BY <3>3, RewardCounts DEF NonePaidBefore
    <3> QED BY <3>1, <3>2, <3>3 DEF RewardState
  <2> QED BY <2>1 DEF RewardedOnce, RewardsRight
<1>2. RowsHeld => NotOneself
  BY DEF RowsHeld
<1> QED BY <1>1, <1>2, RowsAreHeld, RewardsAreRight, PTL

=============================================================================

------------------------------ MODULE Billing ------------------------------
(***************************************************************************)
(* Paying for a plan.  An owner makes a payment intent (createIntent of    *)
(* billing.service.ts) and transfers the money; the bank calls the webhook *)
(* (bank-webhook.service.ts) until it is answered, and now and then again; *)
(* an administrator opens a plan by hand (admin.service.ts).  Webhook and  *)
(* administrator work in transactions of PrivilegedDatabase, one for each  *)
(* transfer, and share activatePlan (plan-activation.ts).                  *)
(*                                                                         *)
(* The transactions are READ COMMITTED: each step reads what others have   *)
(* committed and what its own transaction has written; a row locked or     *)
(* written by another open transaction is waited for.                      *)
(*                                                                         *)
(* Every organisation here keeps a book, so it has its subscription since  *)
(* bootstrap; it has one owner.                                            *)
(***************************************************************************)
EXTENDS Pricing, Sequences, FiniteSets

CONSTANTS
  Orgs, Intents, Transfers,
  Workers,      \* connections of PrivilegedDatabase (max: 2)
  OrgType,      \* [Orgs -> {"trader", "enterprise"}]
  Staff,        \* [Orgs -> Nat]: active members other than the owner
  StartSub,     \* [Orgs -> Sub]: the subscriptions a run starts from
  StartIntent,  \* [Intents -> Intent or NoIntent]: the intents it starts from
  StartInviter, \* [Orgs -> Inviter]: who invited each owner, at the start
  Inviters,     \* the inviters whose code an owner may still enter
  Nobody,       \* referred_by = null
  Outsider,     \* an inviter who owns no book
  Wanted,       \* what owners may ask for: subset of Input
  AdminOrders,  \* what the administrator may open: subset of AdminInput
  Moments,      \* the days on which something happens
  MaxFaults,    \* bound: transactions that time out or are cut off
  NoCode,       \* a transfer in whose description no code is found
  NoIntent, NoOrg, NoRow, NoSub, NoTx, NotSent

Inviter == Orgs \cup {Nobody, Outsider}

Sub == [status: {"trialing", "active"}, trialEnd: Nat, periodEnd: Nat,
        plan: PlanCode \cup {NoPlan}, extraStaff: 0..EXTRA_STAFF_MAX,
        billingMonths: {1, 12}, rewarded: BOOLEAN]

(* What the app sends: PaymentIntentCreateInput, AdminActivatePlanInput.   *)
Input == [kind: {"plan"}, plan: {"vua"}, months: {1, 12}, extraStaff: 0..EXTRA_STAFF_MAX]
           \cup [kind: {"plan"}, plan: {"thuong_lai"}, months: {1, 12}, extraStaff: {0}]
           \cup [kind: {"staff"}, plan: {NoPlan}, months: {0}, extraStaff: 1..EXTRA_STAFF_MAX]
AdminInput == [org: Orgs, plan: PlanCode \cup {Keep}, months: 1..36,
               extraStaff: 0..EXTRA_STAFF_MAX \cup {Keep}]

Intent == [status: {"asked", "pending", "paid"}, org: Orgs, kind: {"plan", "staff"},
           plan: PlanCode \cup {NoPlan}, months: {0, 1, 12}, extraStaff: 0..EXTRA_STAFF_MAX,
           amount: Nat, createdAt: Nat]

Purchase == [kind: {"plan", "staff"}, plan: PlanCode \cup {Keep}, months: 0..36,
             extraStaff: 0..EXTRA_STAFF_MAX \cup {Keep}]

Row == [outcome: {"applied", "underpaid", "intent_closed", "no_intent"},
        org: Orgs \cup {NoOrg}, intent: Intents \cup {NoIntent}, source: {"webhook", "admin"}]

Entry == [org: Orgs, action: {"activated", "staff_added", "bonus"}, months: 0..36,
          plan: PlanCode \cup {NoPlan}, periodEnd: Nat, transfer: Transfers, referred: Orgs]

Sent == [code: Intents \cup {NoIntent, NoCode}, amount: Int]

Tx == [step: {"ledger", "extend", "reward", "inviter", "commit"},
       source: {"webhook", "admin"}, transfer: Transfers, intent: Intents \cup {NoIntent},
       org: Orgs, buy: Purchase, now: Nat,
       ledger: Row \cup {NoRow}, subs: [Orgs -> Sub \cup {NoSub}], trail: Seq(Entry)]

ASSUME BillingAssumption ==
  /\ OrgType \in [Orgs -> {"trader", "enterprise"}]
  /\ Staff \in [Orgs -> Nat]
  /\ StartSub \in [Orgs -> Sub]
  /\ \A o \in Orgs : OrgType[o] = "trader" => StartSub[o].plan # NoPlan
  /\ StartIntent \in [Intents -> Intent \cup {NoIntent}]
  /\ StartInviter \in [Orgs -> Inviter] /\ \A o \in Orgs : StartInviter[o] # o
  /\ Inviters \subseteq Inviter \ {Nobody}
  /\ Wanted \subseteq Input /\ AdminOrders \subseteq AdminInput
  /\ Moments \subseteq Nat /\ MaxFaults \in Nat
  /\ Nobody \notin Orgs \cup {Outsider}
  /\ \A i \in Intents : StartIntent[i] # NoIntent => StartIntent[i].status # "paid"

(* What stands for nothing is nothing else.                                *)
ASSUME AbsenceAssumption ==
  /\ NoIntent \notin Intents \cup Intent
  /\ NoCode \notin Intents \cup {NoIntent}
  /\ NoRow \notin Row /\ NoSub \notin Sub /\ NoTx \notin Tx /\ NotSent \notin Sent

VARIABLES
  now,         \* the day
  bank,        \* transfers made: the code in the description and the sum
  acked,       \* transfers the bank has been answered { success: true } for
  intents,     \* payment_intents
  sub,         \* subscriptions
  referredBy,  \* profiles.referred_by of each owner
  ledger,      \* bank_transactions
  audit,       \* the rows of audit_log that activatePlan writes, in the order of the commits
  work,        \* the open transaction of each connection
  faults       \* faults so far

vars == <<now, bank, acked, intents, sub, referredBy, ledger, audit, work, faults>>

Init ==
  /\ now \in Moments /\ \A d \in Moments : now <= d
  /\ bank = [t \in Transfers |-> NotSent]
  /\ acked = {}
  /\ intents = StartIntent
  /\ sub = StartSub
  /\ referredBy = StartInviter
  /\ ledger = [t \in Transfers |-> NoRow]
  /\ audit = <<>>
  /\ work = [w \in Workers |-> NoTx]
  /\ faults = 0

-----------------------------------------------------------------------------
(* The owner: a quote and an intent, in a transaction that locks nothing.  *)

Amount(o, input) ==
  IF input.kind = "staff"
    THEN StaffTopUpAmount(input.extraStaff, sub[o].billingMonths, sub[o].periodEnd, now)
    ELSE PlanAmount(input.plan, input.months, input.extraStaff)

MayBuy(o, input) ==
  IF input.kind = "staff"
    THEN PaidVua(sub[o], now) /\ sub[o].extraStaff + input.extraStaff <= EXTRA_STAFF_MAX
    ELSE /\ ~(input.plan = "thuong_lai" /\ sub[o].plan = "vua" /\ Tier(sub[o], now) = "premium")
         /\ Staff[o] <= StaffLimit(input.plan, input.extraStaff)

(* An intent of the last 24 hours for the same thing is given back instead.*)
Reused(o, input) ==
  \E j \in Intents :
    /\ intents[j] # NoIntent
    /\ intents[j] = [status |-> "pending", org |-> o, kind |-> input.kind, plan |-> input.plan,
                     months |-> input.months, extraStaff |-> input.extraStaff,
                     amount |-> Amount(o, input), createdAt |-> now]

Quote(i, o, input) ==
  /\ intents[i] = NoIntent
  /\ OrgType[o] = "trader"
  /\ MayBuy(o, input)
  /\ ~Reused(o, input)
  /\ intents' = [intents EXCEPT ![i] =
       [status |-> "asked", org |-> o, kind |-> input.kind, plan |-> input.plan,
        months |-> input.months, extraStaff |-> input.extraStaff,
        amount |-> Amount(o, input), createdAt |-> now]]
  /\ UNCHANGED <<now, bank, acked, sub, referredBy, ledger, audit, work, faults>>

CreateIntent(i) ==
  /\ intents[i] # NoIntent /\ intents[i].status = "asked"
  /\ intents' = [intents EXCEPT ![i].status = "pending", ![i].createdAt = now]
  /\ UNCHANGED <<now, bank, acked, sub, referredBy, ledger, audit, work, faults>>

(* claim_referral: once, and never one's own code.                         *)
ClaimReferral(o, p) ==
  /\ referredBy[o] = Nobody /\ p # o
  /\ referredBy' = [referredBy EXCEPT ![o] = p]
  /\ UNCHANGED <<now, bank, acked, intents, sub, ledger, audit, work, faults>>

(* The customer transfers a sum under the code of an intent, under a code  *)
(* that no intent has, or without any code.                                *)
Transfer(t, code, amount) ==
  /\ bank[t] = NotSent
  /\ bank' = [bank EXCEPT ![t] = [code |-> code, amount |-> amount]]
  /\ UNCHANGED <<now, acked, intents, sub, referredBy, ledger, audit, work, faults>>

-----------------------------------------------------------------------------
(* Rows held by the open transactions.                                     *)

(* Slip: an intent is read without being locked.                           *)
IntentUnlocked(i, w) == TRUE

IntentFree(i, w) ==
  \A v \in Workers \ {w} : work[v] # NoTx => work[v].intent # i

KeyFree(t, w) ==
  \A v \in Workers \ {w} : work[v] # NoTx => work[v].transfer # t \/ work[v].ledger = NoRow

(* Slip: a subscription is read without being locked.                      *)
SubUnlocked(o, w) == TRUE

SubFree(o, w) ==
  \A v \in Workers \ {w} : work[v] # NoTx => work[v].subs[o] = NoSub

Open(w, source, t, i, o, buy) ==
  work' = [work EXCEPT ![w] =
    [step |-> "ledger", source |-> source, transfer |-> t, intent |-> i, org |-> o, buy |-> buy,
     now |-> now, ledger |-> NoRow, subs |-> [p \in Orgs |-> NoSub], trail |-> <<>>]]

(* handle: the intent of the code, locked FOR UPDATE while it is pending.  *)
Payable(i) == i \in Intents /\ intents[i].status = "pending"
Paying(i, amount) == Payable(i) /\ intents[i].amount <= amount

WebhookOpens(w, t) ==
  /\ work[w] = NoTx /\ bank[t] # NotSent
  /\ LET i == bank[t].code IN
       /\ Paying(i, bank[t].amount)
       /\ IntentFree(i, w)
       /\ Open(w, "webhook", t, i, intents[i].org, PurchaseOf(intents[i]))
  /\ UNCHANGED <<now, bank, acked, intents, sub, referredBy, ledger, audit, faults>>

(* recordUnapplied: a transaction that opens no plan leaves one row, and   *)
(* none when the transfer has a row already.                               *)
Unapplied(t) ==
  LET i == bank[t].code IN
    [outcome |-> IF i = NoIntent THEN "no_intent"
                 ELSE IF Payable(i) THEN "underpaid" ELSE "intent_closed",
     org |-> IF i = NoIntent THEN NoOrg ELSE intents[i].org,
     intent |-> i, source |-> "webhook"]

(* Slip: a transfer under a code that no intent has leaves no row.         *)
WebhookRecordsKnown(w, t) ==
  /\ work[w] = NoTx /\ bank[t] # NotSent
  /\ bank[t].code # NoCode /\ ~Paying(bank[t].code, bank[t].amount)
  /\ bank[t].code # NoIntent => IntentFree(bank[t].code, w)
  /\ KeyFree(t, w)
  /\ ledger' = [ledger EXCEPT ![t] = IF ledger[t] = NoRow /\ bank[t].code # NoIntent
                                       THEN Unapplied(t) ELSE ledger[t]]
  /\ acked' = acked \cup {t}
  /\ UNCHANGED <<now, bank, intents, sub, referredBy, audit, work, faults>>

(* Slip: a transfer that is too small is refused, and not answered.        *)
WebhookRefusesShort(w, t) ==
  /\ work[w] = NoTx /\ bank[t] # NotSent
  /\ bank[t].code # NoCode /\ ~Payable(bank[t].code)
  /\ KeyFree(t, w)
  /\ ledger' = [ledger EXCEPT ![t] = IF ledger[t] = NoRow THEN Unapplied(t) ELSE ledger[t]]
  /\ acked' = acked \cup {t}
  /\ UNCHANGED <<now, bank, intents, sub, referredBy, audit, work, faults>>

WebhookRecords(w, t) ==
  /\ work[w] = NoTx /\ bank[t] # NotSent
  /\ bank[t].code # NoCode /\ ~Paying(bank[t].code, bank[t].amount)
  /\ bank[t].code # NoIntent => IntentFree(bank[t].code, w)
  /\ KeyFree(t, w)
  /\ ledger' = [ledger EXCEPT ![t] = IF ledger[t] = NoRow THEN Unapplied(t) ELSE ledger[t]]
  /\ acked' = acked \cup {t}
  /\ UNCHANGED <<now, bank, intents, sub, referredBy, audit, work, faults>>

(* A transfer without a code is passed over: answered, no row.             *)
WebhookSkips(t) ==
  /\ bank[t] # NotSent /\ bank[t].code = NoCode
  /\ acked' = acked \cup {t}
  /\ UNCHANGED <<now, bank, intents, sub, referredBy, ledger, audit, work, faults>>

AdminOpens(w, t, input) ==
  /\ work[w] = NoTx /\ bank[t] # NotSent
  /\ OrgType[input.org] # "trader" => input.plan = Keep /\ input.extraStaff = Keep
  /\ input.plan = "thuong_lai" => input.extraStaff \in {0, Keep}
  /\ Open(w, "admin", t, NoIntent, input.org,
          [kind |-> "plan", plan |-> input.plan, months |-> input.months,
           extraStaff |-> input.extraStaff])
  /\ UNCHANGED <<now, bank, acked, intents, sub, referredBy, ledger, audit, faults>>

(* activatePlan.  The row of the ledger first: a transfer whose row says   *)
(* `applied` opens nothing more, whatever its intent.                      *)
AlreadyApplied(w) ==
  LET x == work[w] IN
    /\ x # NoTx /\ x.step = "ledger"
    /\ KeyFree(x.transfer, w)
    /\ ledger[x.transfer] # NoRow /\ ledger[x.transfer].outcome = "applied"
    /\ work' = [work EXCEPT ![w] = NoTx]
    /\ acked' = IF x.source = "webhook" THEN acked \cup {x.transfer} ELSE acked
    /\ UNCHANGED <<now, bank, intents, sub, referredBy, ledger, audit, faults>>

AppliedRow(x) ==
  LET old == ledger[x.transfer] IN
    [outcome |-> "applied", org |-> x.org,
     intent |-> IF x.intent = NoIntent /\ old # NoRow THEN old.intent ELSE x.intent,
     source |-> x.source]

WriteLedger(w) ==
  LET x == work[w] IN
    /\ x # NoTx /\ x.step = "ledger"
    /\ KeyFree(x.transfer, w)
    /\ ledger[x.transfer] # NoRow => ledger[x.transfer].outcome # "applied"
    /\ work' = [work EXCEPT ![w].step = "extend", ![w].ledger = AppliedRow(x)]
    /\ UNCHANGED <<now, bank, acked, intents, sub, referredBy, ledger, audit, faults>>

(* The subscription as a transaction reads it once it has locked it.       *)
Current(x, o) == IF x.subs[o] = NoSub THEN sub[o] ELSE x.subs[o]

AuditRow(x, o, action, months, new) ==
  [org |-> o, action |-> action, months |-> months, plan |-> new.plan,
   periodEnd |-> new.periodEnd, transfer |-> x.transfer, referred |-> x.org]

Writes(w, o, new, action, months, step) ==
  work' = [work EXCEPT ![w].subs[o] = new, ![w].step = step,
                       ![w].trail = Append(@, AuditRow(work[w], o, action, months, new))]

(* extend and addStaff on the organisation that pays.                      *)
ExtendSub(w) ==
  LET x == work[w]
      s == Current(x, x.org)
  IN  /\ x # NoTx /\ x.step = "extend"
      /\ SubFree(x.org, w)
      /\ \/ /\ x.buy.kind = "plan"
            /\ \E days \in Lengths[x.buy.months] :
                 Writes(w, x.org,
                        Extended(s, PeriodStart(s, x.buy.plan, x.now) + days, x.buy.plan,
                                 x.buy.extraStaff, BillingMonthsOf(x.buy.months)),
                        "activated", x.buy.months, "reward")
         \/ /\ x.buy.kind = "staff"
            /\ Writes(w, x.org, StaffAdded(s, x.buy.extraStaff), "staff_added", 0, "reward")
      /\ UNCHANGED <<now, bank, acked, intents, sub, referredBy, ledger, audit, faults>>

(* rewardReferral: the count sees the row this transaction has written and *)
(* the rows that others have committed.                                    *)
PaidBefore(x) ==
  {t \in Transfers \ {x.transfer} :
     ledger[t] # NoRow /\ ledger[t].outcome = "applied" /\ ledger[t].org = x.org}

(* Slip: any payment of a plan not yet rewarded earns the reward.          *)
RewardDueLate(x) == ~Current(x, x.org).rewarded /\ referredBy[x.org] # Nobody

RewardDue(x) ==
  /\ ~Current(x, x.org).rewarded
  /\ PaidBefore(x) = {}
  /\ referredBy[x.org] # Nobody

Bonus(s, x, days) == Extended(s, PeriodStart(s, Keep, x.now) + days, Keep, Keep, Keep)

RewardReferral(w) ==
  LET x == work[w] IN
    /\ x # NoTx /\ x.step = "reward"
    /\ IF RewardDue(x)
         THEN \E days \in Lengths[1] :
                Writes(w, x.org, [Bonus(Current(x, x.org), x, days) EXCEPT !.rewarded = TRUE],
                       "bonus", 1, IF referredBy[x.org] \in Orgs THEN "inviter" ELSE "commit")
         ELSE work' = [work EXCEPT ![w].step = "commit"]
    /\ UNCHANGED <<now, bank, acked, intents, sub, referredBy, ledger, audit, faults>>

RewardInviter(w) ==
  LET x == work[w]
      p == referredBy[x.org]
  IN  /\ x # NoTx /\ x.step = "inviter"
      /\ SubFree(p, w)
      /\ \E days \in Lengths[1] :
           Writes(w, p, Bonus(Current(x, p), x, days), "bonus", 1, "commit")
      /\ UNCHANGED <<now, bank, acked, intents, sub, referredBy, ledger, audit, faults>>

Commit(w) ==
  LET x == work[w] IN
    /\ x # NoTx /\ x.step = "commit"
    /\ ledger' = [ledger EXCEPT ![x.transfer] = x.ledger]
    /\ sub' = [o \in Orgs |-> Current(x, o)]
    /\ audit' = audit \o x.trail
    /\ intents' = IF x.source = "webhook" THEN [intents EXCEPT ![x.intent].status = "paid"]
                                          ELSE intents
    /\ acked' = IF x.source = "webhook" THEN acked \cup {x.transfer} ELSE acked
    /\ work' = [work EXCEPT ![w] = NoTx]
    /\ UNCHANGED <<now, bank, referredBy, faults>>

-----------------------------------------------------------------------------
RollBack(w) ==
  /\ work' = [work EXCEPT ![w] = NoTx]
  /\ UNCHANGED <<now, bank, acked, intents, sub, referredBy, ledger, audit>>

(* Fifteen seconds have passed, or the server has gone.                    *)
Fail(w) ==
  /\ work[w] # NoTx /\ faults < MaxFaults
  /\ RollBack(w) /\ faults' = faults + 1

WaitsFor(v, w) ==
  LET x == work[v]
      y == work[w]
  IN  /\ x # NoTx /\ y # NoTx
      /\ \/ x.step = "ledger" /\ y.transfer = x.transfer /\ y.ledger # NoRow
         \/ x.step = "extend" /\ y.subs[x.org] # NoSub
         \/ x.step = "inviter" /\ y.subs[referredBy[x.org]] # NoSub

(* The database finds a circle of transactions that wait for one another   *)
(* and cancels one of them.                                                *)
BreakDeadlock(w) ==
  /\ \E ring \in SUBSET Workers :
       w \in ring /\ \A v \in ring : \E u \in ring \ {v} : WaitsFor(v, u)
  /\ RollBack(w) /\ UNCHANGED faults

Tick(d) ==
  /\ now < d
  /\ now' = d
  /\ UNCHANGED <<bank, acked, intents, sub, referredBy, ledger, audit, work, faults>>

Deliver(t) ==
  \/ \E w \in Workers : WebhookOpens(w, t) \/ WebhookRecords(w, t)
  \/ WebhookSkips(t)

Step(w) ==
  \/ AlreadyApplied(w) \/ WriteLedger(w) \/ ExtendSub(w)
  \/ RewardReferral(w) \/ RewardInviter(w) \/ Commit(w)

Sums(i) == {intents[i].amount - 1, intents[i].amount}
HasCode(i) == intents[i] # NoIntent /\ intents[i].status # "asked"

Next ==
  \/ \E i \in Intents, o \in Orgs, input \in Wanted : Quote(i, o, input)
  \/ \E i \in Intents : CreateIntent(i)
  \/ \E o \in Orgs, p \in Inviters : ClaimReferral(o, p)
  \/ \E t \in Transfers, i \in Intents :
       HasCode(i) /\ \E amount \in Sums(i) : Transfer(t, i, amount)
  \/ \E t \in Transfers, code \in {NoIntent, NoCode} : Transfer(t, code, 1)
  \/ \E t \in Transfers : Deliver(t)
  \/ \E w \in Workers, t \in Transfers, input \in AdminOrders : AdminOpens(w, t, input)
  \/ \E w \in Workers : Step(w) \/ Fail(w) \/ BreakDeadlock(w)
  \/ \E d \in Moments : Tick(d)

Spec == Init /\ [][Next]_vars

(* The bank calls again until it is answered; a transaction that can go on *)
(* goes on, and one that waits for a row is given it in its turn, not      *)
(* passed over for ever by later ones; a deadlock is found.  Owners, the   *)
(* administrator and the calendar owe nothing.                             *)
Serving(t, w) == work[w] # NoTx /\ work[w].transfer = t

Fairness ==
  /\ \A t \in Transfers :
       /\ SF_vars(Deliver(t) /\ t \notin acked)
       /\ SF_vars(\E w \in Workers : Serving(t, w) /\ (AlreadyApplied(w) \/ WriteLedger(w)))
       /\ SF_vars(\E w \in Workers : Serving(t, w) /\ ExtendSub(w))
       /\ SF_vars(\E w \in Workers : Serving(t, w) /\ RewardInviter(w))
  /\ \A w \in Workers : WF_vars(Step(w))
  /\ WF_vars(\E w \in Workers : BreakDeadlock(w))

FairSpec == Spec /\ Fairness

-----------------------------------------------------------------------------
(* Every variable has its type: no transaction leaves a subscription with  *)
(* more than five extra weighers or a plan that does not exist.            *)
TypeOK ==
  /\ now \in Nat
  /\ bank \in [Transfers -> Sent \cup {NotSent}]
  /\ acked \subseteq Transfers
  /\ intents \in [Intents -> Intent \cup {NoIntent}]
  /\ sub \in [Orgs -> Sub]
  /\ referredBy \in [Orgs -> Inviter]
  /\ ledger \in [Transfers -> Row \cup {NoRow}]
  /\ audit \in Seq(Entry)
  /\ work \in [Workers -> Tx \cup {NoTx}]
  /\ faults \in 0..MaxFaults

Applied(t) == ledger[t] # NoRow /\ ledger[t].outcome = "applied"
Payments(t) == {k \in DOMAIN audit : audit[k].transfer = t /\ audit[k].action # "bonus"}

(* A transfer opens one thing, once: whatever the bank and the             *)
(* administrator repeat, and in whatever order, the trail holds one        *)
(* activation for a transfer the ledger calls applied and none for any     *)
(* other (activatePlan, "dừng, không gia hạn").                            *)
TransferCountsOnce ==
  \A t \in Transfers : Cardinality(Payments(t)) = IF Applied(t) THEN 1 ELSE 0

(* Two transfers under one code never both pay its intent: the webhook     *)
(* applies one of them, and then the intent is paid, or none (the lock of  *)
(* the intent, bank-webhook.service.ts).                                   *)
IntentPaysOnce ==
  \A i \in Intents :
    Cardinality({t \in Transfers : Applied(t) /\ ledger[t].source = "webhook" /\ ledger[t].intent = i})
      = IF intents[i] # NoIntent /\ intents[i].status = "paid" THEN 1 ELSE 0

(* Nothing counts twice: neither a transfer nor an intent.                  *)
NothingCountsTwice == TransferCountsOnce /\ IntentPaysOnce

RowsOf(o) == {k \in DOMAIN audit : audit[k].org = o}
Previous(j, k) ==
  /\ j \in RowsOf(audit[k].org) /\ j < k
  /\ \A i \in RowsOf(audit[k].org) : i <= j \/ k <= i

(* No month is lost: payments and rewards of one organisation that run at  *)
(* the same time build on one another, so the period grows by every month  *)
(* the trail names, and ends where its last row says (the lock of the      *)
(* subscription, lockedSubscription).                                      *)
NoMonthLost ==
  /\ \A k \in DOMAIN audit : \A j \in DOMAIN audit :
       Previous(j, k) /\ (audit[j].plan = audit[k].plan \/ audit[k].action # "activated")
         => audit[j].periodEnd + 28 * audit[k].months <= audit[k].periodEnd
  /\ \A o \in Orgs :
       \/ RowsOf(o) = {} /\ sub[o] = StartSub[o]
       \/ \E k \in RowsOf(o) : /\ \A j \in RowsOf(o) : j <= k
                               /\ sub[o].periodEnd = audit[k].periodEnd

Worth(s, day) ==
  IF Tier(s, day) = "premium" THEN DaysBetween(day, s.periodEnd) * MonthPrice[s.plan] ELSE 0

MonthsGiven(x, o) ==
  (IF o = x.org THEN x.buy.months ELSE 0)
    + Cardinality({k \in DOMAIN x.trail : x.trail[k].org = o /\ x.trail[k].action = "bonus"})

(* Days already paid for keep their worth when the plan changes, up or     *)
(* down, by the webhook or by hand, and the months bought come on top of   *)
(* them at the price of the new plan (switchedPeriodEnd, "ngày ĐÃ TRẢ còn  *)
(* lại quy đổi theo giá").                                                 *)
PaidDaysKept ==
  [][\A w \in Workers : Commit(w) =>
       LET x == work[w] IN
         \A o \in Orgs : x.subs[o] # NoSub /\ OrgType[o] = "trader" =>
           Worth(sub[o], x.now) + 28 * MonthsGiven(x, o) * MonthPrice[sub'[o].plan]
             <= Worth(sub'[o], x.now)]_vars

BonusRows(o) == {k \in DOMAIN audit : audit[k].action = "bonus" /\ audit[k].referred = o}

(* A referral is rewarded once, on both sides together, and for the first  *)
(* payment of the organisation: no later payment, and no payment of        *)
(* another organisation, earns it (rewardReferral, "đúng một lần").        *)
RewardedOnce ==
  \A o \in Orgs :
    /\ (BonusRows(o) # {}) <=> (sub[o].rewarded /\ ~StartSub[o].rewarded)
    /\ BonusRows(o) # {} =>
         /\ Cardinality({k \in BonusRows(o) : audit[k].org = o}) = 1
         /\ {audit[k].org : k \in BonusRows(o)} = {o} \cup (Orgs \cap {referredBy[o]})
         /\ Cardinality(BonusRows(o)) = Cardinality({audit[k].org : k \in BonusRows(o)})
         /\ \A k \in BonusRows(o), j \in DOMAIN audit :
              audit[j].org = o /\ audit[j].action # "bonus" /\ j < k
                => audit[j].transfer = audit[k].transfer

(* Who was invited before paying anything is rewarded by the first payment,*)
(* even when two payments run together and each sees only its own row.     *)
FirstPaymentRewarded ==
  \A o \in Orgs :
    StartInviter[o] # Nobody /\ (\E t \in Transfers : Applied(t) /\ ledger[t].org = o)
      => sub[o].rewarded

(* An invitation is rewarded with the first payment and never again.        *)
FirstPaymentRewardedOnce == RewardedOnce /\ FirstPaymentRewarded

(* A transfer WITH A CODE that the bank no longer repeats has left its row,*)
(* whatever became of its intent (bank-webhook.service.ts:16-17, "vẫn vào  *)
(* bank_transactions").  The exception is a transfer without a code: it is *)
(* answered and passed over, and has a row only when the administrator     *)
(* opens a plan with it.                                                   *)
AnsweredIsRecorded ==
  /\ \A t \in acked : bank[t].code # NoCode => ledger[t] # NoRow
  /\ \A t \in Transfers :
       ledger[t] # NoRow /\ bank[t].code = NoCode => ledger[t].source = "admin"

(* Whatever order the calls come in, a transfer is answered in the end,    *)
(* also when two organisations that invited each other pay together.       *)
EveryTransferAnswered == \A t \in Transfers : bank[t] # NotSent ~> t \in acked

(* "hạ gói chỉ khi hết hạn" (quote): a Vựa plan that is paid for and has   *)
(* not run out is not taken down to Thương lái.                            *)
NoDowngradeWhilePaid ==
  [][\A o \in Orgs : PaidVua(sub[o], now) => sub'[o].plan # "thuong_lai"]_vars
=============================================================================

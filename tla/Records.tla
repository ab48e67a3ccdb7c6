------------------------------- MODULE Records ------------------------------
(***************************************************************************)
(* The records of a book as they go over the wire (packages/contracts:     *)
(* sync-records.ts): what /sync/push takes as the data of an operation.    *)
(* An operation that is not taken stays at the head of the device's queue  *)
(* and blocks what is behind it, so what the app books must be of this     *)
(* shape however it came about.                                            *)
(*                                                                         *)
(* Texts are names: empty, or short enough.  Notes, products, photographs  *)
(* and the metrics of a line are left out, as in the modules of the book.  *)
(***************************************************************************)
EXTENDS BookMath

CONSTANTS
  RECEIPT_LIMITS,           \* [lines, adjustments, creditTerms, quantity], the last of kg and of dong
  MAX_SAFE_INTEGER,         \* of dong
  QUALITY_STEPS             \* PRICING_RULE_LIMITS.qualitySteps

ASSUME RecordsAssumption ==
  /\ {RECEIPT_LIMITS.lines, RECEIPT_LIMITS.adjustments, RECEIPT_LIMITS.creditTerms,
      RECEIPT_LIMITS.quantity, MAX_SAFE_INTEGER, QUALITY_STEPS} \subseteq Nat \ {0}

Weight(n)  == n \in 0..(100 * RECEIPT_LIMITS.quantity)          \* Quantity, of hundredths of a kg
Price(n)   == n \in 0..(DONG * RECEIPT_LIMITS.quantity)         \* Quantity, of halves of a dong
Percent(n) == n \in 0..100
Money(n)   == n % DONG = 0 /\ n \div DONG \in (-MAX_SAFE_INTEGER)..MAX_SAFE_INTEGER
NonNegativeMoney(n) == Money(n) /\ n >= 0
Optional(n, shaped) == n = Unset \/ shaped

FormulaTypes == {"standard", "netAfterTare", "rubberLatex", "lossPercent"}
TransactionKinds == {"purchase", "sale"}
QualityMetrics == {"none", "quality"}           \* of those, the metrics of the model's lines

-----------------------------------------------------------------------------
(* The parts of a receipt: lineShape, adjustmentShape, CreditTerm. *)
TransactionLine(l) ==
  /\ l.formula \in FormulaTypes
  /\ Weight(l.gross) /\ Price(l.price)
  /\ Optional(l.tare, Weight(l.tare))
  /\ Optional(l.quality, Percent(l.quality)) /\ Optional(l.loss, Percent(l.loss))
  /\ Optional(l.total, NonNegativeMoney(l.total))

FrozenTransactionLine(l) == TransactionLine(l) /\ NonNegativeMoney(l.total)

Adjustments(adjustments) ==
  /\ Len(adjustments) <= RECEIPT_LIMITS.adjustments
  /\ \A i \in DOMAIN adjustments : Money(adjustments[i])

(* The push computes each line again and refuses one that says otherwise    *)
(* (verifyLineTotals).                                                      *)
VerifyLineTotals(lines) ==
  \A i \in DOMAIN lines : lines[i].total = FreezeLineTotals(lines[i]).total

(* A receipt goes without its payments and without amountPaid.              *)
TransactionInsert(t) ==
  /\ t.kind \in TransactionKinds
  /\ Len(t.lines) \in 1..RECEIPT_LIMITS.lines
  /\ \A i \in DOMAIN t.lines : FrozenTransactionLine(t.lines[i])
  /\ Adjustments(t.adjustments)
  /\ Cardinality(t.creditTerms) <= RECEIPT_LIMITS.creditTerms
  /\ VerifyLineTotals(t.lines)

PaymentInsert(p) == p.amount > 0 /\ NonNegativeMoney(p.amount)

DraftInsert(d) ==
  /\ d.form.kind \in TransactionKinds
  /\ Len(d.form.lines) <= RECEIPT_LIMITS.lines
  /\ \A i \in DOMAIN d.form.lines : TransactionLine(d.form.lines[i])
  /\ NonNegativeMoney(d.form.paid)
  /\ Adjustments(d.form.adjustments)

PartyInsert(p) == p.name # ""

PricingRuleInsert(rule) ==
  /\ rule.percent \in -100..100
  /\ Money(rule.fixed)
  /\ Optional(rule.minWeight, Weight(rule.minWeight))
  /\ rule.metric \in QualityMetrics
  /\ Cardinality(rule.steps) <= QUALITY_STEPS
  /\ \A s \in rule.steps : /\ s.from \in 0..RECEIPT_LIMITS.quantity
                            /\ Money(s.amount) /\ (Price(s.amount) \/ Price(-s.amount))

-----------------------------------------------------------------------------
(* A season contract, and the change of one: a patch holds, of each date,   *)
(* the new one or none.  The shape compares the dates when both are sent;   *)
(* the push reads the stored one when one is (assertContractPeriod).        *)
EndsAfterStart(c) == c.start <= c.end

SeasonContractInsert(c) ==
  /\ c.kind \in TransactionKinds
  /\ c.name # "" /\ c.product # ""
  /\ c.quantity > 0 /\ Weight(c.quantity)
  /\ EndsAfterStart(c)

Patched(stored, patch) ==
  [stored EXCEPT !.start = IF patch.start = {} THEN @ ELSE Min(patch.start),
                 !.end   = IF patch.end = {} THEN @ ELSE Min(patch.end)]

SeasonContractPatch(patch) ==
  patch.start # {} /\ patch.end # {} => Min(patch.start) <= Min(patch.end)

AssertContractPeriod(stored, patch) ==
  (patch.start = {}) # (patch.end = {}) => EndsAfterStart(Patched(stored, patch))

PatchTaken(stored, patch) ==
  SeasonContractPatch(patch) /\ AssertContractPeriod(stored, patch)

-----------------------------------------------------------------------------
(* Whatever a contract is changed to, by one date or both, it is refused    *)
(* just when it would end before it starts: the two checks together are the *)
(* one of the database.                                                     *)
PeriodChecked(c, times) ==
  LET dates == {{}} \cup {{day} : day \in times}
  IN  \A from, to \in dates :
        LET patch == [start |-> from, end |-> to]
        IN  PatchTaken(c, patch) <=> EndsAfterStart(Patched(c, patch))
=============================================================================

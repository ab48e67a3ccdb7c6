------------------------------ MODULE BookMath ------------------------------
(***************************************************************************)
(* The arithmetic every party of the system shares (packages/core: calc.ts *)
(* and pricing.ts): what a line weighs for payment and for stock, what it  *)
(* costs, what a receipt still owes, and what the pricing rules suggest.   *)
(*                                                                         *)
(* Weights are whole hundredths of a kilogram, the precision the source    *)
(* rounds to; money is counted in halves of a dong, so that a sum that is  *)
(* no whole dong can be told; percents are whole.  Math.round is RoundDiv: *)
(* to the nearest, halves up; of an amount of money, RoundToDong.          *)
(***************************************************************************)
EXTENDS Integers, Sequences, SequencesExt, FiniteSets, FiniteSetsExt

Unset == -1                 \* an optional field that is not there

RoundDiv(n, d) == (2 * n + d) \div (2 * d)

NotBelowZero(n) == IF n > 0 THEN n ELSE 0

SumOver(s, f(_)) == MapThenSumSet(LAMBDA i : f(s[i]), DOMAIN s)

DONG == 2                   \* the halves of a dong

RoundToDong(n, d)     == RoundDiv(n, DONG * d) * DONG                \* of the fraction n/d
RoundToThousand(n, d) == RoundDiv(n, 1000 * DONG * d) * 1000 * DONG

(***************************************************************************)
(* A line: [product, formula, gross, tare, quality, loss, price, total];   *)
(* total is Unset until the line is frozen.                                *)
(***************************************************************************)
LineNetWeight(l) ==
  NotBelowZero(CASE l.formula = "rubberLatex"  -> RoundDiv(l.gross * l.quality, 100)
                 [] l.formula = "lossPercent"  -> RoundDiv(l.gross * (100 - l.loss), 100)
                 [] l.formula = "netAfterTare" -> l.gross - l.tare
                 [] OTHER                      -> l.gross)

LinePhysicalWeight(l) == NotBelowZero(l.gross)

LineTotal(l) ==
  IF l.total # Unset THEN l.total ELSE RoundToThousand(LineNetWeight(l) * l.price, 100)

FreezeLineTotals(l) == [l EXCEPT !.total = LineTotal([l EXCEPT !.total = Unset])]

LinesTotal(lines) == SumOver(lines, LineTotal)

LinesWeight(lines) == SumOver(lines, LineNetWeight)

TotalAdjustments(adjustments) ==
  RoundToThousand(SumOver(adjustments, LAMBDA a : a), 1)

TransactionTotal(t) == LinesTotal(t.lines) + TotalAdjustments(t.adjustments)

Debt(t) == RoundToDong(NotBelowZero(TransactionTotal(t) - t.amountPaid), 1)

(***************************************************************************)
(* Pricing rules: [active, product, pickup, minWeight, metric, steps,      *)
(* fixed, percent].  product "any" and pickup "any" restrict nothing; a    *)
(* rule with a metric pays each line by the highest step it reaches.       *)
(***************************************************************************)
Own(rule, lines) == SelectSeq(lines, LAMBDA l : rule.product \in {"any", l.product})

QualityStepOf(steps, value) ==
  LET reached == {s \in steps : s.from <= value}
  IN  IF reached = {} THEN 0 ELSE (CHOOSE s \in reached : \A r \in reached : r.from <= s.from).amount

QualityAmount(rule, lines) ==
  RoundToDong(SumOver(Own(rule, lines),
                      LAMBDA l : IF l[rule.metric] = Unset THEN 0
                                 ELSE QualityStepOf(rule.steps, l[rule.metric]) * LineNetWeight(l)),
              100)

Applies(rule, lines, pickup) ==
  /\ rule.active
  /\ rule.pickup \in {"any", pickup}
  /\ rule.product # "any" => Own(rule, lines) # << >>
  /\ rule.minWeight # Unset => LinesWeight(Own(rule, lines)) >= rule.minWeight

RuleAmount(rule, lines, pickup) ==
  IF ~Applies(rule, lines, pickup) THEN 0
  ELSE IF rule.metric # "none" THEN QualityAmount(rule, lines)
  ELSE rule.fixed + RoundToDong(LinesTotal(Own(rule, lines)) * rule.percent, 100)

SuggestAdjustments(rules, lines, pickup) ==
  SelectSeq([i \in DOMAIN rules |-> RuleAmount(rules[i], lines, pickup)], LAMBDA a : a # 0)
=============================================================================

------------------------------ MODULE Insights ------------------------------
(***************************************************************************)
(* What the app tells its owner about a book (packages/core): profit by    *)
(* product and the latex degree against the factory's (analytics.ts), the  *)
(* progress of season contracts (seasonContracts.ts), the reminder of cash *)
(* paid to one seller (cashReminder.ts), and the receipts of the month     *)
(* that the free plan counts (receiptQuota.ts).                            *)
(*                                                                         *)
(* Every payment is in cash: one by transfer is left out of the reminder.  *)
(***************************************************************************)
EXTENDS Reports

CONSTANTS
  CashThreshold,            \* CASH_REMINDER_THRESHOLD
  FreeReceipts              \* FREE_RECEIPTS_PER_MONTH

(* The lines of one side and one product in a period.                       *)
LinesIn(txs, k, range, product) ==
  FoldLeft(LAMBDA lines, t : lines \o SelectSeq(t.lines, LAMBDA l : l.product = product),
           << >>, SelectSeq(OfKind(txs, k), LAMBDA t : WithinRange(t.date, range)))

AvgPrice(lines) ==
  IF LinesWeight(lines) > 0 THEN RoundToDong(100 * LinesTotal(lines), LinesWeight(lines)) ELSE Unset

(* Profit of what was sold, at the average cost; no profit without both.    *)
ProductAnalytics(txs, range, product) ==
  LET bought == LinesIn(txs, "purchase", range, product)
      sold   == LinesIn(txs, "sale", range, product)
      both   == AvgPrice(bought) # Unset /\ AvgPrice(sold) # Unset
  IN  [boughtQty |-> LinesWeight(bought), boughtAmount |-> LinesTotal(bought),
       avgBuyPrice |-> AvgPrice(bought),
       soldQty |-> LinesWeight(sold), soldAmount |-> LinesTotal(sold),
       avgSellPrice |-> AvgPrice(sold),
       profit |-> IF both
                  THEN {RoundToDong(LinesTotal(sold) * LinesWeight(bought)
                                      - LinesWeight(sold) * LinesTotal(bought),
                                    LinesWeight(bought))}
                  ELSE {}]

BuildAnalytics(txs, range, products) ==
  [p \in products |-> ProductAnalytics(txs, range, p)]

(***************************************************************************)
(* Latex: the dry weight over the fresh, in tenths of a percent, as bought *)
(* and as the factory found it, and by seller.                             *)
(***************************************************************************)
RubberSide(lines) ==
  LET own == SelectSeq(lines, LAMBDA l : l.formula = "rubberLatex")
      wet == SumOver(own, LinePhysicalWeight)
      dry == LinesWeight(own)
  IN  [wet |-> wet, dry |-> dry,
       avg |-> IF wet > 0 THEN RoundDiv(1000 * dry, wet) ELSE Unset]

RubberReconcile(txs, range, product) ==
  LET b == RubberSide(LinesIn(txs, "purchase", range, product))
      s == RubberSide(LinesIn(txs, "sale", range, product))
  IN  [bought |-> b, sold |-> s,
       gap |-> IF b.avg = Unset \/ s.avg = Unset THEN {}
               ELSE {RoundDiv(1000 * (b.dry * s.wet - s.dry * b.wet), b.wet * s.wet)}]

SellerRubber(txs, range, product) ==
  [id \in PartiesOf(OfKind(txs, "purchase")) |->
     RubberSide(LinesIn(SelectSeq(txs, LAMBDA t : t.counterpartyId = id),
                        "purchase", range, product))]

(***************************************************************************)
(* Season contracts: [kind, party, name, product, start, end, quantity,    *)
(* closed]; party is Unset when the contract knows the other side by name. *)
(***************************************************************************)
InPeriod(c, at) == c.start <= at /\ at < c.end + DayLength

MatchesParty(c, t) ==
  IF c.party # Unset THEN t.counterpartyId = c.party ELSE t.supplierName = c.name

MatchesProduct(c, t) == SelectSeq(t.lines, LAMBDA l : l.product = c.product)

Delivers(c, t) ==
  /\ c.kind = t.kind
  /\ InPeriod(c, t.date)
  /\ MatchesParty(c, t)
  /\ MatchesProduct(c, t) # << >>

ContractsForTransaction(contracts, t) == {c \in contracts : ~c.closed /\ Delivers(c, t)}

ContractProgress(txs, c) ==
  LET own       == SelectSeq(txs, LAMBDA t : Delivers(c, t))
      delivered == SumOver(own, LAMBDA t : LinesWeight(MatchesProduct(c, t)))
  IN  [delivered |-> delivered, remaining |-> NotBelowZero(c.quantity - delivered),
       percent |-> IF c.quantity > 0 THEN Min({RoundDiv(100 * delivered, c.quantity), 100})
                   ELSE 0,
       receiptCount |-> Len(own)]

(***************************************************************************)
(* The cash a seller got in a day, and the receipts of the month.          *)
(***************************************************************************)
CashPaidOnDay(txs, id, day) ==
  SumOver(SelectSeq(OfKind(txs, "purchase"), LAMBDA t : t.counterpartyId = id),
          LAMBDA t : SumOver(SelectSeq(t.payments,
                                       LAMBDA p : StartOfDay(p.date) = StartOfDay(day)),
                             LAMBDA p : p.amount))

NeedsCashReminder(txs, id, amount, now) ==
  /\ amount > 0
  /\ (IF id = Unset THEN 0 ELSE CashPaidOnDay(txs, id, now)) + amount >= CashThreshold

ReceiptsThisMonth(txs, now) ==
  Len(SelectSeq(txs, LAMBDA t : YearOf(t.date) = YearOf(now) /\ MonthOf(t.date) = MonthOf(now)))

QuotaFor(txs, now, premium) ==
  LET used == ReceiptsThisMonth(txs, now)
  IN  [used |-> used, blocked |-> ~premium /\ used >= FreeReceipts]
=============================================================================

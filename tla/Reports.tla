------------------------------ MODULE Reports -------------------------------
(***************************************************************************)
(* What the screens and the tax files read off a book (packages/core:      *)
(* selectors.ts, debtSelectors.ts, partySelectors.ts with the supplier and *)
(* buyer summaries, inventory.ts, filters.ts, taxPeriods.ts, taxReport.ts).*)
(* All are functions of the receipts txs (newest first) and the profiles.  *)
(*                                                                         *)
(* Time is counted in instants: DayLength of them make a day, MonthLength  *)
(* days a month, 12 months a year; instant 0 starts a year and a week.     *)
(***************************************************************************)
EXTENDS BookMath

CONSTANTS
  DayLength,                \* instants of a day
  MonthLength               \* days of a month

ASSUME CalendarAssumption ==
  /\ DayLength \in Nat \ {0}
  /\ MonthLength \in Nat \ {0}

StartOfDay(at) == at - (at % DayLength)
DaysAgo(now, n) == StartOfDay(now) - n * DayLength
WithinRange(at, range) == range.from <= at /\ at <= range.to

OfKind(txs, k) == SelectSeq(txs, LAMBDA t : t.kind = k)        \* purchases, sales

SpentOn(lines, product) ==
  SumOver(SelectSeq(lines, LAMBDA l : l.product = product), LineTotal)

(***************************************************************************)
(* Debts, by what identifies the other side: counterpartyId, whether or    *)
(* not a profile of that id is still there.                                *)
(***************************************************************************)
Outstanding(txs, k) == SumOver(OfKind(txs, k), Debt)

PartiesOf(txs) == {t.counterpartyId : t \in ToSet(txs)}

Unpaid(txs, k, id) ==
  SelectSeq(OfKind(txs, k), LAMBDA t : t.counterpartyId = id /\ Debt(t) > 0)

IsOverdue(t, now) ==
  t.creditTerms # {} /\ Debt(t) > 0 /\ StartOfDay(Min(t.creditTerms)) < StartOfDay(now)

DebtGroup(txs, k, id, now) ==
  LET unpaid == Unpaid(txs, k, id)
  IN  [partyId |-> id,
       debt    |-> SumOver(unpaid, Debt),
       overdue |-> \E t \in ToSet(unpaid) : IsOverdue(t, now),
       dueDate |-> LET dues == UNION {t.creditTerms : t \in ToSet(unpaid)}
                   IN  IF dues = {} THEN Unset ELSE Min(dues)]

DebtGroups(txs, k, now) ==
  {g \in {DebtGroup(txs, k, id, now) : id \in PartiesOf(OfKind(txs, k))} : g.debt > 0}

PartySummary(txs, profiles, k, id) ==
  LET own == SelectSeq(OfKind(txs, k), LAMBDA t : t.counterpartyId = id)
  IN  [id |-> id, txCount |-> Len(own), total |-> SumOver(own, TransactionTotal),
       debt |-> SumOver(own, Debt), hasProfile |-> \E p \in ToSet(profiles) : p.id = id]

PartySummaries(txs, profiles, k) ==
  {PartySummary(txs, profiles, k, id) :
     id \in {p.id : p \in ToSet(profiles)} \cup PartiesOf(OfKind(txs, k))}

(***************************************************************************)
(* The dashboard: what was spent since the start of a day, day by day, and *)
(* by product; the history screen's filters.                               *)
(***************************************************************************)
Since(txs, k, from) == SelectSeq(OfKind(txs, k), LAMBDA t : t.date >= from)

SummaryFor(txs, k, from) ==
  LET own == Since(txs, k, from)
  IN  [count |-> Len(own), weight |-> SumOver(own, LAMBDA t : LinesWeight(t.lines)),
       spent |-> SumOver(own, TransactionTotal)]

MoneyByProduct(txs, k, from, product) ==
  SumOver(Since(txs, k, from), LAMBDA t : SpentOn(t.lines, product))

DailySpend(txs, k, now, days) ==
  [i \in 0..(days - 1) |->
     LET start == DaysAgo(now, i)
     IN  SumOver(SelectSeq(OfKind(txs, k),
                           LAMBDA t : start <= t.date /\ t.date < start + DayLength),
                 TransactionTotal)]

FilterTransactions(txs, k, ranges, party, product, payment) ==
  SelectSeq(OfKind(txs, k),
            LAMBDA t : /\ \A range \in ranges : WithinRange(t.date, range)
                       /\ party \in {Unset, t.counterpartyId}
                       /\ product = "all" \/ \E l \in ToSet(t.lines) : l.product = product
                       /\ payment = "paid" => Debt(t) <= 0
                       /\ payment = "unpaid" => Debt(t) > 0)

(***************************************************************************)
(* Stock: bought less sold, in physical weight, and what it was bought at. *)
(***************************************************************************)
Weighed(txs, k, product) ==
  SumOver(OfKind(txs, k),
          LAMBDA t : SumOver(SelectSeq(t.lines, LAMBDA l : l.product = product),
                             LinePhysicalWeight))

Stock(txs, product) == Weighed(txs, "purchase", product) - Weighed(txs, "sale", product)

Spent(txs, product) == SumOver(OfKind(txs, "purchase"), LAMBDA t : SpentOn(t.lines, product))

AvgCostPerKg(txs, product) ==
  LET kg == Weighed(txs, "purchase", product)
  IN  IF kg > 0 THEN RoundToDong(100 * Spent(txs, product), kg) ELSE 0

StockValue(txs, product) ==
  RoundToDong(NotBelowZero(Stock(txs, product)) * AvgCostPerKg(txs, product), 100)

(***************************************************************************)
(* The periods of the tax report, the report and the ledger.               *)
(***************************************************************************)
StartOf(year, month) == (12 * year + month) * MonthLength * DayLength

(* Slip: the period ends when its last day begins. *)
EndOfAtMidnight(year, month) == StartOf(year, month + 1) - DayLength

EndOf(year, month) == StartOf(year, month + 1) - DayLength + (DayLength - 1)

MonthRange(year, month) == [from |-> StartOf(year, month), to |-> EndOf(year, month)]
QuarterRange(year, quarter) ==
  [from |-> StartOf(year, 3 * quarter), to |-> EndOf(year, 3 * quarter + 2)]
YearRange(year) == [from |-> StartOf(year, 0), to |-> EndOf(year, 11)]

YearOf(at)  == at \div StartOf(1, 0)
MonthOf(at) == (at \div StartOf(0, 1)) % 12

CurrentRange(kind, now) ==
  CASE kind = "year"    -> YearRange(YearOf(now))
    [] kind = "quarter" -> QuarterRange(YearOf(now), MonthOf(now) \div 3)
    [] OTHER            -> MonthRange(YearOf(now), MonthOf(now))

PreviousRange(kind, now) ==
  LET year == YearOf(now)
      month == MonthOf(now)
      quarter == month \div 3
  IN  CASE kind = "year"    -> YearRange(year - 1)
        [] kind = "quarter" -> IF quarter = 0 THEN QuarterRange(year - 1, 3)
                               ELSE QuarterRange(year, quarter - 1)
        [] OTHER            -> IF month = 0 THEN MonthRange(year - 1, 11)
                               ELSE MonthRange(year, month - 1)

(* The history screen's period, up to the end of today; none for "all".     *)
PeriodRange(period, now) ==
  LET today == StartOfDay(now)
      start == CASE period = "day"   -> today
                 [] period = "week"  -> today - ((today \div DayLength) % 7) * DayLength
                 [] period = "month" -> StartOf(YearOf(now), MonthOf(now))
                 [] OTHER            -> StartOf(YearOf(now), 0)
  IN  IF period = "all" THEN {} ELSE {[from |-> start, to |-> today + DayLength - 1]}

TaxTotal(txs, k, range) ==
  SumOver(SelectSeq(txs, LAMBDA t : WithinRange(t.date, range) /\ t.kind = k),
          TransactionTotal)

LedgerRows(t) ==
  [i \in DOMAIN t.lines |-> LineTotal(t.lines[i])]
    \o (IF TotalAdjustments(t.adjustments) # 0 THEN <<TotalAdjustments(t.adjustments)>>
        ELSE << >>)

BuildLedger(txs, k, range) ==
  LET own == SelectSeq(txs, LAMBDA t : t.kind = k /\ WithinRange(t.date, range))
  IN  FoldLeft(LAMBDA rows, t : rows \o LedgerRows(t), << >>, Reverse(own))
=============================================================================

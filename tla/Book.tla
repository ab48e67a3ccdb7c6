-------------------------------- MODULE Book --------------------------------
(***************************************************************************)
(* The book as the app keeps it (packages/core): every change is a pure    *)
(* function from a book to a book, here an operator on the record book:    *)
(* parties by kind (suppliers under "purchase", buyers under "sale"),      *)
(* receipts newest first, drafts, the last price of each product, and      *)
(* born, the number of ids given out so far (newId never repeats).         *)
(*                                                                         *)
(* The app that calls these functions is not in the repository: what a     *)
(* form may hold is the constant Forms, and connected is the keepApart set *)
(* the app passes, the profiles linked with an account of their own.       *)
(***************************************************************************)
EXTENDS Insights, SheetImport, Records

CONSTANTS
  Names,                    \* names a party can be typed under
  Forms,                    \* [kind, lines, paid, adjustments, date, creditTerms]
  Sheets,                   \* files to import (module SheetImport)
  Amounts,                  \* amounts typed when a payment is recorded
  Products,                 \* the products of the book
  Rules,                    \* the pricing rules, a sequence
  Contracts,                \* the season contracts
  Saved,                    \* books an earlier version may have left on the device
  Instants,                 \* when the app is used
  MaxIds,                   \* bound: ids given out
  Week                      \* days of the weekly summary

Guest  == 0                 \* GUEST_SUPPLIER_ID, GUEST_BUYER_ID
WalkIn == "walk-in"
Kinds  == {"purchase", "sale"}

VARIABLES
  book,
  connected,                \* profiles linked with an account of their own
  now,
  picked,                   \* history: receipts whose party was not typed in the form
  rough                     \* history: receipts read from a row that is not of the wire's shape

bookVars == <<book, connected, now, picked, rough>>

(***************************************************************************)
(* Reading a book back: normalizeTransaction rebuilds what an older        *)
(* version did not write, and only that.                                   *)
(***************************************************************************)
Field(raw, f, default) == IF f \in DOMAIN raw THEN raw[f] ELSE default

SumPayments(payments) == SumOver(payments, LAMBDA p : p.amount)

FormPayments(paid, date, id) ==
  IF paid > 0 THEN <<[id |-> id, date |-> date, amount |-> paid]>> ELSE << >>

NormalizePayments(raw) ==
  IF "payments" \in DOMAIN raw THEN raw.payments
  ELSE FormPayments(Field(raw, "amountPaid", 0), raw.date, raw.id)

OneLine(raw) ==             \* version 1: one line, the tare in percent
  [product |-> raw.product, formula |-> "netAfterTare", gross |-> raw.gross,
   tare |-> RoundDiv(raw.gross * raw.deduction, 100), quality |-> Unset, loss |-> Unset,
   price |-> raw.price, total |-> Unset]

NormalizeLines(raw) ==
  LET lines == Field(raw, "lines", <<raw>>)
  IN  [i \in DOMAIN lines |->
         FreezeLineTotals(IF "lines" \in DOMAIN raw THEN lines[i] ELSE OneLine(raw))]

NormalizeTransaction(raw) ==
  [id             |-> raw.id,
   date           |-> raw.date,
   kind           |-> Field(raw, "kind", "purchase"),
   counterpartyId |-> Field(raw, "counterpartyId", Field(raw, "supplierId", Guest)),
   supplierName   |-> raw.supplierName,
   lines          |-> NormalizeLines(raw),
   payments       |-> NormalizePayments(raw),
   amountPaid     |-> SumPayments(NormalizePayments(raw)),
   adjustments    |-> Field(raw, "adjustments", << >>),
   creditTerms    |-> Field(raw, "creditTerms", {})]

Normalize(raw) ==
  [raw EXCEPT !.receipts = [i \in DOMAIN raw.receipts |->
                              NormalizeTransaction(raw.receipts[i])]]

(***************************************************************************)
(* A party typed by name is one already known under that name, unless the  *)
(* user asked for a new one or the one known is to be kept apart.          *)
(***************************************************************************)
(* Slip: keepApart is not looked at. *)
ReusableByName(profiles, name, match) ==
  IF match.asNew THEN << >> ELSE SelectSeq(profiles, LAMBDA p : p.name = name)

Reusable(profiles, name, match) ==
  IF match.asNew THEN << >>
  ELSE SelectSeq(profiles, LAMBDA p : p.name = name /\ p.id \notin match.keepApart)

AddParty(b, k, name, match) ==
  LET known == Reusable(b.parties[k], name, match)
      new   == [id |-> b.born + 1, name |-> name]
  IN  IF known # << >> THEN [book |-> b, party |-> known[1]]
      ELSE [book  |-> [b EXCEPT !.parties[k] = Append(@, new), !.born = @ + 1],
            party |-> new]

ResolveParty(b, k, id, name, match) ==
  LET named == SelectSeq(b.parties[k], LAMBDA p : p.id = id)
  IN  IF id # Guest
      THEN [book |-> b, party |-> IF named # << >> THEN named[1] ELSE [id |-> id, name |-> name]]
      ELSE IF name = WalkIn THEN [book |-> b, party |-> [id |-> Guest, name |-> WalkIn]]
      ELSE AddParty(b, k, name, match)

RememberPrices(prices, lines) ==
  [p \in DOMAIN prices |->
     LET own == SelectSeq(lines, LAMBDA l : l.product = p)
     IN  IF own = << >> THEN prices[p] ELSE Last(own).price]

(* addTransaction: the party, the lines frozen, the money typed as a payment. *)
AddTransaction(b, form, id, name, match) ==
  LET found    == ResolveParty(b, form.kind, id, name, match)
      payments == FormPayments(form.paid, form.date, found.book.born + 2)
      lines    == [i \in DOMAIN form.lines |-> FreezeLineTotals(form.lines[i])]
      receipt  == [id |-> found.book.born + 1, date |-> form.date, kind |-> form.kind,
                   counterpartyId |-> found.party.id, supplierName |-> found.party.name,
                   lines |-> lines, payments |-> payments,
                   amountPaid |-> SumPayments(payments),
                   adjustments |-> form.adjustments, creditTerms |-> form.creditTerms]
  IN  [found.book EXCEPT !.receipts = <<receipt>> \o @,
                         !.prices   = RememberPrices(@, lines),
                         !.born     = @ + 1 + Len(payments)]

Typed(asNew) == [asNew |-> asNew, keepApart |-> connected]
AsBefore     == [asNew |-> FALSE, keepApart |-> {}]         \* no match passed

Receipt(id)  == CHOOSE t \in ToSet(book.receipts) : t.id = id
ReceiptIds   == {t.id : t \in ToSet(book.receipts)}
ProfileIds(k) == {p.id : p \in ToSet(book.parties[k])}
WithReceipt(t) ==
  [book EXCEPT !.receipts = [i \in DOMAIN @ |-> IF @[i].id = t.id THEN t ELSE @[i]]]

-----------------------------------------------------------------------------
BookInit ==
  /\ book \in {Normalize(raw) : raw \in Saved}
  /\ connected = {}
  /\ now = Min(Instants)
  /\ picked = {} /\ rough = {}

Kept(newBook) == newBook.born <= MaxIds /\ book' = newBook

(* A receipt from the form: a profile picked, or a name typed. *)
AddReceipt(form, id, name, asNew) ==
  /\ Kept(AddTransaction(book, form, id, name, Typed(asNew)))
  /\ picked' = IF id = Guest THEN picked ELSE picked \cup {Head(book'.receipts).id}
  /\ UNCHANGED <<connected, now, rough>>

ReadFiles == [kind \in {"suppliers", "receipts"} |-> [sheet \in Sheets |-> Parse(kind, sheet)]]

(* A file: one receipt a row, each on the book the row before it left; or   *)
(* one supplier a row.  A file that is refused leaves the book as it is.     *)
(* What a row says is taken as it is: no limit of a receipt is looked at,    *)
(* and what was paid may be no whole dong.                                   *)
ReceiptsImported(b, items) ==
  FoldLeft(LAMBDA c, item : AddTransaction(c, FormFrom(item), Guest, item.partyName, Typed(FALSE)),
           b, items)

SuppliersImported(b, items) ==
  FoldLeft(LAMBDA c, item : AddParty(c, "purchase", item.name, Typed(FALSE)).book, b, items)

RowFits(item) == TransactionLine(LineFrom(item)) /\ NonNegativeMoney(item.amountPaid)

ImportReceipts(sheet) ==
  LET parsed == ReadFiles["receipts"][sheet]
      count  == Len(parsed.items)
  IN  /\ parsed.ok
      /\ Kept(ReceiptsImported(book, parsed.items))
      /\ rough' = rough \cup {book'.receipts[count + 1 - i].id :
                               i \in {j \in 1..count : ~RowFits(parsed.items[j])}}
      /\ UNCHANGED <<connected, now, picked>>

ImportSuppliers(sheet) ==
  LET parsed == ReadFiles["suppliers"][sheet]
  IN  /\ parsed.ok
      /\ Kept(SuppliersImported(book, parsed.items))
      /\ UNCHANGED <<connected, now, picked, rough>>

(* Slip: the amount typed is taken as it is. *)
RecordAnyPayment(id, amount) ==
  LET t        == Receipt(id)
      payments == Append(t.payments, [id |-> book.born + 1, date |-> now, amount |-> amount])
  IN  /\ amount > 0
      /\ Kept([WithReceipt([t EXCEPT !.payments = payments,
                                     !.amountPaid = SumPayments(payments)])
               EXCEPT !.born = @ + 1])
      /\ UNCHANGED <<connected, now, picked, rough>>

RecordPayment(id, amount) ==
  LET t         == Receipt(id)
      remaining == NotBelowZero(TransactionTotal(t) - t.amountPaid)
      actual    == Min({NotBelowZero(amount), remaining})
      payments  == Append(t.payments, [id |-> book.born + 1, date |-> now, amount |-> actual])
  IN  /\ actual > 0
      /\ Kept([WithReceipt([t EXCEPT !.payments = payments,
                                     !.amountPaid = SumPayments(payments)])
               EXCEPT !.born = @ + 1])
      /\ UNCHANGED <<connected, now, picked, rough>>

RemovePayment(id, paymentId) ==
  LET t        == Receipt(id)
      payments == SelectSeq(t.payments, LAMBDA p : p.id # paymentId)
  IN  /\ Kept(WithReceipt([t EXCEPT !.payments = payments,
                                    !.amountPaid = SumPayments(payments)]))
      /\ UNCHANGED <<connected, now, picked, rough>>

DeleteReceipt(id) ==
  /\ Kept([book EXCEPT !.receipts = SelectSeq(@, LAMBDA t : t.id # id)])
  /\ UNCHANGED <<connected, now, picked, rough>>

SaveParty(k, name, asNew) ==
  /\ Kept(AddParty(book, k, name, Typed(asNew)).book)
  /\ UNCHANGED <<connected, now, picked, rough>>

RenameParty(k, id, name) ==
  /\ Kept([book EXCEPT !.parties[k] = [i \in DOMAIN @ |->
                                         IF @[i].id = id THEN [@[i] EXCEPT !.name = name]
                                         ELSE @[i]]])
  /\ UNCHANGED <<connected, now, picked, rough>>

DeleteParty(k, id) ==
  /\ Kept([book EXCEPT !.parties[k] = SelectSeq(@, LAMBDA p : p.id # id)])
  /\ UNCHANGED <<connected, now, picked, rough>>

(* The weighing in progress, kept as typed. *)
UpsertDraft(form, id, name) ==
  /\ Kept([book EXCEPT !.drafts = <<[id |-> book.born + 1, form |-> form, party |-> id,
                                     name |-> name]>> \o @,
                       !.born   = @ + 1])
  /\ UNCHANGED <<connected, now, picked, rough>>

EditDraft(d, form) ==
  /\ Kept([book EXCEPT !.drafts[d].form = form])
  /\ UNCHANGED <<connected, now, picked, rough>>

IsComplete(l) ==
  /\ l.gross > 0
  /\ l.price > 0
  /\ l.formula = "rubberLatex" => l.quality > 0

WithoutDraft(b, id) == [b EXCEPT !.drafts = SelectSeq(@, LAMBDA d : d.id # id)]

CompleteDraft(d) ==
  LET draft == book.drafts[d]
      lines == SelectSeq(draft.form.lines, IsComplete)
  IN  /\ lines # << >>
      /\ Kept(WithoutDraft(AddTransaction(book, [draft.form EXCEPT !.lines = lines,
                                                                   !.date = now,
                                                                   !.creditTerms = {}],
                                          draft.party, draft.name, AsBefore),
                           draft.id))
      /\ picked' = picked \cup {Head(book'.receipts).id}
      /\ UNCHANGED <<connected, now, rough>>

DeleteDraft(d) ==
  /\ Kept(WithoutDraft(book, book.drafts[d].id))
  /\ UNCHANGED <<connected, now, picked, rough>>

(* A link of the partner is accepted: from now on the app keeps it apart. *)
Connect(id) ==
  /\ connected' = connected \cup {id}
  /\ UNCHANGED <<book, now, picked, rough>>

Later ==
  /\ now' = Min({i \in Instants : i > now})
  /\ UNCHANGED <<book, connected, picked, rough>>

(* Those that make a record need an id left for it.                        *)
BookNext ==
  \/ /\ book.born < MaxIds
     /\ \/ \E form \in Forms :
             \/ \E name \in Names \cup {WalkIn}, asNew \in BOOLEAN :
                  AddReceipt(form, Guest, name, asNew)
             \/ \E id \in ProfileIds(form.kind) : AddReceipt(form, id, WalkIn, FALSE)
             \/ \E name \in Names : UpsertDraft(form, Guest, name)
        \/ \E sheet \in Sheets : ImportReceipts(sheet)
        \/ \E id \in ReceiptIds, amount \in Amounts : RecordPayment(id, amount)
        \/ \E d \in DOMAIN book.drafts : CompleteDraft(d)
  \/ \E form \in Forms, d \in DOMAIN book.drafts : EditDraft(d, form)
  \/ \E sheet \in Sheets : ImportSuppliers(sheet)
  \/ \E id \in ReceiptIds :
       \/ \E p \in ToSet(Receipt(id).payments) : RemovePayment(id, p.id)
       \/ DeleteReceipt(id)
  \/ \E k \in Kinds :
       \/ \E name \in Names, asNew \in BOOLEAN : SaveParty(k, name, asNew)
       \/ \E id \in ProfileIds(k) :
            \/ \E name \in Names : RenameParty(k, id, name)
            \/ DeleteParty(k, id)
            \/ Connect(id)
  \/ \E d \in DOMAIN book.drafts : DeleteDraft(d)
  \/ now < Max(Instants) /\ Later

BookSpec == BookInit /\ [][BookNext]_bookVars

-----------------------------------------------------------------------------
(* What is paid on a receipt is the sum of its payments, and a payment      *)
(* recorded later never takes it above the total (recordPayment's cap,      *)
(* removePayment, normalizeTransaction).  The amount typed, or read from a  *)
(* file, when the receipt is made has no cap (receiptActions.ts:43): a      *)
(* receipt may be overpaid by that one payment.                             *)
PaidAsRecorded ==
  \A t \in ToSet(book.receipts) :
    /\ t.amountPaid = SumPayments(t.payments)
    /\ t.amountPaid > NotBelowZero(TransactionTotal(t)) => Len(t.payments) = 1

(* Reading the book back changes nothing, whatever was done to it since:    *)
(* normalizeTransaction fills in only what an older version left out.       *)
ReadBackUnchanged == Normalize(book) = book

(* The debts of a side are the same money on every screen: the total, the   *)
(* groups of the debt screen and the rows of the partner screen add up,     *)
(* with the walk-ins and with partners whose profile is gone.               *)
DebtsAddUp ==
  \A k \in Kinds :
    /\ Outstanding(book.receipts, k)
         = MapThenSumSet(LAMBDA g : g.debt, DebtGroups(book.receipts, k, now))
    /\ Outstanding(book.receipts, k)
         = MapThenSumSet(LAMBDA s : s.debt,
                         PartySummaries(book.receipts, book.parties[k], k))

(* The year is its months and its quarters, no receipt counted twice or     *)
(* left out, and the ledger handed to the tax office adds up to the report. *)
TaxAddsUp ==
  \A k \in Kinds :
    LET year == TaxTotal(book.receipts, k, YearRange(0))
    IN  /\ year = MapThenSumSet(LAMBDA m : TaxTotal(book.receipts, k, MonthRange(0, m)), 0..11)
        /\ year = MapThenSumSet(LAMBDA q : TaxTotal(book.receipts, k, QuarterRange(0, q)), 0..3)
        /\ year = SumOver(BuildLedger(book.receipts, k, YearRange(0)), LAMBDA row : row)

(* The stock of a product is never valued above what was paid for all of it *)
(* (but for the rounding of the average cost): inventoryValues divides by   *)
(* the physical weight, the measure of the stock itself.                    *)
StockWorthWhatWasPaid ==
  \A p \in Products :
    200 * (StockValue(book.receipts, p) - Spent(book.receipts, p))
      <= DONG * (Weighed(book.receipts, "purchase", p) + 100)

(* The days of the week's chart add up to the week's summary (but for what  *)
(* is dated after today, which only the summary counts); its products and   *)
(* its adjustments too; paid and unpaid receipts are all of them.           *)
ScreensAgree ==
  \A k \in Kinds :
    LET week    == Since(book.receipts, k, DaysAgo(now, Week - 1))
        summary == SummaryFor(book.receipts, k, DaysAgo(now, Week - 1))
        ahead   == Since(book.receipts, k, StartOfDay(now) + DayLength)
        days    == DailySpend(book.receipts, k, now, Week)
        shown(payment) == Len(FilterTransactions(book.receipts, k, PeriodRange("all", now), Unset, "all",
                                                 payment))
    IN  /\ summary.spent = SumOver(ahead, TransactionTotal)
                             + MapThenSumSet(LAMBDA i : days[i], DOMAIN days)
        /\ summary.spent = SumOver(week, LAMBDA t : TotalAdjustments(t.adjustments))
                             + MapThenSumSet(LAMBDA p : MoneyByProduct(book.receipts, k,
                                                          DaysAgo(now, Week - 1), p), Products)
        /\ shown("all") = shown("paid") + shown("unpaid")

(* A period is one period wherever it is computed: the month so far of the  *)
(* history screen and what is dated later make the month of the tax report, *)
(* the free plan counts the receipts of that same month, and the period     *)
(* before ends where the current one begins.                                *)
PeriodsAgree ==
  LET month    == CurrentRange("month", now)
      shown(k) == FilterTransactions(book.receipts, k, PeriodRange("month", now), Unset, "all",
                                     "all")
      later    == SelectSeq(Since(book.receipts, "purchase", StartOfDay(now) + DayLength)
                              \o Since(book.receipts, "sale", StartOfDay(now) + DayLength),
                            LAMBDA t : WithinRange(t.date, month))
  IN  /\ \A k \in Kinds :
           TaxTotal(book.receipts, k, month)
             = SumOver(shown(k), TransactionTotal) + SumOver(OfKind(later, k), TransactionTotal)
      /\ QuotaFor(book.receipts, now, FALSE).used
           = Len(shown("purchase")) + Len(shown("sale")) + Len(later)
      /\ \A kind \in {"month", "quarter", "year"} :
           PreviousRange(kind, now).to + 1 = CurrentRange(kind, now).from

(* The analysis by product accounts for every dong of the tax report that   *)
(* is not an adjustment; the degree of latex bought is an average of the    *)
(* sellers' degrees, weighted: between the lowest and the highest.          *)
AnalysisAgrees ==
  \A range \in {CurrentRange("month", now), YearRange(0)} :
    LET analysis == BuildAnalytics(book.receipts, range, Products)
        adjusted(k) == SumOver(SelectSeq(OfKind(book.receipts, k),
                                         LAMBDA t : WithinRange(t.date, range)),
                               LAMBDA t : TotalAdjustments(t.adjustments))
    IN  /\ TaxTotal(book.receipts, "purchase", range)
             = MapThenSumSet(LAMBDA p : analysis[p].boughtAmount, Products) + adjusted("purchase")
        /\ TaxTotal(book.receipts, "sale", range)
             = MapThenSumSet(LAMBDA p : analysis[p].soldAmount, Products) + adjusted("sale")
        /\ \A p \in Products :
             LET rubber  == RubberReconcile(book.receipts, range, p)
                 sellers == SellerRubber(book.receipts, range, p)
                 degrees == {sellers[id].avg : id \in DOMAIN sellers} \ {Unset}
             IN  /\ rubber.bought.avg # Unset =>
                      Min(degrees) <= rubber.bought.avg /\ rubber.bought.avg <= Max(degrees)
                 /\ \A gap \in rubber.gap :
                      gap - (rubber.bought.avg - rubber.sold.avg) \in -1..1

(* A contract for a whole month is fulfilled by what the history screen     *)
(* shows of its party and product in that month, its last day included, and *)
(* by the receipts that name it.                                            *)
DeliveriesAgree ==
  \A c \in Contracts :
    LET month    == MonthRange(YearOf(c.start), MonthOf(c.start))
        progress == ContractProgress(book.receipts, c)
        shown    == FilterTransactions(book.receipts, c.kind, {month}, c.party, c.product, "all")
        own      == SelectSeq(shown, LAMBDA t : c.party # Unset \/ t.supplierName = c.name)
    IN  /\ c.start = month.from /\ c.end = StartOfDay(month.to) =>
             /\ progress.receiptCount = Len(own)
             /\ progress.delivered = SumOver(own, LAMBDA t : SumOver(MatchesProduct(c, t),
                                                                    LineNetWeight))
        /\ ~c.closed =>
             progress.receiptCount
               = Len(SelectSeq(book.receipts,
                               LAMBDA t : c \in ContractsForTransaction(Contracts, t)))
        /\ progress.remaining = 0 => progress.percent = 100

(* The cash a seller got, day by day, is what his receipts say was paid     *)
(* him, so that no payment escapes the reminder of its day; and in a day    *)
(* that reaches the threshold the payment saved last was reminded of,       *)
(* whichever of the day's payments it was.                                  *)
CashReminded ==
  LET bought(id) == SelectSeq(OfKind(book.receipts, "purchase"), LAMBDA t : t.counterpartyId = id)
      days       == {StartOfDay(p.date) :
                       p \in UNION {ToSet(t.payments) : t \in ToSet(book.receipts)}}
      without(t, p) == [t EXCEPT !.payments = SelectSeq(@, LAMBDA q : q.id # p.id)]
      before(t, p)  == [i \in DOMAIN book.receipts |->
                          IF book.receipts[i] = t THEN without(t, p) ELSE book.receipts[i]]
  IN  \A id \in PartiesOf(book.receipts) :
        /\ MapThenSumSet(LAMBDA day : CashPaidOnDay(book.receipts, id, day), days)
             = SumOver(bought(id), LAMBDA t : t.amountPaid)
        /\ \A t \in ToSet(bought(id)) : \A p \in ToSet(t.payments) :
             CashPaidOnDay(book.receipts, id, p.date) >= CashThreshold
               => NeedsCashReminder(before(t, p), id, p.amount, p.date)

(* A rule of one product reads that product's lines only: what else is on   *)
(* the receipt neither reaches its threshold nor is paid by it.             *)
RuleReadsItsProduct ==
  \A t \in ToSet(book.receipts), rule \in ToSet(Rules) :
    RuleAmount(rule, t.lines, "pickup")
      = RuleAmount(rule, Own(rule, t.lines), "pickup")

(* A file of receipts that is taken, is taken to the dong: what it adds to   *)
(* the purchases, and to what is paid, is what its rows say, and what was    *)
(* there stays; a seller of several rows is one profile, and a file of       *)
(* sellers read after it adds none of them again (importReceipts,            *)
(* importSuppliers).                                                         *)
ImportedWhole(items) ==
  LET after == ReceiptsImported(book, items)
      added == SubSeq(after.receipts, 1, Len(items))
      names == {item.partyName : item \in ToSet(items)}
  IN  /\ after.receipts = added \o book.receipts
      /\ SumOver(added, LAMBDA t : LinesTotal(t.lines))
           = SumOver(items, LAMBDA i : RoundToThousand(i.grossWeight * i.pricePerUnit, 100))
      /\ SumOver(added, LAMBDA t : t.amountPaid) = SumOver(items, LAMBDA i : i.amountPaid)
      /\ Len(after.parties["purchase"]) - Len(book.parties["purchase"]) <= Cardinality(names)
      /\ SuppliersImported(after, SetToSeq({[name |-> m] : m \in names})) = after

(* Every file is read in whole, or refused with its wrong rows named.       *)
FilesReadWhole ==
  \A sheet \in Sheets :
    /\ DaysKept(sheet)
    /\ \A kind \in {"suppliers", "receipts"} : RowsNamedAsInExcel(kind, sheet)

(* What was typed within the limits that the app keeps its inputs to        *)
(* (sync-records.ts:38), completed from a draft or read back is of the      *)
(* shape the push takes, the lines computed as it computes them, and so are *)
(* the payments recorded on it since: none is refused and blocks the queue. *)
(* Only a receipt read from a file may not be: when its row had a weight or *)
(* a price beyond the limits, or a sum paid that is no whole dong, which    *)
(* importReceipts takes; the receipts of all other rows are.                *)
FitsTheWire ==
  /\ \A t \in ToSet(book.receipts) :
       t.id \notin rough =>
         TransactionInsert(t) /\ \A p \in ToSet(t.payments) : PaymentInsert(p)
  /\ \A d \in ToSet(book.drafts) : DraftInsert(d)
  /\ \A k \in Kinds : \A p \in ToSet(book.parties[k]) : PartyInsert(p)

RulesFitTheWire ==
  /\ \A rule \in ToSet(Rules) : PricingRuleInsert(rule)
  /\ \A c \in Contracts : SeasonContractInsert(c) /\ PeriodChecked(c, 0..7)

(* A receipt is its payments, and is the same when read back; a file is     *)
(* imported in whole or not at all, into a book that has something to lose; *)
(* and every record fits the wire, but for what a file brought that did not.*)
BookSound ==
  /\ PaidAsRecorded
  /\ ReadBackUnchanged
  /\ FilesReadWhole
  /\ RulesFitTheWire
  /\ FitsTheWire
  /\ book.born > 0 =>
       \A sheet \in Sheets :
         LET parsed == ReadFiles["receipts"][sheet] IN parsed.ok => ImportedWhole(parsed.items)

(* One book, one figure: every screen, report and file that shows an amount *)
(* of the book shows the same one (packages/core, computed in eleven        *)
(* files).  An empty book shows none.                                       *)
FiguresAgree ==
  book.receipts # << >> =>
    /\ DebtsAddUp
    /\ TaxAddsUp
    /\ StockWorthWhatWasPaid
    /\ ScreensAgree
    /\ PeriodsAgree
    /\ AnalysisAgrees
    /\ DeliveriesAgree
    /\ CashReminded
    /\ RuleReadsItsProduct

(* A name typed in a form or found in a file never lands on a profile that  *)
(* is linked with its own account: that account would see a stranger's      *)
(* receipts as its own.  (A draft's name is typed before and resolved with  *)
(* no keepApart: completeDraft is the exception.)                           *)
LinkedKeptApart ==
  [][\A t \in ToSet(book'.receipts) :
       t.id \notin ReceiptIds /\ t.counterpartyId \in connected => t.id \in picked']_bookVars
=============================================================================

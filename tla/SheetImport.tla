----------------------------- MODULE SheetImport ----------------------------
(***************************************************************************)
(* A spreadsheet read into rows of the book (packages/core:                *)
(* sheetImport.ts, importActions.ts), for the trader who brings his old    *)
(* notebooks: the whole file is read, or none of it and every wrong row is *)
(* named by its number in Excel.                                           *)
(*                                                                         *)
(* A cell is what the readers make of it: name, its trimmed and folded     *)
(* text; number, what parseNumber reads in it (0 in words) in the unit of  *)
(* its column (a sum of money may be no whole dong), and zeros, whether it is written with zeros only; day, the  *)
(* days it may be read as, one or none; instant, the same of the free      *)
(* formats that new Date takes.                                            *)
(***************************************************************************)
EXTENDS Reports

Cell(is, name, number, zeros, day, instant) ==
  [is |-> is, name |-> name, number |-> number, zeros |-> zeros, day |-> day,
   instant |-> instant]

Blank          == Cell("text", "", 0, FALSE, {}, {})
Word(name)     == Cell("text", name, 0, FALSE, {}, {})
Number(name, n) == Cell("number", name, n, FALSE, {}, {})
Figure(name, n) == Cell("text", name, n, n = 0, {}, {})     \* a number typed as text
Date(name, d)  == Cell("date", name, 0, FALSE, {d}, {})
DayText(name, d) == Cell("text", name, d, FALSE, {d}, {})   \* 1/8/2026, 2026-08-01
FreeText(name, at) == Cell("text", name, 0, FALSE, {}, {at})

(***************************************************************************)
(* The columns, by the headings accepted for each (folded).                *)
(***************************************************************************)
SUPPLIER_COLUMNS ==
  [name |-> {"ten nong ho", "ten", "ho ten", "ten nguoi ban", "nguoi ban"}]

RECEIPT_COLUMNS ==
  [date         |-> {"ngay", "ngay mua", "ngay can"},
   partyName    |-> {"ten nong ho", "ten", "nguoi ban", "ten nguoi ban"},
   productName  |-> {"mat hang", "san pham", "hang"},
   unit         |-> {"don vi"},
   grossWeight  |-> {"so luong", "can duoc", "khoi luong", "so kg"},
   pricePerUnit |-> {"don gia", "gia"},
   amountPaid   |-> {"da tra", "so tien da tra", "tra truoc"}]

Columns(kind) == IF kind = "suppliers" THEN SUPPLIER_COLUMNS ELSE RECEIPT_COLUMNS

REQUIRED(kind) ==
  IF kind = "suppliers" THEN {"name"}
  ELSE {"date", "partyName", "productName", "grossWeight", "pricePerUnit"}

MapColumns(header, kind) ==
  [f \in DOMAIN Columns(kind) |-> {i \in DOMAIN header : header[i].name \in Columns(kind)[f]}]

CellAt(row, cols, f) ==
  IF f \in DOMAIN cols /\ cols[f] # {} /\ Min(cols[f]) \in DOMAIN row THEN row[Min(cols[f])] ELSE Blank

IsBlankRow(row) == \A i \in DOMAIN row : row[i].name = ""

(***************************************************************************)
(* Cells: a date is one instant or none, a number likewise.                *)
(***************************************************************************)
AtNoon(day) == day * DayLength + DayLength \div 2

ReadDate(cell) ==
  IF cell.is = "number" /\ cell.number > 0 THEN {AtNoon(cell.number)}
  ELSE IF cell.day # {} THEN {AtNoon(d) : d \in cell.day}
  ELSE cell.instant

ReadNumber(cell) ==
  IF cell.name = "" THEN {0}
  ELSE IF cell.is # "number" /\ cell.number = 0 /\ ~cell.zeros THEN {}
  ELSE {n \in {cell.number} : n >= 0}

(***************************************************************************)
(* A row is read, or what is wrong with it is said, cell by cell.          *)
(***************************************************************************)
Wrong(code, f) == [code |-> code, column |-> f]

RowErrors(kind, row, cols) ==
  LET missing(f) == CellAt(row, cols, f).name = ""
      numbers == {"grossWeight", "pricePerUnit", "amountPaid"}
  IN  IF kind = "suppliers"
      THEN {Wrong("missingName", f) : f \in {g \in {"name"} : missing(g)}}
      ELSE {Wrong("badDate", f) : f \in {g \in {"date"} : ReadDate(CellAt(row, cols, g)) = {}}}
             \cup {Wrong("missingName", f) : f \in {g \in {"partyName"} : missing(g)}}
             \cup {Wrong("missingProduct", f) : f \in {g \in {"productName"} : missing(g)}}
             \cup {Wrong("badNumber", f) :
                     f \in {g \in numbers : ReadNumber(CellAt(row, cols, g)) = {}}}

ReadRow(kind, row, cols) ==
  LET named(f) == CellAt(row, cols, f).name
      number(f) == CHOOSE n \in ReadNumber(CellAt(row, cols, f)) : TRUE
  IN  IF kind = "suppliers" THEN [name |-> named("name")]
      ELSE [date |-> CHOOSE d \in ReadDate(CellAt(row, cols, "date")) : TRUE,
            partyName |-> named("partyName"), productName |-> named("productName"),
            unit |-> IF named("unit") = "" THEN "kg" ELSE named("unit"),
            grossWeight |-> number("grossWeight"), pricePerUnit |-> number("pricePerUnit"),
            amountPaid |-> number("amountPaid")]

Refused(errors) == [ok |-> FALSE, errors |-> errors, items |-> << >>]

EmptyFile == Refused({[row |-> 1, code |-> "emptyFile", column |-> "none"]})

(* The rows of a file that are not blank, by their numbers in Excel.       *)
FilledRows(sheet) == {i \in 2..Len(sheet) : ~IsBlankRow(sheet[i])}

(* run: parseSuppliers, parseReceipts. *)
Parse(kind, sheet) ==
  IF Len(sheet) < 2 THEN EmptyFile
  ELSE LET cols    == MapColumns(sheet[1], kind)
           missing == {f \in REQUIRED(kind) : cols[f] = {}}
           filled  == SetToSortSeq(FilledRows(sheet), <)
           errors  == {[row |-> i, code |-> w.code, column |-> w.column] :
                         <<i, w>> \in UNION {{i} \X RowErrors(kind, sheet[i], cols) :
                                             i \in FilledRows(sheet)}}
       IN  IF missing # {}
           THEN Refused({[row |-> 1, code |-> "missingColumn", column |-> f] : f \in missing})
           ELSE IF errors # {} THEN Refused(errors)
           ELSE IF filled = << >> THEN EmptyFile
           ELSE [ok |-> TRUE, errors |-> {},
                 items |-> [i \in DOMAIN filled |-> ReadRow(kind, sheet[filled[i]], cols)]]

(* lineFrom: the figures of the old notebook stand, no formula is applied. *)
LineFrom(item) ==
  [product |-> item.productName, formula |-> "standard", gross |-> item.grossWeight,
   tare |-> 0, quality |-> Unset, loss |-> Unset, price |-> item.pricePerUnit, total |-> Unset]

FormFrom(item) ==
  [kind |-> "purchase", lines |-> <<LineFrom(item)>>, paid |-> item.amountPaid,
   date |-> item.date, adjustments |-> << >>, creditTerms |-> {}]

-----------------------------------------------------------------------------
(* A file that is refused for its rows is read in whole once the rows named *)
(* are taken out, by the number Excel shows: no wrong row goes unnamed and  *)
(* no good one is blamed; what is read is every row that is not blank, in   *)
(* order (run, parseReceipts, parseSuppliers).                              *)
RowsNamedAsInExcel(kind, sheet) ==
  LET parsed == Parse(kind, sheet)
      named  == {e.row : e \in parsed.errors}
      good   == SetToSortSeq(DOMAIN sheet \ named, <)
      again  == Parse(kind, [i \in DOMAIN good |-> sheet[good[i]]])
  IN  1 \notin named =>
        /\ Len(again.items) = Cardinality(FilledRows(sheet) \ named)
        /\ again.ok \/ FilledRows(sheet) \subseteq named

(* A row dated by a day, whichever way it is written, stays in that day     *)
(* when it is read half a day east or west (readDate, atNoon).              *)
DaysKept(sheet) ==
  LET cols   == MapColumns(sheet[1], "receipts")
      parsed == Parse("receipts", sheet)
      filled == SetToSortSeq(FilledRows(sheet), <)
      half   == DayLength \div 2
  IN  parsed.ok =>
        \A i \in DOMAIN filled :
          LET cell == CellAt(sheet[filled[i]], cols, "date")
              said == IF cell.is = "number" THEN {cell.number} ELSE cell.day
          IN  \A day \in said, shift \in (-half)..(half - 1) :
                StartOfDay(parsed.items[i].date + shift) = day * DayLength
=============================================================================

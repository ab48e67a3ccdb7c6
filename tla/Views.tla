-------------------------------- MODULE Views -------------------------------
(***************************************************************************)
(* What one organisation reads of the books of others, page by page: the   *)
(* receipts its partners wrote on it (links.service.ts receipts, balance;  *)
(* the SQL function linked_receipts), and the reports over them            *)
(* (reports.service.ts).  A page is one statement of a READ COMMITTED      *)
(* transaction, so the books may change between two pages; the lists of    *)
(* orders, of notifications and of the audit log page the same way         *)
(* (page-cursor.ts).                                                       *)
(*                                                                         *)
(* The reader is one farmer, linked with the Owners of books.  A receipt   *)
(* is [id, owner, at, kind, branch, by, total, payments, deleted]: by is   *)
(* who wrote it, payments what each person recorded as paid on it and for  *)
(* which day (payments of one unit), and what transactionTotals makes of   *)
(* its lines (module BookMath) its total.                                  *)
(***************************************************************************)
EXTENDS BookMath

CONSTANTS
  Owners,                   \* organisations with a book, linked with the reader
  Writable,                 \* the receipts they may write, each once
  PageSize,                 \* BALANCE_PAGE, and a list's limit
  Hands,                    \* who writes for the owners
  Days,                     \* the dates of receipts and payments
  Dismissed                 \* those of them removed by the time a report is asked for

ASSUME ViewsAssumption ==
  /\ PageSize \in Nat \ {0}
  /\ \A r \in Writable :
       /\ r.owner \in Owners /\ r.by \in Hands /\ r.at \in Days /\ ~r.deleted
       /\ r.payments = [m \in Hands, d \in Days |-> 0]
  /\ Days \subseteq Nat /\ IsFiniteSet(Days) /\ Days # {}

VARIABLES
  ledger,                   \* the receipts written on the reader
  linked,                   \* owners whose link is active
  reader,                   \* what is being read, and what was read of it
  steady                    \* history: receipts there, unchanged, since the reading began

viewVars == <<ledger, linked, reader, steady>>

Idle == [mode |-> "idle"]
Start0 == [at |-> 0, id |-> 0]                       \* no cursor yet

Paid(r) == MapThenSumSet(LAMBDA p : r.payments[p], Hands \X Days)

Owed(r) == NotBelowZero(r.total - Paid(r))

(***************************************************************************)
(* One page: newest first by date and then id, after the cursor.           *)
(***************************************************************************)
(* Slip: the cursor is the date alone. *)
OlderDate(r, c) == r.at < c.at

Older(r, c) == r.at < c.at \/ (r.at = c.at /\ r.id < c.id)

OlderThan(rows, cursor) ==
  IF cursor = Start0 THEN rows ELSE {r \in rows : Older(r, cursor)}

NewestFirst(rows) ==
  SetToSortSeq(rows, LAMBDA r, s : s.at < r.at \/ (s.at = r.at /\ s.id < r.id))

PageOf(rows, cursor, take) ==
  LET all == NewestFirst(OlderThan(rows, cursor))
  IN  SubSeq(all, 1, Min({take, Len(all)}))

LiveReceipts == {r \in ledger : ~r.deleted}

LinkedReceipts(owners) == {r \in LiveReceipts : r.owner \in owners \cap linked}

-----------------------------------------------------------------------------
ViewsInit ==
  /\ ledger = {}
  /\ linked = Owners
  /\ reader = Idle
  /\ steady = {}

(* The books of the owners go on. *)
WriteReceipt(r) ==
  /\ \A s \in ledger : s.id # r.id
  /\ ledger' = ledger \cup {r}
  /\ UNCHANGED <<linked, reader, steady>>

Rewrite(r, s) ==
  /\ ledger' = (ledger \ {r}) \cup {s}
  /\ steady' = steady \ {r}
  /\ UNCHANGED <<linked, reader>>

PayReceipt(r, m, day) == Paid(r) < r.total /\ Rewrite(r, [r EXCEPT !.payments[m, day] = @ + 1])

DeleteWritten(r) == Rewrite(r, [r EXCEPT !.deleted = TRUE])

CutLink(o) ==
  /\ linked' = linked \ {o}
  /\ steady' = {r \in steady : r.owner # o}
  /\ UNCHANGED <<ledger, reader>>

(* balance: the links are read once, then the pages until a short one. *)
StartBalance ==
  /\ reader.mode = "idle"
  /\ linked # {}
  /\ reader' = [mode |-> "balance", owners |-> linked, cursor |-> Start0, read |-> << >>]
  /\ steady' = LinkedReceipts(linked)
  /\ UNCHANGED <<ledger, linked>>

BalancePage ==
  /\ reader.mode = "balance"
  /\ LET rows == PageOf(LinkedReceipts(Owners), reader.cursor, PageSize)
     IN  reader' = [reader EXCEPT !.mode   = IF Len(rows) < PageSize THEN "balanced" ELSE @,
                                  !.read   = @ \o rows,
                                  !.cursor = IF rows = << >> THEN @ ELSE Last(rows)]
  /\ UNCHANGED <<ledger, linked, steady>>

(* receipts: a page a call, each checks the link; one row more tells of a next page. *)
StartList(o) ==
  /\ reader.mode = "idle"
  /\ o \in linked
  /\ reader' = [mode |-> "list", owners |-> {o}, cursor |-> Start0, read |-> << >>]
  /\ steady' = LinkedReceipts({o})
  /\ UNCHANGED <<ledger, linked>>

ListPage ==
  /\ reader.mode = "list"
  /\ reader.owners \subseteq linked
  /\ LET rows  == PageOf(LinkedReceipts(reader.owners), reader.cursor, PageSize + 1)
         shown == SubSeq(rows, 1, Min({PageSize, Len(rows)}))
     IN  reader' = [reader EXCEPT !.mode   = IF Len(rows) > PageSize THEN @ ELSE "listed",
                                  !.read   = @ \o shown,
                                  !.cursor = IF shown = << >> THEN @ ELSE Last(shown)]
  /\ UNCHANGED <<ledger, linked, steady>>

LinkRequired ==
  /\ reader.mode = "list"
  /\ ~ reader.owners \subseteq linked
  /\ reader' = Idle
  /\ steady' = {}
  /\ UNCHANGED <<ledger, linked>>

Shown ==
  /\ reader.mode \in {"balanced", "listed"}
  /\ reader' = Idle
  /\ steady' = {}
  /\ UNCHANGED <<ledger, linked>>

ViewsNext ==
  \/ \E r \in Writable : WriteReceipt(r)
  \/ \E r \in LiveReceipts : (\E m \in Hands, d \in Days : PayReceipt(r, m, d)) \/ DeleteWritten(r)
  \/ \E o \in Owners : (o \in linked /\ CutLink(o)) \/ StartList(o)
  \/ StartBalance \/ BalancePage \/ ListPage \/ LinkRequired \/ Shown

ViewsSpec == ViewsInit /\ [][ViewsNext]_viewVars

-----------------------------------------------------------------------------
(***************************************************************************)
(* What is made of the rows.  A side of a report is [count, amount, paid,  *)
(* debt]; the balance has an item per owner.                               *)
(***************************************************************************)
Side(rows) ==
  [count  |-> Cardinality(rows),
   amount |-> MapThenSumSet(LAMBDA r : r.total, rows),
   paid   |-> MapThenSumSet(Paid, rows),
   debt   |-> MapThenSumSet(Owed, rows)]

Figures(rows) ==
  [k \in {"purchase", "sale"} |-> Side({r \in rows : r.kind = k})]

BranchFigures(rows) ==
  [b \in {r.branch : r \in rows} |-> Figures({r \in rows : r.branch = b})]

(***************************************************************************)
(* A report is of a period, its end left out.  A receipt is in it by its   *)
(* own date, with all that is paid on it, whenever that was.               *)
(***************************************************************************)
Periods ==
  LET bounds == Days \cup {d + 1 : d \in Days}
  IN  {p \in [from: bounds, to: bounds] : p.from < p.to}

AllTime == [from |-> Min(Days), to |-> Max(Days) + 1]

In(day, p) == p.from <= day /\ day < p.to

ReceiptsOf(o, p) == {r \in LiveReceipts : r.owner = o /\ In(r.at, p)}

(* summary for an organisation with a book, and for a farmer: the partners' *)
(* receipts with the sides turned round.                                    *)
OwnSummary(o, p) == Figures(ReceiptsOf(o, p))

(* scopeBranch: whose report it is, for a person of a branch (or of none)   *)
(* who asks for a branch (or for none); nobody's when he may not.           *)
BranchesOf(o) == {r.branch : r \in {w \in Writable : w.owner = o}} \ {"none"}

ScopeBranch(o, own, requested) ==
  IF own = "none" THEN {requested} \cap (BranchesOf(o) \cup {"none"})
  ELSE {b \in {own} : requested \in {"none", b}}

ScopedSummary(o, branch, p) == Figures({r \in ReceiptsOf(o, p) : branch \in {"none", r.branch}})

(* memberActivity: the receipts each person wrote, by the date of the      *)
(* receipt, and the payments each recorded, by the date of the payment (on *)
(* a deleted receipt too: only the receipt is deleted); one who was removed*)
(* is listed as long as there is something of his in the period.           *)
PaidIn(r, hands, p) == MapThenSumSet(LAMBDA t : r.payments[t], hands \X {d \in Days : In(d, p)})

MemberActivity(o, p) ==
  LET of(m) == [receipts |-> Figures({r \in ReceiptsOf(o, p) : r.by = m}),
                payments |-> MapThenSumSet(LAMBDA r : PaidIn(r, {m}, p), {r \in ledger : r.owner = o})]
      active(m) == of(m).receipts["purchase"].count + of(m).receipts["sale"].count
                     + of(m).payments > 0
  IN  [m \in {s \in Hands : s \notin Dismissed \/ active(s)} |-> of(m)]

Turned(k) == IF k = "purchase" THEN "sale" ELSE "purchase"

LinkedSummary(p) ==
  [k \in {"purchase", "sale"} |-> Figures({r \in LinkedReceipts(Owners) : In(r.at, p)})[Turned(k)]]

BalanceItem(o) ==
  LET own == {i \in DOMAIN reader.read : reader.read[i].owner = o}
      sum(k) == MapThenSumSet(LAMBDA i : IF reader.read[i].kind = k THEN Owed(reader.read[i])
                                         ELSE 0, own)
  IN  [theyOwe |-> sum("purchase"), youOwe |-> sum("sale"), receiptCount |-> Cardinality(own)]

-----------------------------------------------------------------------------
(* While the owners write, pay, delete and cut links, no receipt is shown   *)
(* or counted twice in one reading, and one that was there throughout,      *)
(* unchanged and linked, is in it when the reading ends: the cursor orders  *)
(* receipts of one date by id.                                              *)
ReadOnce ==
  reader # Idle =>
    /\ \A i, j \in DOMAIN reader.read : reader.read[i].id = reader.read[j].id => i = j
    /\ reader.mode \in {"balanced", "listed"} => steady \subseteq ToSet(reader.read)

(* When nothing changed while the balance was read, it is to the dong what  *)
(* the owners' own reports of all time say, and what the reader's own       *)
(* report says with the sides turned round; in any period the reader's      *)
(* report is that of its partners.                                          *)
SameMoneyBothSides ==
  reader.mode = "balanced" /\ ToSet(reader.read) = LinkedReceipts(Owners) =>
    /\ \A o \in linked :
         /\ BalanceItem(o).theyOwe = OwnSummary(o, AllTime)["purchase"].debt
         /\ BalanceItem(o).youOwe = OwnSummary(o, AllTime)["sale"].debt
    /\ LinkedSummary(AllTime)["sale"].debt = MapThenSumSet(LAMBDA o : BalanceItem(o).theyOwe, linked)
    /\ \A p \in Periods :
         LinkedSummary(p)["sale"].debt = MapThenSumSet(LAMBDA o : OwnSummary(o, p)["purchase"].debt, linked)

(* The branches of a report add up to its totals, receipts of no branch     *)
(* included.                                                                *)
BranchesAddUp ==
  \A o \in Owners, p \in Periods, k \in {"purchase", "sale"} :
    LET figures == BranchFigures(ReceiptsOf(o, p))
    IN  OwnSummary(o, p)[k].debt = MapThenSumSet(LAMBDA b : figures[b][k].debt, DOMAIN figures)

(* A person of a branch is told, of his branch, what the owner's report     *)
(* says of it, whatever he asks for, and of no other branch (scopeBranch).  *)
OwnBranchOnly ==
  \A o \in Owners : \A b \in BranchesOf(o), requested \in BranchesOf(o) \cup {"none"} :
    LET figures == BranchFigures(ReceiptsOf(o, AllTime))
    IN  \A c \in ScopeBranch(o, b, requested) :
          /\ c = b
          /\ b \in DOMAIN figures => ScopedSummary(o, c, AllTime) = figures[b]
          /\ ScopeBranch(o, "none", b) = {b}

(* What each person did adds up to the report of all.  The receipts and     *)
(* their money do in every period, with those of people removed since.  The *)
(* payments do over all time, but for what was paid on receipts deleted     *)
(* since; in a shorter period they are those of that period, and the report *)
(* counts those of its receipts: the two differ by what was paid in it on   *)
(* receipts of another date, and by what was paid on its receipts in        *)
(* another (memberActivity).  A report is read in one state here; a write   *)
(* between two of its queries may show in one of them only.                 *)
MembersAddUp ==
  \A o \in Owners, p \in Periods :
    LET did == MemberActivity(o, p)
        own == {r \in ledger : r.owner = o}
        all(field, k) == MapThenSumSet(LAMBDA m : did[m].receipts[k][field], DOMAIN did)
        within(rows) == MapThenSumSet(LAMBDA r : PaidIn(r, Hands, p), rows)
        paidOn(rows) == MapThenSumSet(Paid, rows)
    IN  /\ \A k \in {"purchase", "sale"}, field \in {"count", "amount", "paid", "debt"} :
             OwnSummary(o, p)[k][field] = all(field, k)
        /\ MapThenSumSet(LAMBDA m : did[m].payments, DOMAIN did)
             + (paidOn(ReceiptsOf(o, p)) - within(ReceiptsOf(o, p)))
             = OwnSummary(o, p)["purchase"].paid + OwnSummary(o, p)["sale"].paid
                 + within({r \in own : ~r.deleted /\ ~In(r.at, p)}) + within({r \in own : r.deleted})

(* A receipt and a payment count once when one period follows another: the  *)
(* two reports add up to that of both.                                      *)
PeriodsAddUp ==
  \A o \in Owners, p, q \in Periods :
    p.to = q.from =>
      LET both == [from |-> p.from, to |-> q.to]
          payments(period) == LET did == MemberActivity(o, period)
                              IN  MapThenSumSet(LAMBDA m : did[m].payments, DOMAIN did)
      IN  /\ \A k \in {"purchase", "sale"}, field \in {"count", "amount", "paid", "debt"} :
               OwnSummary(o, both)[k][field] = OwnSummary(o, p)[k][field] + OwnSummary(o, q)[k][field]
          /\ payments(both) = payments(p) + payments(q)

(* Both sides of a link read the same receipts, once each, and the same     *)
(* money, in the list, in the balance and in the reports by branch, by      *)
(* person and by period.  Reports depend on the ledger alone and show       *)
(* nothing when it is empty: they are compared while nobody reads.          *)
SidesAgree ==
  /\ ReadOnce /\ SameMoneyBothSides
  /\ reader = Idle /\ ledger # {} =>
       BranchesAddUp /\ OwnBranchOnly /\ MembersAddUp /\ PeriodsAddUp
=============================================================================

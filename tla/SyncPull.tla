------------------------------ MODULE SyncPull ------------------------------
(***************************************************************************)
(* GET /v1/sync/pull: one device reading the book of one organisation in   *)
(* rounds and pages (sync-pull.service.ts, sync-cursor.ts), while write    *)
(* transactions of the same organisation begin, wait and commit.           *)
(*                                                                         *)
(* A row's updated_at is now() of the transaction that wrote it, that is   *)
(* the START of that transaction (trigger touch_updated_at and the column  *)
(* default), but the row becomes visible only at its COMMIT.  A round      *)
(* fixes one upper mark `until`, walks the tables in a fixed order and     *)
(* pages by (updated_at, id); each table is one READ COMMITTED statement.  *)
(* When the round is over the cursor keeps only since = until - overlap.   *)
(*                                                                         *)
(* Pulls of different devices only read, so one device is enough.          *)
(***************************************************************************)
EXTENDS Integers, FiniteSets

CONSTANTS
  Records,       \* record ids: numbers, so that (updated_at, id) is ordered
  Payments,      \* the records that are payments
  ParentOf,      \* [Payments -> Records]: transaction_id, a column never patched
  NTables,       \* Len(SYNC_ENTITIES)
  TableOf,       \* [Records -> 1..NTables]: place of the record's entity in SYNC_ENTITIES
  Scopes,        \* values membership.branchId can take
  AllBranches,   \* branchId = null: the whole organisation
  Common,        \* the branch of a table without branches (rule 'none')
  BranchOf,      \* [Records -> Scopes \cup {Common}]: branch_id is never patched
  Writers,       \* write transactions that can be open at the same time
  TxLife,        \* longest life of a write transaction (20 s in push)
  Overlap,       \* PULL_OVERLAP_MS (15 s), in the same unit
  Limit,         \* records in a page
  MaxClock,      \* bound: ticks of the database clock
  MaxVersion     \* bound: [Records -> Nat], commits to each record

ASSUME RecordsAssumption ==
  /\ Records \subseteq Nat
  /\ IsFiniteSet(Records) /\ Records # {}
  /\ Payments \subseteq Records
  /\ ParentOf \in [Payments -> Records \ Payments]
  /\ NTables \in Nat
  /\ TableOf \in [Records -> 1..NTables]
  /\ AllBranches \in Scopes
  /\ BranchOf \in [Records -> Scopes \cup {Common}]
  /\ \A p \in Payments : /\ BranchOf[p] = BranchOf[ParentOf[p]]
                          /\ TableOf[ParentOf[p]] < TableOf[p]

ASSUME TimeAssumption ==
  /\ TxLife \in Nat
  /\ Overlap \in Nat
  /\ Limit \in Nat \ {0}
  /\ MaxClock \in Nat
  /\ MaxVersion \in [Records -> Nat]

VARIABLES
  clock,   \* clock_timestamp() of the database
  rows,    \* committed rows: [upd: updated_at, ver: commits so far, 0 = no row,
           \* slow: ghost, the last write took the overlap or longer to commit]
  tx,      \* write transactions: [open, start: its now(), rec: the record it writes]
  scope,   \* membership.branchId of the person who pulls
  cursor,  \* the cursor the device keeps: [b, s, u, t, k] as in PullCursor
  call,    \* the pull request being served, with the page built so far
  copy     \* the device's book: version of each record it holds, 0 = none

vars == <<clock, rows, tx, scope, cursor, call, copy>>

-----------------------------------------------------------------------------
(* Null: s and u use -1 (every updated_at is a Nat), a null key likewise.  *)

Null == -1
NoKey == [at |-> Null, id |-> Null]

Keys == [at: Nat \cup {Null}, id: Nat \cup {Null}]
Cursors == [b: Scopes, s: Int, u: Nat \cup {Null}, t: 1..(NTables + 1), k: Keys]
Stages == {"none", "reset", "reading", "parents", "reply"}

startCursor(b) == [b |-> b, s |-> Null, u |-> Null, t |-> 1, k |-> NoKey]

EmptyPage == [r \in Records |-> 0]
NoCall == [stage |-> "none", b |-> AllBranches, u |-> Null, t |-> 1, k |-> NoKey,
           left |-> 0, page |-> EmptyPage]

(* A transaction that is over. *)
NoTx == [open |-> FALSE, start |-> 0, rec |-> CHOOSE r \in Records : TRUE]

Exists(r) == rows[r].ver > 0

(* where: branchFilter(table.branch, scope); BranchOf gives a payment its  *)
(* receipt's branch (rule 'parent').                                       *)
branchFilter(b) ==
  {r \in Records : b = AllBranches \/ BranchOf[r] \in {Common, b}}

(* after: OR [updatedAt > at, updatedAt = at AND id > id].                 *)
After(r, k) ==
  \/ rows[r].upd > k.at
  \/ rows[r].upd = k.at /\ r > k.id

KeyOf(r) == [at |-> rows[r].upd, id |-> r]

(* Slip: the tie on updated_at is forgotten, `updatedAt > at` alone.       *)
MatchingWithoutTie ==
  {r \in branchFilter(call.b) :
     /\ Exists(r)
     /\ TableOf[r] = call.t
     /\ cursor.s < rows[r].upd /\ rows[r].upd =< call.u
     /\ rows[r].upd > call.k.at}

Matching ==
  {r \in branchFilter(call.b) :
     /\ Exists(r)
     /\ TableOf[r] = call.t
     /\ cursor.s < rows[r].upd /\ rows[r].upd =< call.u
     /\ After(r, call.k)}

TypeOK ==
  /\ clock \in Nat
  /\ rows \in [Records -> [upd: Nat, ver: Nat, slow: BOOLEAN]]
  /\ tx \in [Writers -> [open: BOOLEAN, start: Nat, rec: Records]]
  /\ scope \in Scopes
  /\ cursor \in Cursors
  /\ call \in [stage: Stages, b: Scopes, u: Nat \cup {Null}, t: 1..(NTables + 1),
               k: Keys, left: Nat, page: [Records -> Nat]]
  /\ copy \in [Records -> Nat]

Init ==
  /\ clock = 0
  /\ rows = [r \in Records |-> [upd |-> 0, ver |-> 0, slow |-> FALSE]]
  /\ tx = [w \in Writers |-> NoTx]
  /\ scope \in Scopes
  /\ cursor = startCursor(scope)
  /\ call = NoCall
  /\ copy = [r \in Records |-> 0]

-----------------------------------------------------------------------------
(* The database: time and write transactions.                              *)

(* Prisma rolls a transaction back at its timeout, so the clock cannot     *)
(* leave an open transaction more than TxLife behind.                      *)
Tick ==
  /\ clock < MaxClock
  /\ \A w \in Writers : tx[w].open => clock < tx[w].start + TxLife
  /\ clock' = clock + 1
  /\ UNCHANGED <<rows, tx, scope, cursor, call, copy>>

(* BEGIN fixes now(); the transaction may then wait for the organisation's *)
(* advisory lock while others that began later commit.  A batch goes on    *)
(* after an answer only, and a device knows a record when it is answered   *)
(* or pulled: a payment is sent after its receipt was committed, a change  *)
(* after its insert.  (A repeated insert is DUPLICATE and writes nothing.) *)
Begin(w, r) ==
  /\ ~tx[w].open
  /\ rows[r].ver < MaxVersion[r]
  /\ r \in Payments => Exists(ParentOf[r])
  /\ ~Exists(r) => \A x \in Writers : tx[x].open => tx[x].rec # r
  /\ tx' = [tx EXCEPT ![w] = [open |-> TRUE, start |-> clock, rec |-> r]]
  /\ UNCHANGED <<clock, rows, scope, cursor, call, copy>>

(* COMMIT: the row becomes visible with updated_at = start.  A payment is  *)
(* only inserted when its receipt is there (PARENT_MISSING otherwise).     *)
Commit(w) ==
  LET r == tx[w].rec IN
  /\ tx[w].open
  /\ rows[r].ver < MaxVersion[r]
  /\ r \in Payments => Exists(ParentOf[r])
  /\ rows' = [rows EXCEPT ![r] = [upd |-> tx[w].start, ver |-> rows[r].ver + 1,
                                   slow |-> clock >= tx[w].start + Overlap]]
  /\ tx' = [tx EXCEPT ![w] = NoTx]
  /\ UNCHANGED <<clock, scope, cursor, call, copy>>

(* Timeout, lock timeout, refusal or crash: nothing was written.           *)
Abort(w) ==
  /\ tx[w].open
  /\ tx' = [tx EXCEPT ![w] = NoTx]
  /\ UNCHANGED <<clock, rows, scope, cursor, call, copy>>

(* The owner moves the person to another branch (members.update).          *)
ChangeBranch(b) ==
  /\ scope # b
  /\ scope' = b
  /\ UNCHANGED <<clock, rows, tx, cursor, call, copy>>

-----------------------------------------------------------------------------
(* The pull request.                                                       *)

(* The guard has read the membership; a cursor of another branch gets      *)
(* resetRequired, any other cursor a page, in a round that is running      *)
(* (cursor.u) or that starts now (the database clock).                     *)
(* Slip: the cursor's branch is not compared with the membership's.        *)
StartPageNoReset ==
  /\ call.stage = "none"
  /\ call' = [stage |-> "reading", b |-> scope,
              u |-> IF cursor.u = Null THEN clock ELSE cursor.u,
              t |-> cursor.t, k |-> cursor.k, left |-> Limit, page |-> EmptyPage]
  /\ UNCHANGED <<clock, rows, tx, scope, cursor, copy>>

StartPage ==
  /\ call.stage = "none"
  /\ call' = IF cursor.b # scope
             THEN [NoCall EXCEPT !.stage = "reset", !.b = scope]
             ELSE [stage |-> "reading", b |-> scope,
                   u |-> IF cursor.u = Null THEN clock ELSE cursor.u,
                   t |-> cursor.t, k |-> cursor.k, left |-> Limit, page |-> EmptyPage]
  /\ UNCHANGED <<clock, rows, tx, scope, cursor, copy>>

AddToPage(S) == [r \in Records |-> IF r \in S THEN rows[r].ver ELSE call.page[r]]

(* One findMany.  It returns fewer rows than asked for: the table is done. *)
(* Slip: one table too many, `t <= SYNC_ENTITIES.length`.                  *)
ReadPastTheLastTable ==
  /\ call.stage = "reading"
  /\ Cardinality(Matching) < call.left
  /\ call' = [call EXCEPT !.page = AddToPage(Matching),
                          !.left = call.left - Cardinality(Matching),
                          !.t = call.t + 1,
                          !.k = NoKey]
  /\ UNCHANGED <<clock, rows, tx, scope, cursor, copy>>

ReadTableToItsEnd ==
  /\ call.stage = "reading" /\ call.t =< NTables
  /\ Cardinality(Matching) < call.left
  /\ call' = [call EXCEPT !.page = AddToPage(Matching),
                          !.left = call.left - Cardinality(Matching),
                          !.t = call.t + 1,
                          !.k = NoKey]
  /\ UNCHANGED <<clock, rows, tx, scope, cursor, copy>>

(* The page is full: the first `left` rows by (updated_at, id) are taken,  *)
(* the next page goes on from the last one, in the same table.             *)
FillPage(S, last) ==
  /\ call.stage = "reading" /\ call.t =< NTables
  /\ S \subseteq Matching /\ Cardinality(S) = call.left
  /\ last \in S
  /\ \A r \in S : ~After(r, KeyOf(last))
  /\ \A r \in Matching \ S : After(r, KeyOf(last))
  /\ call' = [call EXCEPT !.stage = "parents", !.page = AddToPage(S),
                          !.left = 0, !.k = KeyOf(last)]
  /\ UNCHANGED <<clock, rows, tx, scope, cursor, copy>>

FinishTables ==
  /\ call.stage = "reading" /\ call.t = NTables + 1
  /\ call' = [call EXCEPT !.stage = "parents"]
  /\ UNCHANGED <<clock, rows, tx, scope, cursor, copy>>

(* Slip: the receipts changed after `until` are never looked for.          *)
NoLateParents == {}

LateParents ==
  LET missing == {r \in Records : /\ call.page[r] = 0
                                  /\ \E p \in Payments : call.page[p] # 0 /\ ParentOf[p] = r}
  IN {r \in missing \cap branchFilter(call.b) : Exists(r) /\ rows[r].upd > call.u}

addLateParents ==
  /\ call.stage = "parents"
  /\ call' = [call EXCEPT !.stage = "reply", !.page = AddToPage(LateParents)]
  /\ UNCHANGED <<clock, rows, tx, scope, cursor, copy>>

(* Slip: the next round starts at `until` itself, nothing is read twice.   *)
NoOverlapCursor ==
  IF call.t > NTables
  THEN [cursor EXCEPT !.s = call.u, !.u = Null, !.t = 1, !.k = NoKey]
  ELSE [cursor EXCEPT !.u = call.u, !.t = call.t, !.k = call.k]

(* Slip: a full page is taken for the end of its table.                    *)
TableSkippedCursor ==
  IF call.t > NTables
  THEN [cursor EXCEPT !.s = call.u - Overlap, !.u = Null, !.t = 1, !.k = NoKey]
  ELSE [cursor EXCEPT !.u = call.u, !.t = call.t + 1, !.k = NoKey]

NextCursor ==
  IF call.t > NTables
  THEN [cursor EXCEPT !.s = call.u - Overlap, !.u = Null, !.t = 1, !.k = NoKey]
  ELSE [cursor EXCEPT !.u = call.u, !.t = call.t, !.k = call.k]

(* Slip: the answer replaces the book instead of being merged into it.     *)
DeliverReplacing ==
  /\ call.stage = "reply"
  /\ copy' = call.page
  /\ cursor' = NextCursor
  /\ call' = NoCall
  /\ UNCHANGED <<clock, rows, tx, scope>>

(* The device gets the answer: merge by id, then keep the new cursor.      *)
Deliver ==
  /\ call.stage = "reply"
  /\ copy' = [r \in Records |-> IF call.page[r] # 0 THEN call.page[r] ELSE copy[r]]
  /\ cursor' = NextCursor
  /\ call' = NoCall
  /\ UNCHANGED <<clock, rows, tx, scope>>

(* resetRequired: the device (its queue empty) drops its book and starts   *)
(* again from the cursor it was given.                                     *)
DeliverReset ==
  /\ call.stage = "reset"
  /\ copy' = [r \in Records |-> 0]
  /\ cursor' = startCursor(call.b)
  /\ call' = NoCall
  /\ UNCHANGED <<clock, rows, tx, scope>>

(* The answer is lost: the device keeps its cursor.  A page only reads, so *)
(* a server that stops halfway is not told apart from a lost answer.       *)
LoseReply ==
  /\ call.stage \in {"reply", "reset"}
  /\ call' = NoCall
  /\ UNCHANGED <<clock, rows, tx, scope, cursor, copy>>

Write ==
  \/ \E w \in Writers, r \in Records : Begin(w, r)
  \/ \E w \in Writers : Commit(w) \/ Abort(w)

ServePage ==
  \/ StartPage
  \/ ReadTableToItsEnd
  \/ \E S \in SUBSET Matching, last \in Records : FillPage(S, last)
  \/ FinishTables
  \/ addLateParents
  \/ Deliver
  \/ DeliverReset

Next ==
  \/ Tick
  \/ Write
  \/ \E b \in Scopes : ChangeBranch(b)
  \/ ServePage
  \/ LoseReply

Spec == Init /\ [][Next]_vars

(* The app pulls again and again, the server serves what it is asked, a    *)
(* transaction ends by its timeout at the latest, and not every answer is  *)
(* lost.  Nobody is obliged to write, and time may stop.                   *)
FairSpec ==
  /\ Spec
  /\ WF_vars(ServePage)
  /\ SF_vars(Deliver) /\ SF_vars(DeliverReset)
  /\ \A w \in Writers : WF_vars(Commit(w) \/ Abort(w))

-----------------------------------------------------------------------------
(* Properties.                                                             *)

(* What sync-cursor.ts:18-22 promises: whatever committed row of its scope *)
(* the device does not hold in its current version is still above the      *)
(* device's cursor, so that a later round will return it.                  *)
NothingMissed ==
  \A r \in branchFilter(cursor.b) :
    copy[r] # rows[r].ver => rows[r].upd > cursor.s

(* What the code does ensure, for every timeout and every overlap: the     *)
(* device misses nothing but rows whose transaction stayed open for the    *)
(* overlap or longer.  A row committed sooner is on the device in its      *)
(* current version, or a later round will return it.                       *)
MissedOnlySlow ==
  \A r \in branchFilter(cursor.b) :
    copy[r] # rows[r].ver => rows[r].upd > cursor.s \/ rows[r].slow

(* No orphan payment (sync-pull.service.ts:8-10): when a payment is on the *)
(* device, so is its receipt, received in this page or in an earlier one.  *)
NoOrphanPayment ==
  \A p \in Payments : copy[p] # 0 => copy[ParentOf[p]] # 0

Orphans(page) ==
  {p \in Payments : page[p] # 0 /\ page[ParentOf[p]] = 0 /\ copy[ParentOf[p]] = 0}

(* What addLateParents does ensure: a page that is handed out leaves a     *)
(* payment without its receipt only when the receipt was written by a      *)
(* transaction begun in the overlap before `until` and committed after its *)
(* table was read, or by one that stayed open for the overlap or longer.   *)
(* A receipt changed since `until`, or settled, is there.                  *)
OrphanOnlyFromOverlap ==
  [][call.stage = "parents" /\ call'.stage = "reply" =>
       \A p \in Orphans(call'.page) :
          LET receipt == rows[ParentOf[p]] IN
          /\ receipt.upd =< call.u
          /\ call.u - Overlap < receipt.upd \/ receipt.slow]_vars

(* The device holds the book of the server, as far as its scope reaches,   *)
(* but for what was committed too late for the overlap.                    *)
Current == \A r \in branchFilter(cursor.b) : copy[r] = rows[r].ver \/ rows[r].slow

(* Once the person is no longer moved and the writing is over, the device  *)
(* that goes on pulling ends with the book of the server, for the branch   *)
(* the person is in, even when the clock stands still.  What a transaction *)
(* left behind that was open for the overlap or longer may be missing.     *)
Settles == <>[][FALSE]_scope
Converges == Settles => <>[](Current /\ cursor.b = scope)

(* The device's copy of a record never goes back to an older version,      *)
(* whatever answers were lost and pages repeated; only a reset empties it. *)
CopyNeverGoesBack ==
  [][(\A r \in Records : copy'[r] >= copy[r]) \/ call.stage = "reset"]_vars

(* The device holds rows of the scope its cursor was given for and no      *)
(* others, however often the person is moved between branches.             *)
OnlyOwnScope ==
  \A r \in Records : copy[r] # 0 => r \in branchFilter(cursor.b)

(* A round keeps the rows it has already gone past: a record that was      *)
(* written the overlap before `until`, by a transaction no longer than the *)
(* overlap, and lies behind the page position is on the device or in the   *)
(* page being built.                                                       *)
Settled(r, u) == Exists(r) /\ ~rows[r].slow /\ rows[r].upd + Overlap =< u

Behind(r, t, k) == TableOf[r] < t \/ (TableOf[r] = t /\ ~After(r, k))

InService == call.stage \in {"reading", "parents", "reply"}

PagesCover ==
  \A r \in branchFilter(cursor.b) :
    /\ Settled(r, cursor.u) /\ Behind(r, cursor.t, cursor.k) => copy[r] = rows[r].ver
    /\ InService /\ Settled(r, call.u) /\ Behind(r, call.t, call.k)
         => rows[r].ver \in {copy[r], call.page[r]}

-----------------------------------------------------------------------------
(* What the proofs add to make these invariants inductive.                 *)

(* An open transaction is not older than its timeout allows.               *)
TxInTime ==
  \A w \in Writers :
    tx[w].open => tx[w].start =< clock /\ clock =< tx[w].start + TxLife

(* No mark and no row is ahead of the database clock.                      *)
NothingFromTheFuture ==
  /\ \A r \in Records : rows[r].upd =< clock
  /\ cursor.u =< clock /\ call.u =< clock
  /\ cursor.s < 0 \/ cursor.s + Overlap =< clock

(* The request in service goes on from the device's cursor.                *)
CallFollowsCursor ==
  /\ cursor.u = Null => cursor.t = 1 /\ cursor.k = NoKey
  /\ InService => /\ call.b = cursor.b /\ call.u # Null
                  /\ cursor.u # Null => call.u = cursor.u

(* Versions are ordered: device, then page, then database.                 *)
VersionsOrdered ==
  \A r \in Records :
    /\ copy[r] =< rows[r].ver /\ call.page[r] =< rows[r].ver
    /\ call.page[r] # 0 => copy[r] =< call.page[r]

(* A page holds rows of its scope, from the tables walked so far.          *)
PageInScope ==
  \A r \in Records :
    call.page[r] # 0 => InService /\ r \in branchFilter(call.b) /\ TableOf[r] =< call.t

(* The database never holds a payment without its receipt.                 *)
ReceiptFirst == \A p \in Payments : Exists(p) => Exists(ParentOf[p])

=============================================================================

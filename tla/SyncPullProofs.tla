--------------------------- MODULE SyncPullProofs ---------------------------
(***************************************************************************)
(* Theorems about SyncPull, for every book, every number of writers and    *)
(* every page size.                                                        *)
(***************************************************************************)
EXTENDS SyncPull, FiniteSetTheorems, TLAPS

-----------------------------------------------------------------------------
(* Type correctness.                                                       *)

(* One findMany returns a finite number of rows.                           *)
LEMMA MatchingIsFinite ==
  /\ IsFiniteSet(Matching) /\ Cardinality(Matching) \in Nat
  /\ Matching \subseteq Records
<1>1. Matching \subseteq Records
  BY DEF Matching, branchFilter
<1>2. IsFiniteSet(Matching)
  BY <1>1, RecordsAssumption, FS_Subset
<1> QED BY <1>1, <1>2, FS_CardinalityType

LEMMA NoTxType == NoTx \in [open: BOOLEAN, start: Nat, rec: Records]
<1>1. PICK r : r \in Records
  BY RecordsAssumption
<1>2. (CHOOSE x \in Records : TRUE) \in Records
  BY <1>1
<1> QED BY <1>2 DEF NoTx

LEMMA NoCallType ==
  NoCall \in [stage: Stages, b: Scopes, u: Nat \cup {Null}, t: 1..(NTables + 1),
              k: Keys, left: Nat, page: [Records -> Nat]]
BY RecordsAssumption DEF NoCall, Stages, NoKey, Keys, EmptyPage, Null

LEMMA StartCursorType ==
  ASSUME NEW b \in Scopes
  PROVE  startCursor(b) \in Cursors
BY RecordsAssumption DEF startCursor, Cursors, NoKey, Keys, Null

(* A page with more rows in their current version is still a page.         *)
LEMMA AddToPageType ==
  ASSUME TypeOK, NEW S
  PROVE  AddToPage(S) \in [Records -> Nat]
BY DEF TypeOK, AddToPage

LEMMA TypeInit == Init => TypeOK
BY NoTxType, NoCallType, StartCursorType DEF Init, TypeOK

LEMMA TypeNext == TypeOK /\ [Next]_vars => TypeOK'
<1> SUFFICES ASSUME TypeOK, [Next]_vars
             PROVE  TypeOK'
  OBVIOUS
<1> USE DEF TypeOK
<1>1. CASE Tick
  BY <1>1 DEF Tick
<1>2. ASSUME NEW w \in Writers, NEW r \in Records, Begin(w, r)
      PROVE  TypeOK'
  BY <1>2 DEF Begin
<1>3. ASSUME NEW w \in Writers, Commit(w)
      PROVE  TypeOK'
  BY <1>3, NoTxType DEF Commit
<1>4. ASSUME NEW w \in Writers, Abort(w)
      PROVE  TypeOK'
  BY <1>4, NoTxType DEF Abort
<1>5. ASSUME NEW b \in Scopes, ChangeBranch(b)
      PROVE  TypeOK'
  BY <1>5 DEF ChangeBranch
<1>6. CASE StartPage
  <2>1. CASE cursor.b # scope
    BY <1>6, <2>1, NoCallType DEF StartPage, Stages
  <2>2. CASE cursor.b = scope
    <3>1. call' = [stage |-> "reading", b |-> scope,
                   u |-> IF cursor.u = Null THEN clock ELSE cursor.u,
                   t |-> cursor.t, k |-> cursor.k, left |-> Limit, page |-> EmptyPage]
      BY <1>6, <2>2 DEF StartPage
    <3>2. EmptyPage \in [Records -> Nat]
      BY DEF EmptyPage
    <3>3. cursor.u \in Nat \cup {Null} /\ cursor.t \in 1..(NTables + 1) /\ cursor.k \in Keys
      BY DEF Cursors
    <3>4. (IF cursor.u = Null THEN clock ELSE cursor.u) \in Nat \cup {Null}
      BY <3>3
    <3>5. "reading" \in Stages /\ Limit \in Nat
      BY TimeAssumption DEF Stages
    <3>6. call' \in [stage: Stages, b: Scopes, u: Nat \cup {Null}, t: 1..(NTables + 1),
                     k: Keys, left: Nat, page: [Records -> Nat]]
      BY <3>1, <3>2, <3>3, <3>4, <3>5
    <3> QED BY <1>6, <3>6 DEF StartPage
  <2> QED BY <2>1, <2>2
<1>7. CASE ReadTableToItsEnd
  <2>1. call.left - Cardinality(Matching) \in Nat
    BY <1>7, MatchingIsFinite DEF ReadTableToItsEnd
  <2>2. call.t + 1 \in 1..(NTables + 1)
    BY <1>7, RecordsAssumption DEF ReadTableToItsEnd
  <2>3. NoKey \in Keys /\ AddToPage(Matching) \in [Records -> Nat]
    BY AddToPageType DEF NoKey, Keys, Null
  <2>4. call' = [call EXCEPT !.page = AddToPage(Matching),
                             !.left = call.left - Cardinality(Matching),
                             !.t = call.t + 1, !.k = NoKey]
    BY <1>7 DEF ReadTableToItsEnd
  <2>5. UNCHANGED <<clock, rows, tx, scope, cursor, copy>>
    BY <1>7 DEF ReadTableToItsEnd
  <2> QED BY <2>1, <2>2, <2>3, <2>4, <2>5
<1>8. ASSUME NEW S \in SUBSET Matching, NEW last \in Records, FillPage(S, last)
      PROVE  TypeOK'
  <2>1. KeyOf(last) \in Keys
    BY RecordsAssumption DEF KeyOf, Keys
  <2>2. call' = [call EXCEPT !.stage = "parents", !.page = AddToPage(S),
                             !.left = 0, !.k = KeyOf(last)]
    BY <1>8 DEF FillPage
  <2>3. UNCHANGED <<clock, rows, tx, scope, cursor, copy>>
    BY <1>8 DEF FillPage
  <2> QED BY <2>1, <2>2, <2>3, AddToPageType DEF Stages
<1>9. CASE FinishTables
  BY <1>9 DEF FinishTables, Stages
<1>10. CASE addLateParents
  BY <1>10, AddToPageType DEF addLateParents, Stages
<1>11. CASE Deliver
  <2>1. NextCursor \in Cursors
    <3>1. 1 \in 1..(NTables + 1)
      BY RecordsAssumption
    <3>2. call.u - Overlap \in Int
      BY TimeAssumption DEF Null
    <3> QED BY <3>1, <3>2 DEF NextCursor, Cursors, NoKey, Keys, Null
  <2>2. copy' \in [Records -> Nat]
    BY <1>11 DEF Deliver
  <2> QED BY <1>11, <2>1, <2>2, NoCallType DEF Deliver
<1>12. CASE DeliverReset
  BY <1>12, NoCallType, StartCursorType DEF DeliverReset
<1>13. CASE LoseReply
  BY <1>13, NoCallType DEF LoseReply
<1>14. CASE UNCHANGED vars
  BY <1>14 DEF vars
<1> QED
  BY <1>1, <1>2, <1>3, <1>4, <1>5, <1>6, <1>7, <1>8, <1>9, <1>10, <1>11, <1>12, <1>13, <1>14
     DEF Next, Write, ServePage

(* Every variable keeps its type, whatever the constants are.              *)
THEOREM TypeCorrect == Spec => []TypeOK
<1> QED BY TypeInit, TypeNext, PTL DEF Spec

-----------------------------------------------------------------------------
(* The bookkeeping that holds for any overlap.                             *)

Bookkeeping ==
  /\ TxInTime
  /\ NothingFromTheFuture
  /\ CallFollowsCursor
  /\ VersionsOrdered
  /\ PageInScope
  /\ ReceiptFirst
  /\ OnlyOwnScope

LEMMA BookkeepingInit == Init => Bookkeeping
BY RecordsAssumption
   DEF Init, Bookkeeping, TxInTime, NothingFromTheFuture, CallFollowsCursor, VersionsOrdered,
       PageInScope, ReceiptFirst, OnlyOwnScope, InService, Exists, NoTx, NoCall, EmptyPage,
       startCursor, Null

LEMMA BookkeepingNext == TypeOK /\ Bookkeeping /\ [Next]_vars => Bookkeeping'
<1> SUFFICES ASSUME TypeOK, Bookkeeping, [Next]_vars
             PROVE  Bookkeeping'
  OBVIOUS
<1> USE RecordsAssumption, TimeAssumption
<1> USE DEF TypeOK, Bookkeeping, TxInTime, NothingFromTheFuture, CallFollowsCursor,
            VersionsOrdered, PageInScope, ReceiptFirst, OnlyOwnScope, InService, Exists,
            branchFilter
<1>1. CASE Tick
  BY <1>1 DEF Tick, Cursors, Null
<1>2. ASSUME NEW w \in Writers, NEW r \in Records, Begin(w, r)
      PROVE  Bookkeeping'
  BY <1>2 DEF Begin
<1>3. ASSUME NEW w \in Writers, Commit(w)
      PROVE  Bookkeeping'
  <2> DEFINE r == tx[w].rec
  <2>1. /\ r \in Records /\ tx[w].open /\ (r \in Payments => Exists(ParentOf[r]))
        /\ rows' = [rows EXCEPT ![r] = [upd |-> tx[w].start, ver |-> rows[r].ver + 1,
                                         slow |-> clock >= tx[w].start + Overlap]]
        /\ tx' = [tx EXCEPT ![w] = NoTx]
        /\ UNCHANGED <<clock, scope, cursor, call, copy>>
    BY <1>3 DEF Commit
  <2> HIDE DEF r
  <2>2. \A q \in Records : rows'[q].ver >= rows[q].ver /\ rows'[q].upd =< clock
    BY <2>1
  <2>3. TxInTime'
    BY <2>1 DEF NoTx
  <2>4. NothingFromTheFuture'
    BY <2>1, <2>2
  <2>7. VersionsOrdered'
    <3> SUFFICES ASSUME NEW q \in Records
                 PROVE  /\ copy[q] =< rows'[q].ver /\ call.page[q] =< rows'[q].ver
                        /\ call.page[q] # 0 => copy[q] =< call.page[q]
      BY <2>1
    <3>1. rows'[q].ver \in Nat /\ rows[q].ver \in Nat /\ copy[q] \in Nat /\ call.page[q] \in Nat
      <4>1. rows' \in [Records -> [upd: Nat, ver: Nat, slow: BOOLEAN]]
        BY TypeNext DEF TypeOK
      <4> QED BY <4>1
    <3>2. /\ copy[q] =< rows[q].ver /\ call.page[q] =< rows[q].ver
          /\ call.page[q] # 0 => copy[q] =< call.page[q]
      OBVIOUS
    <3>3. rows'[q].ver >= rows[q].ver
      BY <2>2
    <3> HIDE DEF TypeOK, Bookkeeping
    <3> QED BY <3>1, <3>2, <3>3
  <2>5. ReceiptFirst'
    <3> SUFFICES ASSUME NEW p \in Payments, rows'[p].ver > 0
                 PROVE  rows'[ParentOf[p]].ver > 0
      OBVIOUS
    <3>1. ParentOf[p] \in Records
      OBVIOUS
    <3>2. CASE p = r
      BY <2>1, <2>2, <3>1, <3>2
    <3>3. CASE p # r
      BY <2>1, <2>2, <3>1, <3>3
    <3> QED BY <3>2, <3>3
  <2>6. CallFollowsCursor' /\ PageInScope' /\ OnlyOwnScope'
    BY <2>1
  <2> QED BY <2>3, <2>4, <2>5, <2>6, <2>7
<1>4. ASSUME NEW w \in Writers, Abort(w)
      PROVE  Bookkeeping'
  BY <1>4 DEF Abort, NoTx
<1>5. ASSUME NEW b \in Scopes, ChangeBranch(b)
      PROVE  Bookkeeping'
  BY <1>5 DEF ChangeBranch
<1>6. CASE StartPage
  BY <1>6 DEF StartPage, NoCall, EmptyPage, Cursors, Null
<1>7. CASE ReadTableToItsEnd
  BY <1>7 DEF ReadTableToItsEnd, AddToPage, Matching
<1>8. ASSUME NEW S \in SUBSET Matching, NEW last \in Records, FillPage(S, last)
      PROVE  Bookkeeping'
  BY <1>8 DEF FillPage, AddToPage, Matching
<1>9. CASE FinishTables
  BY <1>9 DEF FinishTables
<1>10. CASE addLateParents
  BY <1>10 DEF addLateParents, AddToPage, LateParents
<1>11. CASE Deliver
  <2>1. /\ InService /\ call' = NoCall /\ cursor' = NextCursor
        /\ copy' = [r \in Records |-> IF call.page[r] # 0 THEN call.page[r] ELSE copy[r]]
        /\ UNCHANGED <<clock, rows, tx, scope>>
    BY <1>11 DEF Deliver
  <2>2. /\ call'.page = EmptyPage /\ call'.stage = "none" /\ call'.u = Null
        /\ cursor'.b = cursor.b /\ cursor'.u \in {Null, call.u}
        /\ cursor'.s \in {cursor.s, call.u - Overlap}
    BY <2>1 DEF NoCall, NextCursor, Cursors
  <2>3. TxInTime' /\ ReceiptFirst'
    BY <2>1
  <2>4. NothingFromTheFuture'
    BY <2>1, <2>2 DEF Null, Cursors
  <2>5. CallFollowsCursor'
    BY <2>1, <2>2 DEF NextCursor, Cursors, NoCall
  <2>6. VersionsOrdered' /\ PageInScope'
    BY <2>1, <2>2 DEF EmptyPage
  <2>7. OnlyOwnScope'
    BY <2>1, <2>2
  <2> QED BY <2>3, <2>4, <2>5, <2>6, <2>7
<1>12. CASE DeliverReset
  BY <1>12 DEF DeliverReset, startCursor, NoCall, EmptyPage, Null
<1>13. CASE LoseReply
  BY <1>13 DEF LoseReply, NoCall, EmptyPage, Null
<1>14. CASE UNCHANGED vars
  BY <1>14 DEF vars
<1> QED
  BY <1>1, <1>2, <1>3, <1>4, <1>5, <1>6, <1>7, <1>8, <1>9, <1>10, <1>11, <1>12, <1>13, <1>14
     DEF Next, Write, ServePage

(* The device only ever holds rows of its own scope.                       *)
THEOREM ScopeKept == Spec => []OnlyOwnScope
<1>1. Bookkeeping => OnlyOwnScope
  BY DEF Bookkeeping
<1> QED BY <1>1, TypeInit, TypeNext, BookkeepingInit, BookkeepingNext, PTL DEF Spec

(* A record on the device never goes back to an older version.             *)
THEOREM NeverBack == Spec => CopyNeverGoesBack
<1>1. TypeOK /\ Bookkeeping /\ [Next]_vars
        => [(\A r \in Records : copy'[r] >= copy[r]) \/ call.stage = "reset"]_vars
  <2> SUFFICES ASSUME TypeOK, Bookkeeping, Next, call.stage # "reset"
               PROVE  \A r \in Records : copy'[r] >= copy[r]
    BY DEF vars
  <2>1. CASE Deliver
    BY <2>1 DEF Deliver, TypeOK, Bookkeeping, VersionsOrdered
  <2>2. CASE ~Deliver
    <3>1. copy' = copy
      BY <2>2 DEF Next, Write, ServePage, Tick, Begin, Commit, Abort, ChangeBranch, StartPage,
                  ReadTableToItsEnd, FillPage, FinishTables, addLateParents, DeliverReset,
                  LoseReply
    <3> QED BY <3>1 DEF TypeOK
  <2> QED BY <2>1, <2>2
<1> QED
  BY <1>1, TypeInit, TypeNext, BookkeepingInit, BookkeepingNext, PTL DEF Spec, CopyNeverGoesBack

-----------------------------------------------------------------------------
(* Nothing is missed but what took the overlap or longer to commit,        *)
(* whatever the timeout of a transaction and the overlap are.              *)

Cover == MissedOnlySlow /\ PagesCover

LEMMA CoverInit == Init => Cover
BY RecordsAssumption
   DEF Init, Cover, MissedOnlySlow, PagesCover, InService, Settled, Behind, Exists, branchFilter,
       NoCall, startCursor, Null

(* A row that is read in its table, up to `until`, is one the round is     *)
(* asked for: what findMany leaves out was already on the device.          *)
LEMMA ReadOrHeld ==
  ASSUME TypeOK, Bookkeeping, Cover, InService,
         NEW r \in branchFilter(cursor.b),
         Settled(r, call.u), TableOf[r] = call.t
  PROVE  rows[r].ver \in {copy[r], call.page[r]} \/ r \in Matching
<1>1. r \in Records /\ r \in branchFilter(call.b)
  BY DEF branchFilter, Bookkeeping, CallFollowsCursor
<1>2. CASE ~After(r, call.k)
  BY <1>1, <1>2 DEF Cover, PagesCover, Behind
<1>3. CASE After(r, call.k) /\ copy[r] # rows[r].ver
  <2>1. rows[r].upd > cursor.s
    BY <1>3 DEF Cover, MissedOnlySlow, Settled
  <2>2. rows[r].upd =< call.u
    BY <1>1, TimeAssumption DEF Settled, TypeOK, Null
  <2> QED BY <1>1, <1>3, <2>1, <2>2 DEF Matching, Settled, TypeOK, Cursors
<1> QED BY <1>2, <1>3

LEMMA CoverNext == TypeOK /\ Bookkeeping /\ Cover /\ [Next]_vars => Cover'
<1> SUFFICES ASSUME TypeOK, Bookkeeping, Cover, [Next]_vars
             PROVE  Cover'
  OBVIOUS
<1> USE RecordsAssumption, TimeAssumption
<1>a. TypeOK' /\ Bookkeeping'
  BY TypeNext, BookkeepingNext
<1>1. CASE Tick
  BY <1>1 DEF Tick, Cover, MissedOnlySlow, PagesCover, InService, Settled, Behind, After, Exists,
              branchFilter
<1>2. ASSUME NEW w \in Writers, NEW r \in Records, Begin(w, r)
      PROVE  Cover'
  BY <1>2 DEF Begin, Cover, MissedOnlySlow, PagesCover, InService, Settled, Behind, After, Exists,
              branchFilter
<1>3. ASSUME NEW w \in Writers, Commit(w)
      PROVE  Cover'
  <2>0. PICK r \in Records : r = tx[w].rec
    BY DEF TypeOK
  <2>1. /\ r \in Records /\ tx[w].open
        /\ rows' = [rows EXCEPT ![r] = [upd |-> tx[w].start, ver |-> rows[r].ver + 1,
                                         slow |-> clock >= tx[w].start + Overlap]]
        /\ UNCHANGED <<clock, scope, cursor, call, copy>>
    BY <1>3, <2>0 DEF Commit, TypeOK
  <2>2. rows'[r].slow \/ clock - Overlap < tx[w].start
    BY <2>1 DEF TypeOK
  <2>3. /\ rows'[r].upd = tx[w].start /\ tx[w].start \in Nat
        /\ \A q \in Records : q # r => rows'[q] = rows[q]
    BY <2>1 DEF TypeOK
  <2>4. rows'[r].upd > cursor.s \/ rows'[r].slow
    BY <2>2, <2>3 DEF Bookkeeping, NothingFromTheFuture, TypeOK, Cursors
  <2>5. ~Settled(r, cursor.u)' /\ ~Settled(r, call.u)'
    BY <2>1, <2>2, <2>3 DEF Settled, Bookkeeping, NothingFromTheFuture, TypeOK, Cursors, Null
  <2>6. MissedOnlySlow'
    BY <2>1, <2>3, <2>4 DEF Cover, MissedOnlySlow, branchFilter
  <2>7. PagesCover'
    BY <2>1, <2>3, <2>5 DEF Cover, PagesCover, branchFilter, InService, Settled, Behind, After, Exists
  <2> QED BY <2>6, <2>7 DEF Cover
<1>4. ASSUME NEW w \in Writers, Abort(w)
      PROVE  Cover'
  BY <1>4 DEF Abort, Cover, MissedOnlySlow, PagesCover, InService, Settled, Behind, After, Exists,
              branchFilter
<1>5. ASSUME NEW b \in Scopes, ChangeBranch(b)
      PROVE  Cover'
  BY <1>5 DEF ChangeBranch, Cover, MissedOnlySlow, PagesCover, InService, Settled, Behind, After,
              Exists, branchFilter
<1>6. CASE StartPage
  <2>1. UNCHANGED <<clock, rows, tx, scope, cursor, copy>>
    BY <1>6 DEF StartPage
  <2>2. MissedOnlySlow'
    BY <2>1 DEF Cover, MissedOnlySlow, branchFilter
  <2>3. CASE cursor.b # scope
    BY <1>6, <2>1, <2>2, <2>3
       DEF StartPage, NoCall, Cover, PagesCover, InService, Settled, Behind, After, Exists,
           branchFilter
  <2>4. CASE cursor.b = scope /\ cursor.u = Null
    <3>1. call'.t = 1 /\ call'.k = NoKey
      BY <1>6, <2>4 DEF StartPage, Bookkeeping, CallFollowsCursor
    <3>2. \A r \in Records : ~Behind(r, call.t, call.k)'
      <4> SUFFICES ASSUME NEW r \in Records
                   PROVE  After(r, call.k)' /\ ~(TableOf[r] < call'.t)
        BY DEF Behind
      <4>1. TableOf[r] \in 1..NTables /\ rows[r].upd \in Nat
        BY DEF TypeOK
      <4> QED BY <2>1, <3>1, <4>1 DEF After, NoKey, Null
    <3> QED BY <2>1, <2>2, <3>2
            DEF Cover, PagesCover, Settled, Behind, After, Exists, branchFilter
  <2>5. CASE cursor.b = scope /\ cursor.u # Null
    <3>1. call'.t = cursor.t /\ call'.k = cursor.k /\ call'.u = cursor.u
      BY <1>6, <2>5 DEF StartPage
    <3> QED BY <2>1, <2>2, <3>1
            DEF Cover, PagesCover, Settled, Behind, After, Exists, branchFilter
  <2> QED BY <2>3, <2>4, <2>5
<1>7. CASE ReadTableToItsEnd
  <2>1. UNCHANGED <<clock, rows, tx, scope, cursor, copy>>
    BY <1>7 DEF ReadTableToItsEnd
  <2>2. /\ call.stage = "reading" /\ call'.t = call.t + 1 /\ call'.k = NoKey /\ call'.u = call.u
        /\ call'.page = AddToPage(Matching)
    BY <1>7 DEF ReadTableToItsEnd, TypeOK
  <2>3. MissedOnlySlow'
    BY <2>1 DEF Cover, MissedOnlySlow, branchFilter
  <2>4. ASSUME NEW r \in branchFilter(cursor.b), Settled(r, call.u), Behind(r, call.t, call.k)'
        PROVE  rows[r].ver \in {copy[r], call'.page[r]}
    <3>1. r \in Records
      BY DEF branchFilter
    <3>2. After(r, call.k)'
      BY <2>1, <2>2, <3>1 DEF After, NoKey, Null, TypeOK
    <3>3. TableOf[r] < call.t \/ TableOf[r] = call.t
      <4>1. TableOf[r] \in Nat /\ call.t \in Nat
        BY <3>1 DEF TypeOK
      <4>2. TableOf[r] < call'.t
        BY <2>4, <3>2 DEF Behind
      <4> QED BY <2>2, <4>1, <4>2
    <3>4. rows[r].ver \in {copy[r], call.page[r]} \/ r \in Matching
      BY <2>2, <2>4, <3>3, ReadOrHeld DEF InService, Cover, PagesCover, Behind
    <3> QED BY <2>2, <3>1, <3>4 DEF AddToPage
  <2>5. PagesCover'
    BY <2>1, <2>2, <2>4 DEF Cover, PagesCover, Settled, Behind, After, Exists, branchFilter
  <2> QED BY <2>3, <2>5 DEF Cover
<1>8. ASSUME NEW S \in SUBSET Matching, NEW last \in Records, FillPage(S, last)
      PROVE  Cover'
  <2>1. UNCHANGED <<clock, rows, tx, scope, cursor, copy>>
    BY <1>8 DEF FillPage
  <2>2. /\ call.stage = "reading" /\ call'.t = call.t /\ call'.k = KeyOf(last)
        /\ call'.u = call.u /\ call'.page = AddToPage(S)
        /\ \A r \in Matching \ S : After(r, KeyOf(last))
    BY <1>8 DEF FillPage, TypeOK
  <2>3. MissedOnlySlow'
    BY <2>1 DEF Cover, MissedOnlySlow, branchFilter
  <2>4. ASSUME NEW r \in branchFilter(cursor.b), Settled(r, call.u), Behind(r, call.t, call.k)'
        PROVE  rows[r].ver \in {copy[r], call'.page[r]}
    <3>1. r \in Records
      BY DEF branchFilter
    <3>2. TableOf[r] < call.t \/ (TableOf[r] = call.t /\ ~After(r, KeyOf(last)))
      BY <2>1, <2>2, <2>4 DEF Behind, After
    <3>3. rows[r].ver \in {copy[r], call.page[r]} \/ r \in S
      BY <2>2, <2>4, <3>2, ReadOrHeld DEF InService, Cover, PagesCover, Behind
    <3> QED BY <2>2, <3>1, <3>3 DEF AddToPage
  <2>5. PagesCover'
    BY <2>1, <2>2, <2>4 DEF Cover, PagesCover, Settled, Behind, After, Exists, branchFilter
  <2> QED BY <2>3, <2>5 DEF Cover
<1>9. CASE FinishTables
  BY <1>9 DEF FinishTables, TypeOK, Cover, MissedOnlySlow, PagesCover, InService, Settled, Behind,
              After, Exists, branchFilter
<1>10. CASE addLateParents
  <2>1. UNCHANGED <<clock, rows, tx, scope, cursor, copy>>
    BY <1>10 DEF addLateParents
  <2>2. /\ InService /\ call'.t = call.t /\ call'.k = call.k /\ call'.u = call.u
        /\ call'.page = AddToPage(LateParents)
    BY <1>10 DEF addLateParents, TypeOK, InService
  <2> QED BY <2>1, <2>2
          DEF Cover, MissedOnlySlow, PagesCover, AddToPage, Settled, Behind, After, Exists,
              branchFilter
<1>11. CASE Deliver
  <2>1. /\ InService /\ call' = NoCall /\ cursor' = NextCursor
        /\ copy' = [r \in Records |-> IF call.page[r] # 0 THEN call.page[r] ELSE copy[r]]
        /\ UNCHANGED <<clock, rows, tx, scope>>
    BY <1>11 DEF Deliver, InService
  <2>2. ASSUME NEW r \in Records, rows[r].ver \in {copy[r], call.page[r]}
        PROVE  copy'[r] = rows[r].ver
    <3>1. rows[r].ver \in Nat /\ copy[r] \in Nat /\ call.page[r] \in Nat
      BY DEF TypeOK
    <3>2. copy[r] =< rows[r].ver /\ (call.page[r] # 0 => copy[r] =< call.page[r])
      BY DEF Bookkeeping, VersionsOrdered
    <3>3. call.page[r] =< rows[r].ver
      BY DEF Bookkeeping, VersionsOrdered
    <3>4. copy'[r] = IF call.page[r] # 0 THEN call.page[r] ELSE copy[r]
      BY <2>1
    <3> QED BY <2>2, <3>1, <3>2, <3>3, <3>4
  <2>3. call'.stage = "none"
    BY <2>1 DEF NoCall
  <2>4. CASE call.t > NTables
    <3>1. cursor'.s = call.u - Overlap /\ cursor'.u = Null /\ cursor'.b = cursor.b
      BY <2>1, <2>4 DEF NextCursor, TypeOK, Cursors
    <3>2. ASSUME NEW r \in branchFilter(cursor.b), rows[r].upd =< call.u - Overlap,
                 ~rows[r].slow
          PROVE  copy'[r] = rows[r].ver
      <4>1. r \in Records
        BY DEF branchFilter
      <4>2. CASE Exists(r)
        <5>1. Settled(r, call.u) /\ Behind(r, call.t, call.k)
          BY <2>4, <3>2, <4>1, <4>2 DEF Settled, Behind, TypeOK, Null
        <5> QED BY <2>1, <2>2, <4>1, <5>1 DEF Cover, PagesCover
      <4>3. CASE ~Exists(r)
        <5>1. rows[r].ver = 0 /\ copy[r] = 0
          BY <4>1, <4>3 DEF Exists, TypeOK, Bookkeeping, VersionsOrdered
        <5> QED BY <2>2, <4>1, <5>1
      <4> QED BY <4>2, <4>3
    <3>3. MissedOnlySlow'
      <4> SUFFICES ASSUME NEW r \in branchFilter(cursor.b), copy'[r] # rows[r].ver
                   PROVE  rows[r].upd > call.u - Overlap \/ rows[r].slow
        BY <2>1, <3>1 DEF MissedOnlySlow, branchFilter
      <4> QED BY <3>2 DEF TypeOK, Null, branchFilter
    <3>4. ASSUME NEW r \in Records
          PROVE  ~Settled(r, cursor.u)'
      BY <2>1, <3>1 DEF Settled, TypeOK, Null
    <3> QED BY <2>3, <3>1, <3>3, <3>4 DEF Cover, PagesCover, InService, branchFilter
  <2>5. CASE ~(call.t > NTables)
    <3>1. /\ cursor'.s = cursor.s /\ cursor'.b = cursor.b /\ cursor'.u = call.u
          /\ cursor'.t = call.t /\ cursor'.k = call.k
      BY <2>1, <2>5 DEF NextCursor, TypeOK, Cursors
    <3>2. MissedOnlySlow'
      BY <2>1, <2>2, <3>1 DEF Cover, MissedOnlySlow, branchFilter
    <3>3. ASSUME NEW r \in branchFilter(cursor.b), Settled(r, call.u), Behind(r, call.t, call.k)
          PROVE  copy'[r] = rows[r].ver
      BY <2>1, <2>2, <3>3 DEF Cover, PagesCover, branchFilter
    <3> QED BY <2>1, <2>3, <3>1, <3>2, <3>3
            DEF Cover, PagesCover, InService, Settled, Behind, After, Exists, branchFilter
  <2> QED BY <2>4, <2>5
<1>12. CASE DeliverReset
  <2>1. /\ call'.stage = "none" /\ cursor' = startCursor(call.b)
        /\ UNCHANGED <<clock, rows, tx, scope>>
    BY <1>12 DEF DeliverReset, NoCall
  <2> QED BY <2>1 DEF startCursor, Cover, MissedOnlySlow, PagesCover, InService, Settled, Null,
                      branchFilter, TypeOK
<1>13. CASE LoseReply
  BY <1>13 DEF LoseReply, NoCall, Cover, MissedOnlySlow, PagesCover, InService, Settled, Behind,
               After, Exists, branchFilter
<1>14. CASE UNCHANGED vars
  BY <1>14 DEF vars, Cover, MissedOnlySlow, PagesCover, InService, Settled, Behind, After, Exists,
               branchFilter
<1> QED
  BY <1>1, <1>2, <1>3, <1>4, <1>5, <1>6, <1>7, <1>8, <1>9, <1>10, <1>11, <1>12, <1>13, <1>14
     DEF Next, Write, ServePage

(* For every timeout and every overlap: a row the device does not hold in  *)
(* its current version is still above its cursor, or the transaction that  *)
(* wrote it was open for the overlap or longer.                            *)
THEOREM OnlySlowIsMissed == Spec => []MissedOnlySlow
<1>1. Cover => MissedOnlySlow
  BY DEF Cover
<1> QED
  BY <1>1, TypeInit, TypeNext, BookkeepingInit, BookkeepingNext, CoverInit, CoverNext, PTL DEF Spec

(* Every page covers the settled rows it has gone past.                    *)
THEOREM PagesAlwaysCover == Spec => []PagesCover
<1>1. Cover => PagesCover
  BY DEF Cover
<1> QED
  BY <1>1, TypeInit, TypeNext, BookkeepingInit, BookkeepingNext, CoverInit, CoverNext, PTL DEF Spec

(* A payment is handed out without its receipt only when the receipt was   *)
(* written from within the overlap, or took as long as that to commit.     *)
THEOREM OrphansOnlyFromOverlap == Spec => OrphanOnlyFromOverlap
<1> DEFINE Handed ==
      call.stage = "parents" /\ call'.stage = "reply" =>
        \A p \in Orphans(call'.page) :
           LET receipt == rows[ParentOf[p]] IN
           /\ receipt.upd =< call.u
           /\ call.u - Overlap < receipt.upd \/ receipt.slow
<1>1. TypeOK /\ Bookkeeping /\ Cover /\ [Next]_vars => [Handed]_vars
  <2> SUFFICES ASSUME TypeOK, Bookkeeping, Cover, Next,
                      call.stage = "parents", call'.stage = "reply",
                      NEW p \in Orphans(call'.page)
               PROVE  /\ rows[ParentOf[p]].upd =< call.u
                      /\ call.u - Overlap < rows[ParentOf[p]].upd \/ rows[ParentOf[p]].slow
    BY DEF Handed, vars
  <2> USE RecordsAssumption, TimeAssumption
  <2>1. call'.page = AddToPage(LateParents) /\ UNCHANGED copy
    BY DEF Next, Write, ServePage, Tick, Begin, Commit, Abort, ChangeBranch, StartPage,
           ReadTableToItsEnd, FillPage, FinishTables, addLateParents, Deliver, DeliverReset,
           LoseReply, NoCall, TypeOK
  <2>2. PICK q \in Records : q = ParentOf[p] /\ p \in Payments /\ p \in Records
    BY DEF Orphans
  <2>3. call'.page[p] # 0 /\ call'.page[q] = 0 /\ copy[q] = 0
    BY <2>2 DEF Orphans
  <2>4. p \notin LateParents
    BY <2>2 DEF LateParents
  <2>5. call.page[p] # 0
    BY <2>1, <2>2, <2>3, <2>4 DEF AddToPage
  <2>6. Exists(p) /\ Exists(q)
    BY <2>2, <2>5 DEF Bookkeeping, VersionsOrdered, ReceiptFirst, Exists, TypeOK
  <2>7. q \notin LateParents /\ call.page[q] = 0
    BY <2>1, <2>2, <2>3, <2>6 DEF AddToPage, Exists, TypeOK
  <2>8. InService /\ p \in branchFilter(call.b) /\ TableOf[p] =< call.t
    BY <2>2, <2>5 DEF Bookkeeping, PageInScope
  <2>9. q \in branchFilter(call.b) /\ TableOf[q] < call.t
    <3>1. BranchOf[p] = BranchOf[q] /\ TableOf[q] < TableOf[p]
      BY <2>2
    <3>2. TableOf[p] \in Nat /\ TableOf[q] \in Nat /\ call.t \in Nat
      BY <2>2 DEF TypeOK
    <3> QED BY <2>2, <2>8, <3>1, <3>2 DEF branchFilter
  <2>10. rows[q].upd \in Nat /\ call.u \in Nat
    BY <2>2, <2>8 DEF TypeOK, Bookkeeping, CallFollowsCursor
  <2>11. ~(rows[q].upd > call.u)
    BY <2>2, <2>5, <2>6, <2>7, <2>9 DEF LateParents
  <2>12. ~Settled(q, call.u)
    <3>1. rows[q].ver \notin {copy[q], call.page[q]}
      BY <2>2, <2>3, <2>6, <2>7 DEF Exists, TypeOK
    <3> QED BY <2>8, <2>9, <3>1 DEF Cover, PagesCover, Behind, Bookkeeping, CallFollowsCursor
  <2> QED BY <2>2, <2>6, <2>10, <2>11, <2>12 DEF Settled
<1> QED
  BY <1>1, TypeInit, TypeNext, BookkeepingInit, BookkeepingNext, CoverInit, CoverNext, PTL
     DEF Spec, OrphanOnlyFromOverlap

=============================================================================

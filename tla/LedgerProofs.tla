---------------------------- MODULE LedgerProofs ----------------------------
(***************************************************************************)
(* What pushing does to the book, for any devices, records, orders and     *)
(* bounds: a deletion is audited once, an order is fulfilled by a receipt  *)
(* and its event goes out at most once, and, while memberships stay as     *)
(* they are, a refusal is final and push keeps the promise of Ledger.      *)
(*                                                                         *)
(* The argument is about the one step that writes.  Under the lock what    *)
(* was looked at is still so (LookIsCurrent), so that the step is one of   *)
(* four: a new row, a change or a deletion of a live row, or a change of a *)
(* deleted one, which leaves it alone.                                     *)
(***************************************************************************)
EXTENDS SyncPushProofs, SequenceTheorems

(* The step in which something is committed that was not recorded.         *)
Writes(s) ==
  /\ req[s].stage = "looked" /\ Refusal(s) = "ok" /\ ~KeyTaken(s) /\ ~req[s].seen
  /\ Write(s)
  /\ UNCHANGED <<last, body, queue, conflict, dropped, member, events>>

-----------------------------------------------------------------------------
(* Kinds of steps.                                                         *)

(* A step writes, or it leaves the log, the book and the audit log alone.  *)
LEMMA WritesOrRests ==
  ASSUME [Next]_vars
  PROVE  (\E s \in Slots : Writes(s)) \/ UNCHANGED <<log, book, audit>>
<1>1. ASSUME NEW s \in Slots, Commit(s) \/ CommitUnheard(s)
      PROVE  Writes(s) \/ UNCHANGED <<log, book, audit>>
  <2>1. CASE req[s].seen
    BY <1>1, <2>1 DEF Commit, CommitUnheard, Write, database
  <2>2. CASE ~req[s].seen
    BY <1>1, <2>2 DEF Commit, CommitUnheard, Writes, device
  <2> QED BY <2>1, <2>2
<1>2. CASE \E s \in Slots : Commit(s) \/ CommitUnheard(s)
  BY <1>1, <1>2
<1>3. CASE UNCHANGED <<log, book, audit>>
  BY <1>3
<1> QED
  BY <1>2, <1>3 DEF Next, Serve, Disturb, enqueue, dropStuck, Send, Receive, GiveUp, LoseRequest,
     Guard, assertPlan, StartOp, FinishBatch, Look, Refuse, Fail, Emit, Crash, ChangeMember,
     ChangePlan, MoveOrder, database, vars

(* The log and the rows after a step that writes.                          *)
LEMMA WriteFacts ==
  ASSUME IInv, LookIsCurrent, NEW s \in Slots, Writes(s)
  PROVE  /\ req[s].op \in Made /\ req[s].op \in Ops /\ req[s].op \notin Recorded
         /\ body[req[s].op] \in Body /\ body[req[s].op].rec \in Records
         /\ req[s].state = book[body[req[s].op].rec].state
         /\ Recorded' = Recorded \cup {req[s].op} /\ Made' = Made /\ body' = body
         /\ book \in [Records -> Row] /\ book' \in [Records -> Row]
         /\ book'[body[req[s].op].rec] = NewRow(s)
         /\ \A r \in Records : r # body[req[s].op].rec => book'[r] = book[r]
         /\ audit' = audit \cup NewAudit(s)
<1> DEFINE o == req[s].op
           rec == body[o].rec
<1>1. req[s].stage = "looked" /\ ~req[s].seen /\ Write(s) /\ body' = body
  BY DEF Writes
<1>2. /\ o \in Made /\ o \in Ops /\ body[o] \in Body /\ Recorded' = Recorded \cup {o}
      /\ book' \in [Records -> Row]
  BY <1>1, Transaction, WriteRecords
<1>3. rec \in Records /\ book \in [Records -> Row] /\ Made' = Made
  BY <1>1, <1>2 DEF Body, IInv, TypeOK, Made
<1>4. o \notin Recorded /\ req[s].state = book[rec].state
  BY <1>1 DEF LookIsCurrent
<1>5. book' = [book EXCEPT ![rec] = NewRow(s)] /\ audit' = audit \cup NewAudit(s)
  BY <1>1 DEF Write
<1>6. book'[rec] = NewRow(s) /\ \A r \in Records : r # rec => book'[r] = book[r]
  <2> HIDE DEF rec
  <2> QED BY <1>3, <1>5
<1> QED BY <1>1, <1>2, <1>3, <1>4, <1>5, <1>6

(* The log grows at its end.                                               *)
LEMMA LogGrows ==
  ASSUME IInv, NEW s \in Slots, Writes(s)
  PROVE  /\ DOMAIN log = 1..Len(log) /\ Len(log) \in Nat
         /\ DOMAIN log' = 1..(Len(log) + 1)
         /\ \A i \in DOMAIN log : log'[i] = log[i]
         /\ log'[Len(log) + 1] = req[s].op
<1>1. log \in Seq(Ops) /\ req[s].op \in Ops /\ log' = Append(log, req[s].op)
  BY Transaction DEF Writes, Write, IInv, TypeOK
<1>2. \A o \in Ops : log' = Append(log, o) =>
        /\ DOMAIN log = 1..Len(log) /\ Len(log) \in Nat
        /\ DOMAIN log' = 1..(Len(log) + 1)
        /\ \A i \in DOMAIN log : log'[i] = log[i]
        /\ log'[Len(log) + 1] = o
  BY <1>1
<1> QED BY <1>1, <1>2

(* What the row becomes.                                                   *)
Inserts(s) ==
  LET b == body[req[s].op] IN
  /\ b.kind = "insert" /\ book[b.rec].state = "none"
  /\ NewRow(s).state = "live" /\ NewRow(s).order = KeptOrder(s)
Alters(s) ==
  LET b == body[req[s].op] IN
  /\ b.kind = "update" /\ book[b.rec].state = "live" /\ NewRow(s).state = "live"
  /\ NewRow(s).branch = book[b.rec].branch
  /\ EntityOf[b.rec] # "draft" => NewRow(s).order = book[b.rec].order
Deletes(s) ==
  LET b == body[req[s].op] IN
  /\ b.kind = "softDelete" /\ book[b.rec].state = "live" /\ NewRow(s).state = "deleted"
  /\ NewRow(s).branch = book[b.rec].branch
  /\ NewRow(s).order = book[b.rec].order
Passes(s) ==
  LET b == body[req[s].op] IN
  /\ b.kind # "insert" /\ book[b.rec].state = "deleted" /\ NewRow(s) = book[b.rec]

LEMMA FourWays ==
  ASSUME IInv, LookIsCurrent, BookIsMade, NEW s \in Slots, Writes(s)
  PROVE  Inserts(s) \/ Alters(s) \/ Deletes(s) \/ Passes(s)
<1> DEFINE b == body[req[s].op]
           row == book[b.rec]
<1>1. /\ b \in Body /\ b.rec \in Records /\ req[s].state = row.state /\ row \in Row
      /\ req[s].op \in Made /\ req[s].op \notin Recorded
  BY WriteFacts
<1>2. b.kind = "insert" => row.state = "none"
  <2> SUFFICES ASSUME b.kind = "insert", row.state # "none" PROVE FALSE
    OBVIOUS
  <2>1. PICK p \in Recorded : body[p].kind = "insert" /\ body[p].rec = b.rec
    BY <1>1 DEF BookIsMade, Exists
  <2>2. p \in Made
    BY DEF BookIsMade
  <2>3. p = req[s].op
    BY <1>1, <2>1, <2>2 DEF BookIsMade
  <2> QED BY <1>1, <2>1, <2>3
<1>3. b.kind # "insert" => row.state # "none"
  <2>1. Refusal(s) = "ok" /\ ~req[s].seen
    BY DEF Writes
  <2> QED BY <1>1, <2>1 DEF Refusal
<1>4. row.state \in {"none", "live", "deleted"} /\ b.kind \in {"insert", "update", "softDelete"}
  BY <1>1 DEF Row, Body, Kinds
<1>5. CASE b.kind = "insert"
  BY <1>1, <1>2, <1>5 DEF NewRow, Inserts
<1>6. CASE b.kind # "insert" /\ row.state = "deleted"
  BY <1>1, <1>6 DEF NewRow, Passes
<1>7. CASE b.kind = "update" /\ row.state = "live"
  BY <1>1, <1>7 DEF NewRow, Alters, Row
<1>8. CASE b.kind = "softDelete" /\ row.state = "live"
  BY <1>1, <1>8 DEF NewRow, Deletes, Row
<1> QED BY <1>2, <1>3, <1>4, <1>5, <1>6, <1>7, <1>8

(* An operation that was made stays as it was made.                        *)
LEMMA BodiesStay ==
  ASSUME IInv, [Next]_vars
  PROVE  /\ \A o \in Made : body'[o] = body[o] /\ o \in Made'
         /\ body' = body \/ \E d \in Devices, b \in Bodies : enqueue(d, b)
<1>1. body' = body \/ \E d \in Devices, b \in Bodies : enqueue(d, b)
  BY DEF Next, Serve, Disturb, dropStuck, Send, Receive, GiveUp, LoseRequest, Commit, CommitUnheard,
     Guard, assertPlan, StartOp, FinishBatch, Look, Refuse, Fail, Emit, Crash, ChangeMember,
     ChangePlan, MoveOrder, device, vars
<1>2. ASSUME NEW d \in Devices, NEW b \in Bodies, enqueue(d, b), NEW o \in Made
      PROVE  body'[o] = body[o] /\ o \in Made'
  <2>1. o \in Ops /\ o[2] =< last[o[1]]
    BY DEF IInv, QueueIsMade
  <2>2. last[o[1]] \in Int /\ o[2] \in Int
    BY <2>1, OpIsPair, BoundAssumption DEF IInv, TypeOK
  <2>3. o # <<d, last[d] + 1>>
    BY <2>1, <2>2
  <2> QED BY <1>2, <2>1, <2>3 DEF enqueue, Made, IInv, TypeOK
<1> QED BY <1>1, <1>2 DEF Made

-----------------------------------------------------------------------------

(* How a record comes to be where it is.                                   *)

LEMMA BookMadeQuietly ==
  ASSUME IInv, BookIsMade, body' = body, UNCHANGED <<log, book>>
  PROVE  BookIsMade'
<1>1. Made' = Made /\ Recorded' = Recorded /\ \A r : Exists(r)' <=> Exists(r)
  BY DEF Made, Recorded, Exists
<1> QED BY <1>1 DEF BookIsMade

LEMMA BookMadeByEnqueue ==
  ASSUME IInv, BookIsMade, NEW d \in Devices, NEW b \in Bodies, enqueue(d, b)
  PROVE  BookIsMade'
<1> DEFINE n == <<d, last[d] + 1>>
<1>1. \A o \in Made : body'[o] = body[o] /\ o \in Made'
  BY BodiesStay DEF Next
<1>2. UNCHANGED <<log, book>> /\ Recorded' = Recorded /\ \A r : Exists(r)' <=> Exists(r)
  BY DEF enqueue, database, Recorded, Exists
<1>3. Made' \subseteq Made \cup {n} /\ (n \in Ops => body'[n] = b)
  <2>1. \A o \in Ops : body'[o] = IF o = n THEN b ELSE body[o]
    BY DEF enqueue, IInv, TypeOK
  <2> QED BY <2>1 DEF Made
<1>4. n \in Ops
  BY BoundAssumption DEF enqueue, Ops, IInv, TypeOK
<1>5. b.kind = "insert" => \A o \in Made : body[o].kind = "insert" => body[o].rec # b.rec
  BY DEF enqueue, Legal, Made
<1> HIDE DEF n
<1>6. Recorded' \subseteq Made'
  BY <1>1, <1>2 DEF BookIsMade
<1>7. \A o, p \in Made' : body'[o].kind = "insert" /\ body'[p].kind = "insert"
                           /\ body'[o].rec = body'[p].rec => o = p
  BY <1>1, <1>3, <1>4, <1>5 DEF BookIsMade
<1>8. \A o \in Recorded : body'[o] = body[o]
  BY <1>1 DEF BookIsMade
<1> QED BY <1>2, <1>6, <1>7, <1>8 DEF BookIsMade

LEMMA BookMadeByWrite ==
  ASSUME IInv, LookIsCurrent, BookIsMade, NEW s \in Slots, Writes(s)
  PROVE  BookIsMade'
<1> DEFINE o == req[s].op
           b == body[o]
<1>1. /\ o \in Made /\ o \in Ops /\ o \notin Recorded /\ b \in Body /\ b.rec \in Records
      /\ Recorded' = Recorded \cup {o} /\ Made' = Made /\ body' = body
      /\ book \in [Records -> Row] /\ book'[b.rec] = NewRow(s)
      /\ \A r \in Records : r # b.rec => book'[r] = book[r]
  BY WriteFacts
<1>2. \A i, j \in DOMAIN log' : log'[i] = log'[j] => i = j
  <2>1. \A i \in DOMAIN log : log[i] # o
    BY <1>1 DEF Recorded
  <2>2. /\ DOMAIN log = 1..Len(log) /\ Len(log) \in Nat
        /\ DOMAIN log' = 1..(Len(log) + 1)
        /\ \A i \in DOMAIN log : log'[i] = log[i]
        /\ log'[Len(log) + 1] = o
    BY LogGrows
  <2>3. \A i \in DOMAIN log' : i \in DOMAIN log \/ i = Len(log) + 1
    BY <2>2
  <2> QED BY <2>1, <2>2, <2>3 DEF BookIsMade
<1>3. CASE Inserts(s)
  <2>1. /\ b.kind = "insert" /\ book[b.rec].state = "none" /\ NewRow(s).state = "live"
    BY <1>3 DEF Inserts
  <2>2. ASSUME NEW r \in Records
        PROVE  /\ Exists(r)' <=> Exists(r) \/ r = b.rec
               /\ book'[r].state = "deleted" <=> book[r].state = "deleted"
               /\ ~Exists(r)' => ~Exists(r) /\ book'[r] = book[r]
    BY <1>1, <2>1 DEF Exists
  <2>3. ASSUME NEW r \in Payments, r = b.rec PROVE Exists(ParentOf[r])
    <3>1. Refusal(s) = "ok" /\ ~req[s].seen /\ req[s].state = "none"
      BY <2>1, WriteFacts DEF Writes
    <3> QED BY <2>1, <2>3, <3>1 DEF Refusal
  <2>4. \A r \in Payments : Exists(r)' => Exists(ParentOf[r])'
    BY <2>2, <2>3, BookAssumption DEF BookIsMade, Payments
  <2>5. \A r \in Records :
          /\ Exists(r)' => \E p \in Recorded' : body'[p].kind = "insert" /\ body'[p].rec = r
          /\ book'[r].state = "deleted" =>
               \E p \in Recorded' : body'[p].kind = "softDelete" /\ body'[p].rec = r
          /\ ~Exists(r)' => book'[r].order = NoOrder
    BY <1>1, <2>1, <2>2 DEF BookIsMade
  <2> HIDE DEF o, b
  <2> QED BY <1>1, <1>2, <2>4, <2>5 DEF BookIsMade
<1>4. CASE Alters(s) \/ Deletes(s) \/ Passes(s)
  <2>1. /\ book[b.rec].state # "none" /\ NewRow(s).state # "none"
        /\ NewRow(s).state = "deleted" => book[b.rec].state = "deleted" \/ b.kind = "softDelete"
    BY <1>4 DEF Alters, Deletes, Passes
  <2>2. ASSUME NEW r \in Records
        PROVE  /\ Exists(r)' <=> Exists(r)
               /\ book'[r].state = "deleted" =>
                    book[r].state = "deleted" \/ (r = b.rec /\ b.kind = "softDelete")
               /\ ~Exists(r)' => book'[r] = book[r]
    BY <1>1, <2>1 DEF Exists
  <2>3. \A r \in Payments : Exists(r)' => Exists(ParentOf[r])'
    BY <2>2, BookAssumption DEF BookIsMade, Payments
  <2>4. \A r \in Records :
          /\ Exists(r)' => \E p \in Recorded' : body'[p].kind = "insert" /\ body'[p].rec = r
          /\ book'[r].state = "deleted" =>
               \E p \in Recorded' : body'[p].kind = "softDelete" /\ body'[p].rec = r
          /\ ~Exists(r)' => book'[r].order = NoOrder
    BY <1>1, <2>2 DEF BookIsMade
  <2> HIDE DEF o, b
  <2> QED BY <1>1, <1>2, <2>3, <2>4 DEF BookIsMade
<1> QED BY <1>3, <1>4, FourWays

LEMMA BookMadeKept == IInv /\ LookIsCurrent /\ BookIsMade /\ [Next]_vars => BookIsMade'
<1> SUFFICES ASSUME IInv, LookIsCurrent, BookIsMade, [Next]_vars PROVE BookIsMade'
  OBVIOUS
<1>1. CASE \E s \in Slots : Writes(s)
  BY <1>1, BookMadeByWrite
<1>2. CASE \E d \in Devices, b \in Bodies : enqueue(d, b)
  BY <1>2, BookMadeByEnqueue
<1>3. CASE UNCHANGED <<log, book, audit>> /\ body' = body
  BY <1>3, BookMadeQuietly
<1> QED BY <1>1, <1>2, <1>3, WritesOrRests, BodiesStay

LEMMA BookMadeAlways == Spec => [](IInv /\ LookIsCurrent /\ BookIsMade)
<1>1. Init => BookIsMade
  BY BookAssumption DEF Init, BookIsMade, Recorded, Made, Exists, NoRow, Payments
<1> QED BY <1>1, CurrentAlways, BookMadeKept, PTL DEF Spec

-----------------------------------------------------------------------------
(* Deletions in the audit log.                                             *)

LEMMA DeletionsKept ==
  ASSUME IInv, LookIsCurrent, BookIsMade, DeletionsHeld, NEW s \in Slots, Writes(s)
  PROVE  DeletionsHeld'
<1> DEFINE o == req[s].op
           b == body[o]
<1>1. /\ b \in Body /\ b.rec \in Records /\ req[s].state = book[b.rec].state
      /\ book'[b.rec] = NewRow(s)
      /\ \A r \in Records : r # b.rec => book'[r] = book[r]
      /\ audit' = audit \cup NewAudit(s)
  BY WriteFacts
<1>2. \A e \in NewAudit(s) : e.rec = b.rec
  BY DEF NewAudit
<1> SUFFICES ASSUME NEW r \in Records, EntityOf[r] \in {"transaction", "payment"}
             PROVE  IF book'[r].state = "deleted"
                    THEN \E e \in audit' : Deletions(r)' = {e} ELSE Deletions(r)' = {}
  BY DEF DeletionsHeld
<1>3. Deletions(r)' = Deletions(r) \cup {e \in NewAudit(s) : e.rec = r /\ e.action # "receipt.updated"}
  BY <1>1 DEF Deletions
<1>4. audit \subseteq audit'
  BY <1>1
<1>5. CASE r # b.rec
  <2>1. Deletions(r)' = Deletions(r)
    BY <1>2, <1>3, <1>5
  <2> QED BY <1>1, <1>4, <1>5, <2>1 DEF DeletionsHeld
<1>6. CASE r = b.rec /\ Deletes(s)
  <2> DEFINE entry == [action |-> IF EntityOf[b.rec] = "transaction" THEN "receipt.deleted"
                                  ELSE "payment.voided", rec |-> b.rec, op |-> o]
  <2>1. b.kind = "softDelete" /\ book[r].state = "live" /\ book'[r].state = "deleted"
    BY <1>1, <1>6 DEF Deletes
  <2>2. NewAudit(s) = {entry}
    BY <1>1, <1>6, <2>1 DEF NewAudit
  <2>3. entry.rec = r /\ entry.action # "receipt.updated"
    BY <1>6
  <2> HIDE DEF entry
  <2>4. Deletions(r)' = {entry} /\ entry \in audit'
    BY <1>1, <1>3, <2>1, <2>2, <2>3 DEF DeletionsHeld
  <2> QED BY <2>1, <2>4
<1>7. CASE r = b.rec /\ ~Deletes(s)
  <2>1. book'[r].state = "deleted" <=> book[r].state = "deleted"
    BY <1>1, <1>7, FourWays DEF Inserts, Alters, Passes
  <2>2. \A e \in NewAudit(s) : e.action = "receipt.updated"
    <3>1. b.kind # "softDelete" \/ req[s].state # "live"
      BY <1>1, <1>7, FourWays DEF Inserts, Alters, Passes
    <3>2. CASE req[s].state # "live"
      <4>1. NewAudit(s) = {}
        BY <3>2 DEF NewAudit
      <4> QED BY <4>1
    <3>3. CASE req[s].state = "live" /\ b.kind # "softDelete"
      <4>1. NewAudit(s) \subseteq {[action |-> "receipt.updated", rec |-> b.rec, op |-> o]}
        BY <3>3 DEF NewAudit
      <4> QED BY <4>1
    <3> QED BY <3>1, <3>2, <3>3
  <2>3. Deletions(r)' = Deletions(r)
    BY <1>3, <2>2
  <2> QED BY <1>4, <2>1, <2>3 DEF DeletionsHeld
<1> QED BY <1>5, <1>6, <1>7

LEMMA DeletionsAlways == Spec => []DeletionsHeld
<1>1. Init => DeletionsHeld
  BY DEF Init, DeletionsHeld, Deletions, NoRow
<1>2. IInv /\ LookIsCurrent /\ BookIsMade /\ DeletionsHeld /\ [Next]_vars => DeletionsHeld'
  <2> SUFFICES ASSUME IInv, LookIsCurrent, BookIsMade, DeletionsHeld, [Next]_vars
               PROVE  DeletionsHeld'
    OBVIOUS
  <2>1. CASE \E s \in Slots : Writes(s)
    BY <2>1, DeletionsKept
  <2>2. CASE UNCHANGED <<log, book, audit>>
    BY <2>2 DEF DeletionsHeld, Deletions
  <2> QED BY <2>1, <2>2, WritesOrRests
<1> QED BY <1>1, <1>2, BookMadeAlways, PTL DEF Spec

(* A receipt that is deleted and a payment that is voided is in the audit  *)
(* log with one such entry, whoever deletes it, at once or again, and no   *)
(* other receipt or payment has one.                                       *)
THEOREM AuditedOnce == Spec => []DeletedAuditedOnce
<1>1. ASSUME DeletionsHeld PROVE DeletedAuditedOnce
  <2> SUFFICES ASSUME NEW r \in Records, EntityOf[r] \in {"transaction", "payment"}
               PROVE  Cardinality(Deletions(r)) = IF book[r].state = "deleted" THEN 1 ELSE 0
    BY DEF DeletedAuditedOnce, Deletions
  <2>1. CASE book[r].state = "deleted"
    <3>1. PICK e \in audit : Deletions(r) = {e}
      BY <1>1, <2>1 DEF DeletionsHeld
    <3> QED BY <2>1, <3>1, FS_Singleton
  <2>2. CASE book[r].state # "deleted"
    BY <1>1, <2>2, FS_EmptySet DEF DeletionsHeld
  <2> QED BY <2>1, <2>2
<1> QED BY <1>1, DeletionsAlways, PTL

-----------------------------------------------------------------------------

(* Orders and their events.                                                *)

EmitsInStage == \A s \in Slots : req[s].stage # "emit" => req[s].emit = NoOrder

(* What the rest of the database and the requests may do to the events.    *)
EventsQuiet ==
  /\ \A t \in Slots : /\ req'[t].emit \in {req[t].emit, NoOrder}
                      /\ req'[t].stage # "emit" => req'[t].emit = NoOrder
  /\ UNCHANGED <<events, book>>
  /\ \A o \in Orders : order'[o] = "fulfilled" <=> order[o] = "fulfilled"

LEMMA QuietSteps ==
  ASSUME IInv, EmitsInStage, [Next]_vars
  PROVE  \/ \E s \in Slots : Writes(s) /\ (Commit(s) \/ CommitUnheard(s))
         \/ \E s \in Slots : Emit(s)
         \/ EventsQuiet
<1>0. req \in [Slots -> Requests]
  BY DEF IInv, TypeOK
<1>1. ASSUME UNCHANGED <<req, events, book>>,
             \A o \in Orders : order'[o] = "fulfilled" <=> order[o] = "fulfilled"
      PROVE  EventsQuiet
  BY <1>1 DEF EventsQuiet, EmitsInStage
<1>2. ASSUME UNCHANGED <<events, book, order>>, NEW s \in Slots, NEW r,
             req' = [req EXCEPT ![s] = r], r.emit \in {req[s].emit, NoOrder},
             r.stage # "emit" => r.emit = NoOrder
      PROVE  EventsQuiet
  <2>1. \A t \in Slots : req'[t] = IF t = s THEN r ELSE req[t]
    BY <1>0, <1>2
  <2> QED BY <1>2, <2>1 DEF EventsQuiet, EmitsInStage
<1>3. ASSUME NEW s \in Slots, NEW code, NEW bad, Answer(s, code, bad),
             req[s].stage # "emit", UNCHANGED <<events, book, order>>
      PROVE  EventsQuiet
  <2> DEFINE r == Answered(req[s], code, bad)
  <2>1. req' = [req EXCEPT ![s] = r] /\ r.emit = req[s].emit
    BY <1>0, <1>3 DEF Answer, Answered, Requests
  <2> HIDE DEF r
  <2> QED BY <1>2, <1>3, <2>1 DEF EmitsInStage
<1>4. CASE \/ \E d \in Devices, b \in Bodies : enqueue(d, b)
           \/ \E d \in Devices : dropStuck(d)
           \/ \E d \in Devices, m \in Members : ChangeMember(d, m)
           \/ ChangePlan
           \/ UNCHANGED vars
  BY <1>1, <1>4 DEF enqueue, dropStuck, ChangeMember, ChangePlan, vars, database
<1>5. CASE \E o \in Orders, status \in {"accepted", "scheduled", "cancelled"} : MoveOrder(o, status)
  <2>1. PICK o \in Orders, status \in {"accepted", "scheduled", "cancelled"} : MoveOrder(o, status)
    BY <1>5
  <2>2. /\ order[o] # "fulfilled" /\ status # "fulfilled"
        /\ \A p \in Orders : order'[p] = IF p = o THEN status ELSE order[p]
    BY <2>1 DEF MoveOrder, OpenStatus, IInv, TypeOK
  <2> QED BY <1>1, <2>1, <2>2 DEF MoveOrder
<1>6. ASSUME NEW d \in Devices, NEW s \in Slots, Send(d, s) PROVE EventsQuiet
  <2> DEFINE r == [Free EXCEPT !.stage = "guard", !.dev = d, !.awaited = TRUE, !.todo = NextBatch(d)]
  <2>1. req' = [req EXCEPT ![s] = r] /\ r.emit = NoOrder
    BY <1>6 DEF Send, Free
  <2> HIDE DEF r
  <2> QED BY <1>2, <1>6, <2>1 DEF Send, database
<1>7. ASSUME NEW s \in Slots, Receive(s) \/ LoseRequest(s) PROVE EventsQuiet
  BY <1>2, <1>7 DEF Receive, LoseRequest, Free, database
<1>8. ASSUME NEW s \in Slots, Guard(s) PROVE EventsQuiet
  <2> DEFINE r == [req[s] EXCEPT !.stage = "plan", !.member = member[req[s].dev]]
  <2>1. req[s].stage = "guard" /\ UNCHANGED <<events, book, order>>
    BY <1>8 DEF Guard, database
  <2>2. req' = [req EXCEPT ![s] = r] \/ Answer(s, "FORBIDDEN", NoOp)
    BY <1>8 DEF Guard
  <2>3. r.emit = req[s].emit
    BY <1>0 DEF Requests
  <2> HIDE DEF r
  <2> QED BY <1>2, <1>3, <2>1, <2>2, <2>3 DEF EmitsInStage
<1>9. ASSUME NEW s \in Slots, assertPlan(s) PROVE EventsQuiet
  <2> DEFINE r == [req[s] EXCEPT !.stage = "next"]
  <2>1. req[s].stage = "plan" /\ UNCHANGED <<events, book, order>>
    BY <1>9 DEF assertPlan, database
  <2>2. req' = [req EXCEPT ![s] = r] \/ Answer(s, "PLAN_EXPIRED", NoOp)
    BY <1>9 DEF assertPlan
  <2>3. r.emit = req[s].emit
    BY <1>0 DEF Requests
  <2> HIDE DEF r
  <2> QED BY <1>2, <1>3, <2>1, <2>2, <2>3 DEF EmitsInStage
<1>10. ASSUME NEW s \in Slots, NEW o \in Ops, StartOp(s, o) PROVE EventsQuiet
  <2> DEFINE r == [req[s] EXCEPT !.stage = "wait", !.op = o]
  <2>1. req[s].stage = "next" /\ UNCHANGED <<events, book, order>>
    BY <1>10 DEF StartOp, database
  <2>2. req' = [req EXCEPT ![s] = r] \/ Answer(s, "FORBIDDEN", o)
    BY <1>10 DEF StartOp
  <2>3. r.emit = req[s].emit
    BY <1>0 DEF Requests
  <2> HIDE DEF r
  <2> QED BY <1>2, <1>3, <2>1, <2>2, <2>3 DEF EmitsInStage
<1>11. ASSUME NEW s \in Slots, Look(s) PROVE EventsQuiet
  <2> DEFINE r == [req[s] EXCEPT !.stage = "looked", !.seen = (req[s].op \in Recorded),
                                 !.state = book[body[req[s].op].rec].state]
  <2>1. req[s].stage = "wait" /\ UNCHANGED <<events, book, order>> /\ req' = [req EXCEPT ![s] = r]
    BY <1>11 DEF Look, database
  <2>2. r.emit = req[s].emit
    BY <1>0 DEF Requests
  <2> HIDE DEF r
  <2> QED BY <1>2, <2>1, <2>2 DEF EmitsInStage
<1>12. ASSUME NEW s \in Slots, \/ FinishBatch(s) \/ Refuse(s)
                               \/ \E code \in {"RATE_LIMITED", "INTERNAL"} : Fail(s, code)
       PROVE  EventsQuiet
  BY <1>3, <1>12 DEF FinishBatch, Refuse, Fail, database
<1>13. ASSUME NEW s \in Slots, GiveUp(s) PROVE EventsQuiet
  <2> DEFINE r == [req[s] EXCEPT !.awaited = FALSE]
  <2>1. req' = [req EXCEPT ![s] = r] /\ UNCHANGED <<events, book, order>>
    BY <1>13 DEF GiveUp, database
  <2>2. r.emit = req[s].emit /\ r.stage = req[s].stage
    BY <1>0 DEF Requests
  <2> HIDE DEF r
  <2> QED BY <1>2, <2>1, <2>2 DEF EmitsInStage
<1>14. ASSUME NEW s \in Slots, Commit(s) \/ CommitUnheard(s), ~Writes(s) PROVE EventsQuiet
  <2>1. req[s].seen /\ req[s].stage = "looked"
    BY <1>14 DEF Commit, CommitUnheard, Writes, device
  <2>2. UNCHANGED <<events, book, order>>
    BY <1>14, <2>1 DEF Commit, CommitUnheard, Write, database
  <2>3. CASE CommitUnheard(s)
    BY <1>3, <2>1, <2>2, <2>3 DEF CommitUnheard
  <2>4. CASE Commit(s)
    <3> DEFINE r == [req[s] EXCEPT !.stage = "next", !.emit = NoOrder, !.todo = @ \ {req[s].op},
                                   !.done = @ \cup {req[s].op}, !.op = NoOp]
    <3>1. req' = [req EXCEPT ![s] = r]
      BY <1>0, <2>1, <2>4 DEF Commit, Requests
    <3>2. r.emit = NoOrder
      BY <1>0 DEF Requests
    <3> HIDE DEF r
    <3> QED BY <1>2, <2>2, <3>1, <3>2
  <2> QED BY <1>14, <2>3, <2>4
<1>15. CASE Crash
  BY <1>15 DEF Crash, EventsQuiet, Free, database
<1> QED BY <1>4, <1>5, <1>6, <1>7, <1>8, <1>9, <1>10, <1>11, <1>12, <1>13, <1>14, <1>15
       DEF Next, Serve, Disturb

-----------------------------------------------------------------------------

LEMMA EventsKeptQuietly ==
  ASSUME EventsHeld, EventsQuiet
  PROVE  EventsHeld'
<1>1. \A t \in Slots : req'[t].stage # "emit" => req'[t].emit = NoOrder
  BY DEF EventsQuiet
<1>2. ASSUME NEW o \in Orders
      PROVE  Emitting(o)' \subseteq Emitting(o)
  BY BookAssumption DEF EventsQuiet, Emitting
<1>3. ASSUME NEW o \in Orders, order[o] = "fulfilled"
      PROVE  /\ \E r \in Records : EntityOf[r] = "transaction" /\ book'[r].order = o
             /\ \/ events'[o] = 0 /\ (Emitting(o)' = {} \/ \E s \in Slots : Emitting(o)' = {s})
                \/ events'[o] = 1 /\ Emitting(o)' = {}
  BY <1>2, <1>3 DEF EventsHeld, EventsQuiet
<1>4. ASSUME NEW o \in Orders, order[o] # "fulfilled"
      PROVE  events'[o] = 0 /\ Emitting(o)' = {}
  BY <1>2, <1>4 DEF EventsHeld, EventsQuiet
<1> QED BY <1>1, <1>3, <1>4 DEF EventsHeld, EventsQuiet

(* The event goes out: one request less has it.                            *)
LEMMA EventsKeptByEmit ==
  ASSUME IInv, EventsHeld, NEW s \in Slots, Emit(s)
  PROVE  EventsHeld'
<1>0. PICK p \in Orders : p = req[s].emit
  BY Start DEF Emit, Fine
<1>1. /\ req[s].stage = "emit" /\ req[s].emit = p
      /\ events' = [events EXCEPT ![p] = @ + 1] /\ UNCHANGED <<order, book>>
  BY <1>0 DEF Emit, database
<1>2. \A t \in Slots : IF t = s THEN req'[t].stage = "next" /\ req'[t].emit = NoOrder
                                ELSE req'[t] = req[t]
  BY DEF Emit, IInv, TypeOK, Requests
<1>3. events \in [Orders -> Nat]
  BY DEF IInv, TypeOK
<1>4. \A t \in Slots : req'[t].stage # "emit" => req'[t].emit = NoOrder
  BY <1>2 DEF EventsHeld
<1>5. \A o \in Orders : Emitting(o)' = Emitting(o) \ {s}
  BY <1>2, BookAssumption DEF Emitting
<1>6. s \in Emitting(p)
  BY <1>1 DEF Emitting
<1>7. /\ order[p] = "fulfilled" /\ events[p] = 0 /\ Emitting(p) = {s}
  BY <1>1, <1>6 DEF EventsHeld
<1>8. events'[p] = 1 /\ Emitting(p)' = {}
  <2>1. events'[p] = events[p] + 1
    BY <1>1, <1>3
  <2>2. Emitting(p)' = {s} \ {s}
    BY <1>1, <1>5, <1>7
  <2> QED BY <1>7, <2>1, <2>2
<1>9. \A o \in Orders \ {p} : events'[o] = events[o] /\ Emitting(o)' = Emitting(o)
  <2>1. \A o \in Orders \ {p} : s \notin Emitting(o)
    BY <1>1 DEF Emitting
  <2> QED BY <1>1, <1>3, <1>5, <2>1
<1>10. ASSUME NEW o \in Orders
       PROVE  IF order'[o] = "fulfilled"
              THEN /\ \E r \in Records : EntityOf[r] = "transaction" /\ book'[r].order = o
                   /\ \/ events'[o] = 0 /\ (Emitting(o)' = {} \/ \E t \in Slots : Emitting(o)' = {t})
                      \/ events'[o] = 1 /\ Emitting(o)' = {}
              ELSE events'[o] = 0 /\ Emitting(o)' = {}
  <2>1. CASE o = p
    BY <1>1, <1>7, <1>8, <2>1 DEF EventsHeld
  <2>2. CASE o # p
    <3>1. events'[o] = events[o] /\ Emitting(o)' = Emitting(o) /\ order' = order /\ book' = book
      BY <1>1, <1>9, <2>2
    <3> QED BY <3>1 DEF EventsHeld
  <2> QED BY <2>1, <2>2
<1> QED BY <1>4, <1>10 DEF EventsHeld

(* A receipt keeps its order for good.                                     *)
LEMMA ReceiptsKeepOrders ==
  ASSUME IInv, LookIsCurrent, BookIsMade, NEW s \in Slots, Writes(s),
         NEW r \in Records, EntityOf[r] = "transaction", book[r].order \in Orders
  PROVE  book'[r].order = book[r].order
<1>1. CASE r # body[req[s].op].rec
  BY <1>1, WriteFacts
<1>2. CASE r = body[req[s].op].rec
  <2>1. book'[r] = NewRow(s)
    BY <1>2, WriteFacts
  <2>2. ~Inserts(s)
    BY <1>2, BookAssumption DEF Inserts, BookIsMade, Exists
  <2> QED BY <1>2, <2>1, <2>2, FourWays DEF Alters, Deletes, Passes
<1> QED BY <1>1, <1>2

LEMMA EventsKeptByWrite ==
  ASSUME IInv, LookIsCurrent, BookIsMade, EventsHeld, NEW s \in Slots, Writes(s),
         Commit(s) \/ CommitUnheard(s)
  PROVE  EventsHeld'
<1> DEFINE kept == KeptOrder(s)
           rec == body[req[s].op].rec
           emits == IF Commit(s) /\ Fulfils(s) THEN kept ELSE NoOrder
<1>1. req[s].stage = "looked" /\ ~req[s].seen /\ req[s].emit = NoOrder /\ UNCHANGED events
  BY DEF Writes, EventsHeld
<1>2. /\ \A t \in Slots \ {s} : req'[t] = req[t]
      /\ Commit(s) => req'[s].emit = IF Fulfils(s) THEN kept ELSE NoOrder
      /\ Commit(s) => req'[s].stage = IF Fulfils(s) THEN "emit" ELSE "next"
      /\ ~Commit(s) => req'[s].emit = NoOrder
  <2>1. req \in [Slots -> Requests]
    BY DEF IInv, TypeOK
  <2>2. CASE Commit(s)
    BY <1>1, <2>1, <2>2 DEF Commit, Requests
  <2>3. CASE ~Commit(s)
    BY <1>1, <2>1, <2>3 DEF CommitUnheard, Answer, Requests
  <2> QED BY <2>2, <2>3
<1>3. order' = IF Fulfils(s) THEN [order EXCEPT ![kept] = "fulfilled"] ELSE order
  BY <1>1 DEF Writes, Write
<1>4. order \in [Orders -> Status]
  BY DEF IInv, TypeOK
<1>5. Fulfils(s) => /\ kept \in Orders /\ order[kept] # "fulfilled"
                    /\ rec \in Records /\ EntityOf[rec] = "transaction" /\ book'[rec].order = kept
  <2> SUFFICES ASSUME Fulfils(s) PROVE /\ kept \in Orders /\ order[kept] # "fulfilled"
                    /\ rec \in Records /\ EntityOf[rec] = "transaction" /\ book'[rec].order = kept
    OBVIOUS
  <2>1. kept \in Orders
    BY <1>1, KeptOrderTyped
  <2>2. order[kept] # "fulfilled" /\ EntityOf[rec] = "transaction"
    BY DEF Fulfils, OpenStatus
  <2>3. Inserts(s)
    BY FourWays, WriteFacts DEF Fulfils, Alters, Deletes, Passes
  <2>4. rec \in Records /\ book'[rec] = NewRow(s)
    BY WriteFacts
  <2> QED BY <2>1, <2>2, <2>3, <2>4 DEF Inserts
<1> HIDE DEF kept, rec
<1>6. \A t \in Slots : req'[t].stage # "emit" => req'[t].emit = NoOrder
  BY <1>1, <1>2 DEF EventsHeld
<1>7. ASSUME NEW o \in Orders, ~(Fulfils(s) /\ o = kept)
      PROVE  order'[o] = order[o] /\ Emitting(o)' = Emitting(o)
  <2>1. order'[o] = order[o]
    BY <1>3, <1>4, <1>5, <1>7
  <2>2. \A t \in Slots : req'[t].emit = o <=> req[t].emit = o
    BY <1>1, <1>2, <1>7, BookAssumption
  <2> QED BY <2>1, <2>2 DEF Emitting
<1>8. ASSUME NEW o \in Orders, \E r \in Records : EntityOf[r] = "transaction" /\ book[r].order = o
      PROVE  \E r \in Records : EntityOf[r] = "transaction" /\ book'[r].order = o
  BY <1>8, ReceiptsKeepOrders
<1>9. ASSUME NEW o \in Orders, Fulfils(s), o = kept
      PROVE  /\ order'[o] = "fulfilled"
             /\ \E r \in Records : EntityOf[r] = "transaction" /\ book'[r].order = o
             /\ events'[o] = 0 /\ (Emitting(o)' = {} \/ \E t \in Slots : Emitting(o)' = {t})
  <2>1. events[o] = 0 /\ Emitting(o) = {}
    BY <1>5, <1>9 DEF EventsHeld
  <2>2. Emitting(o)' \subseteq {s}
    BY <1>2, <2>1 DEF Emitting
  <2>3. Emitting(o)' = {} \/ Emitting(o)' = {s}
    BY <2>2
  <2> QED BY <1>1, <1>3, <1>4, <1>5, <1>9, <2>1, <2>3
<1> QED BY <1>1, <1>6, <1>7, <1>8, <1>9 DEF EventsHeld

LEMMA EventsAlways == Spec => []EventsHeld
<1>1. Init => EventsHeld
  BY BookAssumption DEF Init, EventsHeld, Emitting, Free
<1>2. IInv /\ LookIsCurrent /\ BookIsMade /\ EventsHeld /\ [Next]_vars => EventsHeld'
  <2> SUFFICES ASSUME IInv, LookIsCurrent, BookIsMade, EventsHeld, [Next]_vars PROVE EventsHeld'
    OBVIOUS
  <2>1. CASE \E s \in Slots : Writes(s) /\ (Commit(s) \/ CommitUnheard(s))
    BY <2>1, EventsKeptByWrite
  <2>2. CASE \E s \in Slots : Emit(s)
    BY <2>2, EventsKeptByEmit
  <2>3. CASE EventsQuiet
    BY <2>3, EventsKeptQuietly
  <2>4. EmitsInStage
    BY DEF EventsHeld, EmitsInStage
  <2> QED BY <2>1, <2>2, <2>3, <2>4, QuietSteps
<1> QED BY <1>1, <1>2, BookMadeAlways, PTL DEF Spec

(* An order that is fulfilled is named by a receipt of the book, and its   *)
(* event is with at most one request or has gone out once, however the     *)
(* receipt is sent again and the commit or the server fails.               *)
THEOREM OrdersAreFulfilled == Spec => []FulfilledByReceipt
<1>1. ASSUME EventsHeld PROVE FulfilledByReceipt
  <2> SUFFICES ASSUME NEW o \in Orders
               PROVE  /\ order[o] = "fulfilled" =>
                           \E r \in Records : EntityOf[r] = "transaction" /\ book[r].order = o
                      /\ events[o] + Cardinality(Emitting(o))
                           =< IF order[o] = "fulfilled" THEN 1 ELSE 0
    BY DEF FulfilledByReceipt, Emitting
  <2>1. Cardinality({}) = 0 /\ \A s : Cardinality({s}) = 1
    BY FS_EmptySet, FS_Singleton
  <2>2. CASE order[o] = "fulfilled"
    <3>1. \/ events[o] = 0 /\ (Emitting(o) = {} \/ \E s \in Slots : Emitting(o) = {s})
          \/ events[o] = 1 /\ Emitting(o) = {}
      BY <1>1, <2>2 DEF EventsHeld
    <3>2. Cardinality(Emitting(o)) = 0 \/ (events[o] = 0 /\ Cardinality(Emitting(o)) = 1)
      BY <2>1, <3>1
    <3>3. events[o] + Cardinality(Emitting(o)) =< 1
      BY <3>1, <3>2
    <3> QED BY <1>1, <2>2, <3>3 DEF EventsHeld
  <2>3. CASE order[o] # "fulfilled"
    BY <1>1, <2>1, <2>3 DEF EventsHeld
  <2> QED BY <2>2, <2>3
<1> QED BY <1>1, EventsAlways, PTL

-----------------------------------------------------------------------------

(* While memberships stay as they are: a refusal is final.                 *)

(* A request that changes and stays its device's own.                      *)
LEMMA OwnStep ==
  ASSUME IInv, OwnRequests, NEW s \in Slots, NEW r, req' = [req EXCEPT ![s] = r],
         UNCHANGED <<member, log, body>>, Own(r)
  PROVE  OwnRequests'
<1>1. \A t \in Slots : req'[t] = IF t = s THEN r ELSE req[t]
  BY DEF IInv, TypeOK
<1>2. \A t \in Slots : Own(req[t]) /\ Own(r)
  BY DEF OwnRequests
<1>3. Recorded' = Recorded /\ \A o : syncOpPermission(o)' = syncOpPermission(o)
  BY DEF Recorded, syncOpPermission
<1>4. ASSUME NEW t \in Slots PROVE Own(req[t])'
  <2>1. \A x : x = req'[t] => Own(x)
    BY <1>1, <1>2
  <2> QED BY <1>3, <2>1 DEF Own
<1>5. \A o \in Recorded : syncOpPermission(o)' \in member'[o[1]].may
  BY <1>3 DEF OwnRequests
<1> QED BY <1>3, <1>4, <1>5 DEF OwnRequests

LEMMA OwnAnswer ==
  ASSUME IInv, OwnRequests, NEW s \in Slots, NEW code, NEW bad, Answer(s, code, bad),
         UNCHANGED <<member, log, body>>
  PROVE  OwnRequests'
<1> DEFINE r == Answered(req[s], code, bad)
<1>1. req' = [req EXCEPT ![s] = r] /\ r.stage = "reply" /\ r.todo = {}
  BY Start DEF Answer, Answered, Requests
<1> HIDE DEF r
<1>2. Own(r)
  BY <1>1 DEF Own, InService, InTransaction
<1> QED BY <1>1, <1>2, OwnStep

(* What the transaction works on was made by a person who may.             *)
LEMMA OwnTransaction ==
  ASSUME IInv, OwnRequests, NEW s \in Slots, req[s].stage = "looked"
  PROVE  /\ req[s].member = member[req[s].op[1]]
         /\ syncOpPermission(req[s].op) \in member[req[s].op[1]].may
<1>1. req[s].op \in req[s].todo
  BY Start DEF Fine, InTransaction
<1> QED BY <1>1 DEF OwnRequests, Own, InService, InTransaction

LEMMA OwnRequestsKept ==
  ASSUME IInv, LookIsCurrent, BookIsMade, OwnRequests, [Next]_vars, member' = member
  PROVE  OwnRequests'
<1>1. CASE \/ \E d \in Devices : dropStuck(d)
           \/ \E d \in Devices, m \in Members : ChangeMember(d, m)
           \/ ChangePlan
           \/ \E o \in Orders, status \in {"accepted", "scheduled", "cancelled"} : MoveOrder(o, status)
           \/ UNCHANGED vars
  <2>1. UNCHANGED <<req, log, body>>
    BY <1>1 DEF dropStuck, ChangeMember, ChangePlan, MoveOrder, vars, device, database
  <2>2. /\ Recorded' = Recorded /\ \A x : Own(x)' <=> Own(x)
        /\ \A o : syncOpPermission(o)' = syncOpPermission(o)
    BY <2>1 DEF Recorded, Own, syncOpPermission
  <2> QED BY <2>1, <2>2 DEF OwnRequests
<1>2. ASSUME NEW d \in Devices, NEW b \in Bodies, enqueue(d, b) PROVE OwnRequests'
  <2>1. UNCHANGED <<req, log>> /\ Recorded' = Recorded
    BY <1>2 DEF enqueue, database, Recorded
  <2>2. \A o \in Made : syncOpPermission(o)' = syncOpPermission(o)
    BY BodiesStay DEF syncOpPermission
  <2>3. \A o \in Recorded : syncOpPermission(o)' \in member'[o[1]].may
    BY <2>2 DEF OwnRequests, BookIsMade
  <2>4. ASSUME NEW s \in Slots PROVE Own(req[s])'
    <3>1. Own(req[s])
      BY DEF OwnRequests
    <3>2. req[s].stage \in InTransaction => req[s].op \in Made
      BY Start DEF Fine
    <3> QED BY <2>1, <2>2, <3>1, <3>2 DEF Own
  <2> QED BY <2>1, <2>3, <2>4 DEF OwnRequests
<1>3. ASSUME NEW d \in Devices, NEW s \in Slots, Send(d, s) PROVE OwnRequests'
  <2> DEFINE r == [Free EXCEPT !.stage = "guard", !.dev = d, !.awaited = TRUE, !.todo = NextBatch(d)]
  <2>1. req' = [req EXCEPT ![s] = r] /\ UNCHANGED <<log, body>>
    BY <1>3 DEF Send, device, database
  <2>2. r.stage = "guard" /\ r.dev = d /\ r.todo = NextBatch(d)
    BY DEF Free
  <2>3. \A o \in NextBatch(d) : o[1] = d
    BY DEF NextBatch, Queued
  <2> HIDE DEF r
  <2>4. Own(r)
    BY <2>2, <2>3 DEF Own, InService, InTransaction
  <2> QED BY <2>1, <2>4, OwnStep
<1>4. ASSUME NEW s \in Slots, Receive(s) \/ LoseRequest(s) PROVE OwnRequests'
  <2>1. req' = [req EXCEPT ![s] = Free] /\ UNCHANGED <<log, body>>
    BY <1>4 DEF Receive, LoseRequest, device, database
  <2>2. Own(Free)
    BY DEF Own, Free, InService, InTransaction
  <2> QED BY <2>1, <2>2, OwnStep
<1>5. ASSUME NEW s \in Slots, Guard(s) PROVE OwnRequests'
  <2> DEFINE r == [req[s] EXCEPT !.stage = "plan", !.member = member[req[s].dev]]
  <2>1. UNCHANGED <<log, body>> /\ (req' = [req EXCEPT ![s] = r] \/ Answer(s, "FORBIDDEN", NoOp))
    BY <1>5 DEF Guard, device, database
  <2>2. /\ r.stage = "plan" /\ r.dev = req[s].dev /\ r.todo = req[s].todo
        /\ r.member = member[req[s].dev]
    BY Start DEF Requests
  <2> HIDE DEF r
  <2>3. Own(r)
    BY <2>2 DEF OwnRequests, Own, InTransaction
  <2> QED BY <2>1, <2>3, OwnStep, OwnAnswer
<1>6. ASSUME NEW s \in Slots, assertPlan(s) PROVE OwnRequests'
  <2> DEFINE r == [req[s] EXCEPT !.stage = "next"]
  <2>1. UNCHANGED <<log, body>> /\ (req' = [req EXCEPT ![s] = r] \/ Answer(s, "PLAN_EXPIRED", NoOp))
    BY <1>6 DEF assertPlan, device, database
  <2>2. /\ r.stage = "next" /\ r.dev = req[s].dev /\ r.todo = req[s].todo
        /\ r.member = req[s].member /\ req[s].stage = "plan"
    BY <1>6, Start DEF assertPlan, Requests
  <2> HIDE DEF r
  <2>3. Own(r)
    BY <2>2 DEF OwnRequests, Own, InService, InTransaction
  <2> QED BY <2>1, <2>3, OwnStep, OwnAnswer
<1>7. ASSUME NEW s \in Slots, NEW o \in Ops, StartOp(s, o) PROVE OwnRequests'
  <2> DEFINE r == [req[s] EXCEPT !.stage = "wait", !.op = o]
  <2>1. UNCHANGED <<log, body>>
    BY <1>7 DEF StartOp, device, database
  <2>2. CASE syncOpPermission(o) \in req[s].member.may
    <3>1. req' = [req EXCEPT ![s] = r]
      BY <1>7, <2>2 DEF StartOp
    <3>2. /\ r.stage = "wait" /\ r.dev = req[s].dev /\ r.todo = req[s].todo
          /\ r.member = req[s].member /\ r.op = o /\ req[s].stage = "next"
      BY <1>7, Start DEF StartOp, Requests
    <3> HIDE DEF r
    <3>3. Own(r)
      BY <2>2, <3>2 DEF OwnRequests, Own, InService, InTransaction
    <3> QED BY <2>1, <3>1, <3>3, OwnStep
  <2>3. CASE syncOpPermission(o) \notin req[s].member.may
    BY <1>7, <2>1, <2>3, OwnAnswer DEF StartOp
  <2> QED BY <2>2, <2>3
<1>8. ASSUME NEW s \in Slots, Look(s) PROVE OwnRequests'
  <2> DEFINE r == [req[s] EXCEPT !.stage = "looked", !.seen = (req[s].op \in Recorded),
                                 !.state = book[body[req[s].op].rec].state]
  <2>1. UNCHANGED <<log, body>> /\ req' = [req EXCEPT ![s] = r]
    BY <1>8 DEF Look, device, database
  <2>2. /\ r.stage = "looked" /\ r.dev = req[s].dev /\ r.todo = req[s].todo
        /\ r.member = req[s].member /\ r.op = req[s].op /\ req[s].stage = "wait"
    BY <1>8, Start DEF Look, Requests
  <2> HIDE DEF r
  <2>3. Own(r)
    BY <2>2 DEF OwnRequests, Own, InService, InTransaction
  <2> QED BY <2>1, <2>3, OwnStep
<1>9. ASSUME NEW s \in Slots, \/ FinishBatch(s) \/ Refuse(s)
                              \/ \E code \in {"RATE_LIMITED", "INTERNAL"} : Fail(s, code)
      PROVE  OwnRequests'
  BY <1>9, OwnAnswer DEF FinishBatch, Refuse, Fail, device, database
<1>10. ASSUME NEW s \in Slots, GiveUp(s) PROVE OwnRequests'
  <2> DEFINE r == [req[s] EXCEPT !.awaited = FALSE]
  <2>1. UNCHANGED <<log, body>> /\ req' = [req EXCEPT ![s] = r]
    BY <1>10 DEF GiveUp, device, database
  <2>2. /\ r.stage = req[s].stage /\ r.dev = req[s].dev /\ r.todo = req[s].todo
        /\ r.member = req[s].member /\ r.op = req[s].op
    BY Start DEF Requests
  <2> HIDE DEF r
  <2>3. Own(r)
    BY <2>2 DEF OwnRequests, Own
  <2> QED BY <2>1, <2>3, OwnStep
<1>11. ASSUME NEW s \in Slots, Emit(s) PROVE OwnRequests'
  <2> DEFINE r == [req[s] EXCEPT !.stage = "next", !.emit = NoOrder]
  <2>1. UNCHANGED <<log, body>> /\ req' = [req EXCEPT ![s] = r]
    BY <1>11 DEF Emit, device, database
  <2>2. /\ r.stage = "next" /\ r.dev = req[s].dev /\ r.todo = req[s].todo
        /\ r.member = req[s].member /\ req[s].stage = "emit"
    BY <1>11, Start DEF Emit, Requests
  <2> HIDE DEF r
  <2>3. Own(r)
    BY <2>2 DEF OwnRequests, Own, InService, InTransaction
  <2> QED BY <2>1, <2>3, OwnStep
<1>12. ASSUME NEW s \in Slots, Commit(s) \/ CommitUnheard(s) PROVE OwnRequests'
  <2>1. /\ body' = body /\ req[s].stage = "looked"
        /\ Recorded' \subseteq Recorded \cup {req[s].op}
    BY <1>12, WriteRecords DEF Commit, CommitUnheard, device
  <2>2. \A o : syncOpPermission(o)' = syncOpPermission(o)
    BY <2>1 DEF syncOpPermission
  <2>3. \A o \in Recorded' : syncOpPermission(o)' \in member'[o[1]].may
    BY <2>1, <2>2, OwnTransaction DEF OwnRequests
  <2>4. /\ \A t \in Slots \ {s} : req'[t] = req[t]
        /\ req'[s].todo \subseteq req[s].todo /\ req'[s].dev = req[s].dev
        /\ req'[s].member = req[s].member
        /\ req'[s].stage \in {"next", "emit", "reply"}
    BY <1>12, Start DEF Commit, CommitUnheard, Answer, Requests
  <2>5. ASSUME NEW t \in Slots PROVE Own(req[t])'
    <3>1. Own(req[t])
      BY DEF OwnRequests
    <3>2. CASE t = s
      BY <2>1, <2>4, <3>1, <3>2 DEF Own, InService, InTransaction
    <3>3. CASE t # s
      BY <2>2, <2>4, <3>1, <3>3 DEF Own
    <3> QED BY <3>2, <3>3
  <2> QED BY <2>3, <2>5 DEF OwnRequests
<1>13. CASE Crash
  <2>1. UNCHANGED <<log, body>> /\ \A t \in Slots : req'[t] = Free
    BY <1>13 DEF Crash, device, database
  <2>2. Own(Free)'
    BY DEF Own, Free, InService, InTransaction
  <2>3. Recorded' = Recorded /\ \A o : syncOpPermission(o)' = syncOpPermission(o)
    BY <2>1 DEF Recorded, syncOpPermission
  <2> QED BY <2>1, <2>2, <2>3 DEF OwnRequests
<1> QED BY <1>1, <1>2, <1>3, <1>4, <1>5, <1>6, <1>7, <1>8, <1>9, <1>10, <1>11, <1>12, <1>13
        DEF Next, Serve, Disturb

-----------------------------------------------------------------------------

LEMMA KeyIsFree ==
  ASSUME LookIsCurrent, NEW s \in Slots, req[s].stage = "looked"
  PROVE  ~KeyTaken(s)
BY DEF LookIsCurrent, KeyTaken, Exists

(* Where the rule of a record looks for the branch.                        *)
PlaceOf(r) == IF RuleOf(r) = "parent" THEN ParentOf[r] ELSE r

LEMMA PlaceIsRecord ==
  ASSUME NEW r \in Records
  PROVE  PlaceOf(r) \in Records /\ (RuleOf(r) = "parent" <=> r \in Payments)
<1>1. EntityOf[r] \in Entities
  BY BookAssumption
<1>2. RuleOf(r) = "parent" <=> r \in Payments
  BY DEF RuleOf, Payments
<1> QED BY <1>2, BookAssumption DEF PlaceOf

(* What is refused for good is hopeless.                                   *)
LEMMA RefusedIsHopeless ==
  ASSUME IInv, LookIsCurrent, BookIsMade, OwnRequests, NEW s \in Slots, req[s].stage = "looked",
         Refusal(s) \notin {"ok", "PARENT_MISSING"}
  PROVE  Hopeless(req[s].op) /\ req[s].op \notin Recorded
<1> DEFINE o == req[s].op
           b == body[o]
           m == member[o[1]]
<1>1. /\ b \in Body /\ b.rec \in Records /\ req[s].member = m
      /\ req[s].state = book[b.rec].state /\ (req[s].seen <=> o \in Recorded)
  BY Transaction, OwnTransaction DEF LookIsCurrent, Body
<1>2. /\ PlaceOf(b.rec) \in Records /\ (RuleOf(b.rec) = "parent" <=> b.rec \in Payments)
      /\ RuleOf(b.rec) \in {"own", "parent", "none"}
  BY <1>1, PlaceIsRecord DEF RuleOf
<1>3. book[b.rec].state \in {"none", "live", "deleted"} /\ b.kind \in {"insert", "update", "softDelete"}
  BY <1>1 DEF IInv, TypeOK, Row, Body, Kinds
<1>4. ~req[s].seen /\ ~(b.kind = "insert" /\ req[s].state # "none")
  BY DEF Refusal
<1>5. /\ ~(b.kind # "insert" /\ req[s].state = "none")
      /\ ~(b.kind = "insert" /\ b.rec \in Payments /\ ~Exists(ParentOf[b.rec]))
  BY <1>4 DEF Refusal
<1>6. ASSUME b.kind = "insert" /\ b.rec \in Payments /\ ~InBranch(m, book[ParentOf[b.rec]].branch)
      PROVE  Hopeless(o)
  BY <1>2, <1>5, <1>6 DEF Hopeless, PlaceOf
<1>7. ASSUME b.kind = "insert" /\ RuleOf(b.rec) = "own" /\ ~MayAskFor(m, b.branch)
      PROVE  Hopeless(o)
  BY <1>7 DEF Hopeless
<1>8. ASSUME b.kind # "insert" /\ RuleOf(b.rec) # "none" /\ ~InBranch(m, BranchOfRow(b.rec))
      PROVE  Hopeless(o)
  <2>1. Exists(b.rec)
    BY <1>1, <1>5, <1>8 DEF Exists
  <2>2. CASE RuleOf(b.rec) = "own"
    BY <1>8, <2>1, <2>2 DEF Hopeless, BranchOfRow
  <2>3. CASE RuleOf(b.rec) = "parent"
    <3>1. Exists(ParentOf[b.rec])
      BY <1>2, <2>1, <2>3 DEF BookIsMade
    <3> QED BY <1>8, <2>3, <3>1 DEF Hopeless, BranchOfRow
  <2> QED BY <1>2, <1>8, <2>2, <2>3
<1>9. ASSUME ~b.sound /\ b.kind # "softDelete" /\ req[s].state # "deleted"
      PROVE  Hopeless(o)
  <2>1. CASE b.kind = "insert"
    BY <1>9, <2>1 DEF Hopeless
  <2>2. CASE b.kind = "update"
    BY <1>1, <1>5, <1>9, <2>2 DEF Hopeless, Exists
  <2> QED BY <1>3, <1>9, <2>1, <2>2
<1>10. \/ b.kind = "insert" /\ b.rec \in Payments /\ ~InBranch(m, book[ParentOf[b.rec]].branch)
       \/ b.kind = "insert" /\ RuleOf(b.rec) = "own" /\ ~MayAskFor(m, b.branch)
       \/ b.kind # "insert" /\ RuleOf(b.rec) # "none" /\ ~InBranch(m, BranchOfRow(b.rec))
       \/ ~b.sound /\ b.kind # "softDelete" /\ req[s].state # "deleted"
  BY <1>1, <1>4, <1>5 DEF Refusal
<1>11. Hopeless(o)
  BY <1>6, <1>7, <1>8, <1>9, <1>10
<1> QED BY <1>1, <1>4, <1>11

(* What is hopeless and still recorded is a change of a deleted row.       *)
LEMMA HopelessPasses ==
  ASSUME IInv, LookIsCurrent, BookIsMade, OwnRequests, NEW s \in Slots, Writes(s),
         Hopeless(req[s].op)
  PROVE  body[req[s].op].kind = "update" /\ book[body[req[s].op].rec].state = "deleted"
<1> DEFINE o == req[s].op
           b == body[o]
           m == member[o[1]]
<1>1. /\ b \in Body /\ b.rec \in Records /\ req[s].state = book[b.rec].state
      /\ req[s].stage = "looked" /\ ~req[s].seen /\ Refusal(s) = "ok"
  BY WriteFacts DEF Writes
<1>2. req[s].member = m /\ syncOpPermission(o) \in m.may
  BY <1>1, OwnTransaction
<1>3. RuleOf(b.rec) = "parent" <=> b.rec \in Payments
  BY <1>1, PlaceIsRecord
<1>4. book[b.rec].state \in {"none", "live", "deleted"} /\ b.kind \in {"insert", "update", "softDelete"}
  BY <1>1 DEF IInv, TypeOK, Row, Body, Kinds
<1>5. b.kind = "insert" => req[s].state = "none"
  BY <1>1, FourWays DEF Inserts, Alters, Deletes, Passes
<1>6. /\ ~(b.kind = "insert" /\ b.rec \in Payments /\ ~InBranch(m, book[ParentOf[b.rec]].branch))
      /\ ~(b.kind = "insert" /\ RuleOf(b.rec) = "own" /\ ~MayAskFor(m, b.branch))
      /\ ~(b.kind # "insert" /\ RuleOf(b.rec) # "none" /\ ~InBranch(m, BranchOfRow(b.rec)))
      /\ ~(~b.sound /\ b.kind # "softDelete" /\ req[s].state # "deleted")
  BY <1>1, <1>2, <1>5 DEF Refusal
<1>7. ~(RuleOf(b.rec) = "parent" /\ ~InBranch(m, book[ParentOf[b.rec]].branch))
  BY <1>3, <1>6 DEF BranchOfRow
<1>8. ~(b.kind # "insert" /\ RuleOf(b.rec) = "own" /\ ~InBranch(m, book[b.rec].branch))
  BY <1>6 DEF BranchOfRow
<1>9. ~b.sound /\ b.kind # "softDelete"
  BY <1>2, <1>6, <1>7, <1>8 DEF Hopeless
<1> QED BY <1>1, <1>4, <1>5, <1>6, <1>9

(* A row that exists goes on existing, in its branch.                      *)
LEMMA RowsStay ==
  ASSUME IInv, LookIsCurrent, BookIsMade, [Next]_vars, NEW r \in Records, Exists(r)
  PROVE  Exists(r)' /\ book'[r].branch = book[r].branch
<1>1. ASSUME NEW s \in Slots, Writes(s) PROVE Exists(r)' /\ book'[r].branch = book[r].branch
  <2>1. CASE r # body[req[s].op].rec
    BY <1>1, <2>1, WriteFacts DEF Exists
  <2>2. CASE r = body[req[s].op].rec
    <3>1. book'[r] = NewRow(s) /\ ~Inserts(s)
      BY <1>1, <2>2, WriteFacts DEF Inserts, Exists
    <3> QED BY <1>1, <2>2, <3>1, FourWays DEF Alters, Deletes, Passes, Exists
  <2> QED BY <2>1, <2>2
<1>2. CASE UNCHANGED <<log, book, audit>>
  BY <1>2 DEF Exists
<1> QED BY <1>1, <1>2, WritesOrRests

LEMMA HopelessStays ==
  ASSUME IInv, LookIsCurrent, BookIsMade, [Next]_vars, member' = member,
         NEW o \in Made, Hopeless(o)
  PROVE  Hopeless(o)'
<1> DEFINE b == body[o]
<1>1. b \in Body /\ b.rec \in Records /\ body'[o] = b
  BY MadeHasBody, BodiesStay DEF IInv, Body
<1>2. syncOpPermission(o)' = syncOpPermission(o)
  BY <1>1 DEF syncOpPermission
<1>3. Exists(b.rec) => Exists(b.rec)' /\ book'[b.rec].branch = book[b.rec].branch
  BY <1>1, RowsStay
<1>4. RuleOf(b.rec) = "parent" /\ Exists(ParentOf[b.rec]) =>
        Exists(ParentOf[b.rec])' /\ book'[ParentOf[b.rec]].branch = book[ParentOf[b.rec]].branch
  BY <1>1, PlaceIsRecord, RowsStay DEF PlaceOf
<1> QED BY <1>1, <1>2, <1>3, <1>4 DEF Hopeless

-----------------------------------------------------------------------------

(* What took no effect stays so.                                           *)
LEMMA VoidStays ==
  ASSUME IInv, BookIsMade, [Next]_vars, NEW n \in DOMAIN log
  PROVE  n \in DOMAIN log' /\ log'[n] = log[n] /\ VoidAt(n)' = VoidAt(n)
<1>1. /\ DOMAIN log \subseteq DOMAIN log'
      /\ \A i \in DOMAIN log : log'[i] = log[i]
  <2>1. ASSUME NEW s \in Slots, Writes(s)
        PROVE  DOMAIN log \subseteq DOMAIN log' /\ \A i \in DOMAIN log : log'[i] = log[i]
    BY <2>1, LogGrows
  <2> QED BY <2>1, WritesOrRests
<1>2. \A m \in 1..(n - 1) : m \in DOMAIN log
  <2>1. log \in Seq(Ops)
    BY DEF IInv, TypeOK
  <2>2. DOMAIN log = 1..Len(log) /\ Len(log) \in Nat
    BY <2>1
  <2> QED BY <2>2
<1>3. \A i \in DOMAIN log : body'[log[i]] = body[log[i]]
  BY BodiesStay DEF BookIsMade, Recorded
<1>4. VoidAt(n)' <=> VoidAt(n)
  BY <1>1, <1>2, <1>3 DEF VoidAt
<1>5. VoidAt(n) \in BOOLEAN /\ VoidAt(n)' \in BOOLEAN
  BY DEF VoidAt
<1> QED BY <1>1, <1>4, <1>5

LEMMA VoidGrows ==
  ASSUME IInv, BookIsMade, [Next]_vars
  PROVE  Void \subseteq Void'
BY VoidStays DEF Void

(* A hopeless operation is entered as void.                                *)
LEMMA EnteredAsVoid ==
  ASSUME IInv, LookIsCurrent, BookIsMade, OwnRequests, NEW s \in Slots, Writes(s),
         Hopeless(req[s].op), NEW n, n = Len(log) + 1
  PROVE  n \in DOMAIN log' /\ log'[n] = req[s].op /\ VoidAt(n)'
<1> DEFINE o == req[s].op
<1>1. body[o].kind = "update" /\ book[body[o].rec].state = "deleted" /\ body[o].rec \in Records
  BY HopelessPasses, WriteFacts
<1>2. PICK p \in Recorded : body[p].kind = "softDelete" /\ body[p].rec = body[o].rec
  BY <1>1 DEF BookIsMade
<1>3. PICK m \in DOMAIN log : p = log[m]
  BY DEF Recorded
<1>4. /\ DOMAIN log = 1..Len(log) /\ Len(log) \in Nat
      /\ n \in DOMAIN log' /\ log'[n] = o /\ log'[m] = p
  BY <1>3, LogGrows
<1>5. m \in 1..(n - 1)
  BY <1>3, <1>4
<1>6. body' = body
  BY WriteFacts
<1> HIDE DEF o
<1> QED BY <1>1, <1>2, <1>4, <1>5, <1>6 DEF VoidAt, o

(* What people are told was refused.                                       *)
LEMMA ToldStep ==
  ASSUME IInv, NEW s \in Slots, NEW r, req' = [req EXCEPT ![s] = r]
  PROVE  /\ \A o \in ToldRefused' : \/ o \in ToldRefused
                                    \/ r.stage = "reply" /\ ~isRetryable(r.code) /\ o = r.bad /\ o # NoOp
<1>1. \A t \in Slots : req'[t] = IF t = s THEN r ELSE req[t]
  BY DEF IInv, TypeOK
<1> QED BY <1>1 DEF ToldRefused

LEMMA ToldAnswer ==
  ASSUME IInv, NEW s \in Slots, NEW code, NEW bad, Answer(s, code, bad)
  PROVE  \A o \in ToldRefused' : o \in ToldRefused \/ (~isRetryable(code) /\ o = bad /\ o # NoOp)
<1> DEFINE r == Answered(req[s], code, bad)
<1>1. req' = [req EXCEPT ![s] = r] /\ r.code = code /\ r.bad = bad
  BY Start DEF Answer, Answered, Requests
<1> HIDE DEF r
<1> QED BY <1>1, ToldStep

(* A new refusal is of an operation that is hopeless and not recorded.     *)
LEMMA RefusedGrows ==
  ASSUME IInv, LookIsCurrent, BookIsMade, OwnRequests, [Next]_vars, member' = member,
         NEW o \in Refused'
  PROVE  o \in Refused \/ (o \in Made /\ Hopeless(o) /\ o \notin Recorded /\ log' = log)
<1>0. req \in [Slots -> Requests]
  BY DEF IInv, TypeOK
<1>1. CASE \/ \E d \in Devices, b \in Bodies : enqueue(d, b)
           \/ \E d \in Devices, m \in Members : ChangeMember(d, m)
           \/ ChangePlan
           \/ \E p \in Orders, status \in {"accepted", "scheduled", "cancelled"} : MoveOrder(p, status)
           \/ UNCHANGED vars
  <2>1. UNCHANGED <<req, conflict, dropped>>
    BY <1>1 DEF enqueue, ChangeMember, ChangePlan, MoveOrder, vars, device
  <2> QED BY <2>1 DEF Refused, ToldRefused
<1>2. CASE \E d \in Devices : dropStuck(d)
  <2>1. /\ UNCHANGED req /\ conflict' \subseteq conflict /\ dropped' \subseteq dropped \cup conflict
    BY <1>2 DEF dropStuck
  <2> QED BY <2>1 DEF Refused, ToldRefused
<1>3. ASSUME NEW s \in Slots, Receive(s) PROVE o \in Refused
  <2>1. req' = [req EXCEPT ![s] = Free] /\ req[s].stage = "reply" /\ dropped' = dropped
    BY <1>3 DEF Receive
  <2>2. o \in ToldRefused' => o \in ToldRefused
    <3>1. Free.stage # "reply"
      BY DEF Free
    <3> QED BY <2>1, <3>1, ToldStep
  <2>3. ASSUME o \in conflict', o \notin conflict
        PROVE  o \in ToldRefused
    <3>1. ~isRetryable(req[s].code) /\ o = req[s].bad /\ o \in queue
      BY <1>3, <2>3 DEF Receive
    <3>2. o # NoOp
      BY <3>1, BoundAssumption DEF IInv, TypeOK
    <3> QED BY <2>1, <3>1, <3>2 DEF ToldRefused
  <2> QED BY <2>1, <2>2, <2>3 DEF Refused
<1> DEFINE Same == conflict' = conflict /\ dropped' = dropped
<1>4. ASSUME Same, NEW s \in Slots, NEW code, NEW bad, Answer(s, code, bad),
             isRetryable(code) \/ bad = NoOp
      PROVE  o \in Refused
  BY <1>4, ToldAnswer DEF Refused
<1>5. ASSUME Same, NEW s \in Slots, \A t \in Slots \ {s} : req'[t] = req[t], req'[s].stage # "reply"
      PROVE  o \in Refused
  BY <1>5 DEF Refused, ToldRefused
<1>6. ASSUME NEW s \in Slots, \/ LoseRequest(s) \/ Look(s) \/ Emit(s) \/ Commit(s)
                              \/ \E d \in Devices : Send(d, s)
      PROVE  o \in Refused
  <2>1. Same
    BY <1>6 DEF LoseRequest, Look, Emit, Commit, Send, device
  <2>2. (\A t \in Slots \ {s} : req'[t] = req[t]) /\ req'[s].stage # "reply"
    <3>0. /\ Free.stage = "free"
          /\ \A d : [Free EXCEPT !.stage = "guard", !.dev = d, !.awaited = TRUE,
                                  !.todo = NextBatch(d)].stage = "guard"
      BY DEF Free
    <3>1. CASE LoseRequest(s) \/ \E d \in Devices : Send(d, s)
      BY <1>0, <3>0, <3>1 DEF LoseRequest, Send
    <3>2. CASE Look(s)
      BY <1>0, <3>2 DEF Look, Requests
    <3>3. CASE Emit(s)
      BY <1>0, <3>3 DEF Emit, Requests
    <3>4. CASE Commit(s)
      BY <1>0, <3>4 DEF Commit, Requests
    <3> QED BY <1>6, <3>1, <3>2, <3>3, <3>4
  <2> QED BY <1>5, <2>1, <2>2
<1>7. ASSUME NEW s \in Slots, \/ Guard(s) \/ assertPlan(s) \/ FinishBatch(s) \/ CommitUnheard(s)
                              \/ \E code \in {"RATE_LIMITED", "INTERNAL"} : Fail(s, code)
      PROVE  o \in Refused
  <2>1. Same
    BY <1>7 DEF Guard, assertPlan, FinishBatch, CommitUnheard, Fail, device
  <2>2. \/ \E code, bad : Answer(s, code, bad) /\ (isRetryable(code) \/ bad = NoOp)
        \/ req' = [req EXCEPT ![s].stage = "plan", ![s].member = member[req[s].dev]]
        \/ req' = [req EXCEPT ![s].stage = "next"]
    BY <1>7 DEF Guard, assertPlan, FinishBatch, CommitUnheard, Fail, isRetryable
  <2>3. ASSUME \/ req' = [req EXCEPT ![s].stage = "plan", ![s].member = member[req[s].dev]]
               \/ req' = [req EXCEPT ![s].stage = "next"]
        PROVE  (\A t \in Slots \ {s} : req'[t] = req[t]) /\ req'[s].stage # "reply"
    BY <1>0, <2>3 DEF Requests
  <2> HIDE DEF Same
  <2> QED BY <1>4, <1>5, <2>1, <2>2, <2>3
<1>8. ASSUME NEW s \in Slots, GiveUp(s) PROVE o \in Refused
  <2>1. Same
    BY <1>8 DEF GiveUp, device
  <2>2. \A t \in Slots : req'[t].stage = req[t].stage /\ req'[t].code = req[t].code
                          /\ req'[t].bad = req[t].bad
    BY <1>0, <1>8 DEF GiveUp, Requests
  <2> QED BY <2>1, <2>2 DEF Refused, ToldRefused
<1>9. CASE Crash
  <2>1. Same /\ \A t \in Slots : req'[t].stage = "free"
    BY <1>9 DEF Crash, Free, device
  <2> QED BY <2>1 DEF Refused, ToldRefused
<1>10. ASSUME NEW s \in Slots, NEW p \in Ops, StartOp(s, p)
       PROVE  o \in Refused \/ (o \in Made /\ Hopeless(o) /\ o \notin Recorded /\ log' = log)
  <2>1. Same /\ log' = log /\ req[s].stage = "next" /\ p \in req[s].todo
    BY <1>10 DEF StartOp, device, database
  <2>2. CASE syncOpPermission(p) \in req[s].member.may
    <3>1. (\A t \in Slots \ {s} : req'[t] = req[t]) /\ req'[s].stage # "reply"
      BY <1>0, <1>10, <2>2 DEF StartOp, Requests
    <3> QED BY <1>5, <2>1, <3>1
  <2>3. CASE syncOpPermission(p) \notin req[s].member.may
    <3>1. Answer(s, "FORBIDDEN", p)
      BY <1>10, <2>3 DEF StartOp
    <3>2. o \in Refused \/ o = p
      BY <2>1, <3>1, ToldAnswer DEF Refused
    <3>3. p \in Made
      BY <2>1, Start DEF Fine
    <3>4. req[s].member = member[p[1]]
      BY <2>1 DEF OwnRequests, Own, InService
    <3>5. syncOpPermission(p) \notin member[p[1]].may
      BY <2>3, <3>4
    <3>6. Hopeless(p) /\ p \notin Recorded
      BY <3>5 DEF Hopeless, OwnRequests
    <3> QED BY <2>1, <3>2, <3>3, <3>6
  <2> QED BY <2>2, <2>3
<1>11. ASSUME NEW s \in Slots, Refuse(s)
       PROVE  o \in Refused \/ (o \in Made /\ Hopeless(o) /\ o \notin Recorded /\ log' = log)
  <2>1. Same /\ log' = log /\ req[s].stage = "looked"
    BY <1>11 DEF Refuse, device, database
  <2>2. Refusal(s) # "ok" /\ Answer(s, Refusal(s), req[s].op)
    BY <1>11, <2>1, KeyIsFree DEF Refuse
  <2>3. o \in Refused \/ (~isRetryable(Refusal(s)) /\ o = req[s].op)
    BY <2>1, <2>2, ToldAnswer DEF Refused
  <2>4. CASE ~isRetryable(Refusal(s)) /\ o = req[s].op
    <3>1. Refusal(s) \notin {"ok", "PARENT_MISSING"}
      BY <2>2, <2>4 DEF isRetryable
    <3>2. Hopeless(o) /\ o \notin Recorded
      BY <2>1, <2>4, <3>1, RefusedIsHopeless
    <3>3. o \in Made
      BY <2>1, <2>4, Transaction
    <3> QED BY <2>1, <3>2, <3>3
  <2> QED BY <2>3, <2>4
<1> QED BY <1>1, <1>2, <1>3, <1>6, <1>7, <1>8, <1>9, <1>10, <1>11 DEF Next, Serve, Disturb

LEMMA RefusalsKept ==
  ASSUME IInv, LookIsCurrent, BookIsMade, OwnRequests, RefusalsHeld, [Next]_vars, member' = member
  PROVE  RefusalsHeld'
<1>1. Made \subseteq Made' /\ Void \subseteq Void'
  BY BodiesStay, VoidGrows
<1>2. ASSUME NEW o \in Refused' PROVE o \in Made' /\ Hopeless(o)'
  <2>1. o \in Made /\ Hopeless(o)
    BY RefusedGrows DEF RefusalsHeld
  <2> QED BY <1>1, <2>1, HopelessStays
<1>3. ASSUME NEW o \in Refused', o \in Recorded' PROVE o \in Void'
  <2>1. CASE o \in Recorded
    BY <1>1, <2>1, RefusedGrows DEF RefusalsHeld
  <2>2. ASSUME NEW s \in Slots, Writes(s), o \notin Recorded PROVE o \in Void'
    <3>1. o = req[s].op
      BY <1>3, <2>2, WriteFacts
    <3>2. Hopeless(req[s].op)
      BY <3>1, RefusedGrows DEF RefusalsHeld
    <3>3. \A n : n = Len(log) + 1 => n \in DOMAIN log' /\ log'[n] = req[s].op /\ VoidAt(n)'
      BY <2>2, <3>2, EnteredAsVoid
    <3>4. PICK n : n = Len(log) + 1
      OBVIOUS
    <3>5. n \in DOMAIN log' /\ log'[n] = o /\ VoidAt(n)'
      BY <3>1, <3>3, <3>4
    <3> QED BY <3>5 DEF Void
  <2>3. CASE UNCHANGED <<log, book, audit>>
    BY <1>3, <2>1, <2>3 DEF Recorded
  <2> QED BY <2>1, <2>2, <2>3, WritesOrRests
<1> QED BY <1>2, <1>3 DEF RefusalsHeld

(* All that is kept while memberships stay as they are.                    *)
Settled == IInv /\ LookIsCurrent /\ BookIsMade /\ OwnRequests /\ RefusalsHeld

LEMMA SettledAlways == Spec /\ MemberStays => []Settled
<1>1. Init => OwnRequests /\ RefusalsHeld
  BY DEF Init, OwnRequests, RefusalsHeld, Own, Free, Refused, ToldRefused, Recorded, InService,
         InTransaction
<1>2. Settled /\ [Next]_vars /\ [member' = member]_vars => OwnRequests' /\ RefusalsHeld'
  <2>1. ASSUME Settled, [Next]_vars, [member' = member]_vars PROVE OwnRequests' /\ RefusalsHeld'
    <3>1. member' = member
      BY <2>1 DEF vars
    <3> QED BY <2>1, <3>1, OwnRequestsKept, RefusalsKept DEF Settled
  <2> QED BY <2>1
<1> QED BY <1>1, <1>2, BookMadeAlways, PTL DEF Spec, MemberStays, Settled

(* While memberships stay as they are, an operation that the person was    *)
(* told is refused for good, or dropped for it, is not in the book and     *)
(* never comes into it, also from a request that was given up before; only *)
(* a change of a record that was deleted since is recorded, and changes    *)
(* nothing.                                                                *)
THEOREM RefusalIsFinal == Spec /\ MemberStays => []RefusedIsNotApplied
<1>1. Settled => RefusedIsNotApplied
  BY DEF Settled, RefusalsHeld, Refused, RefusedIsNotApplied
<1> QED BY <1>1, SettledAlways, PTL

-----------------------------------------------------------------------------

(* Push keeps the promise of Ledger.                                       *)

LedgerEntry(n) == [op |-> log[n], void |-> VoidAt(n)]
LedgerEntries == [n \in DOMAIN log |-> LedgerEntry(n)]

LEMMA EntriesAre ==
  ASSUME IInv
  PROVE  /\ DOMAIN log = 1..Len(log) /\ Len(log) \in Nat
         /\ DOMAIN LedgerEntries = 1..Len(log)
         /\ \A n \in DOMAIN log : LedgerEntries[n] = LedgerEntry(n)
         /\ Promise!Entered = Recorded
         /\ Promise!InForce = {log[i] : i \in {n \in DOMAIN log : ~VoidAt(n)}}
<1>1. log \in Seq(Ops)
  BY DEF IInv, TypeOK
<1>2. DOMAIN log = 1..Len(log) /\ Len(log) \in Nat
  BY <1>1
<1>3. DOMAIN LedgerEntries = 1..Len(log) /\ \A n \in DOMAIN log : LedgerEntries[n] = LedgerEntry(n)
  BY <1>2 DEF LedgerEntries
<1>4. \A n \in DOMAIN log : LedgerEntries[n].op = log[n] /\ LedgerEntries[n].void = VoidAt(n)
  <2> SUFFICES ASSUME NEW n \in DOMAIN log
               PROVE  LedgerEntries[n].op = log[n] /\ LedgerEntries[n].void = VoidAt(n)
    OBVIOUS
  <2>1. LedgerEntries[n] = [op |-> log[n], void |-> VoidAt(n)]
    BY <1>3 DEF LedgerEntry
  <2>2. VoidAt(n) = TRUE \/ VoidAt(n) = FALSE
    BY DEF VoidAt
  <2>3. ASSUME NEW v \in BOOLEAN, VoidAt(n) = v
        PROVE  LedgerEntries[n].op = log[n] /\ LedgerEntries[n].void = v
    <3>1. LedgerEntries[n] = [op |-> log[n], void |-> v]
      BY <2>1, <2>3
    <3> HIDE DEF LedgerEntries
    <3> QED BY <3>1
  <2> QED BY <2>2, <2>3
<1>5. Promise!Entered = {LedgerEntries[i].op : i \in DOMAIN LedgerEntries}
  BY DEF Promise!Entered, LedgerEntries, LedgerEntry
<1>6. Promise!InForce = {LedgerEntries[i].op : i \in {n \in DOMAIN LedgerEntries : ~LedgerEntries[n].void}}
  BY DEF Promise!InForce, LedgerEntries, LedgerEntry
<1>7. Promise!Entered = Recorded
  BY <1>2, <1>3, <1>4, <1>5 DEF Recorded
<1>8. Promise!InForce = {log[i] : i \in {n \in DOMAIN log : ~VoidAt(n)}}
  BY <1>2, <1>3, <1>4, <1>6
<1> QED BY <1>2, <1>3, <1>7, <1>8

LEMMA EntriesStay ==
  ASSUME IInv, BookIsMade, [Next]_vars, UNCHANGED log
  PROVE  LedgerEntries' = LedgerEntries
<1>1. \A n \in DOMAIN log : LedgerEntry(n)' = LedgerEntry(n)
  <2> SUFFICES ASSUME NEW n \in DOMAIN log PROVE LedgerEntry(n)' = LedgerEntry(n)
    OBVIOUS
  <2>1. log'[n] = log[n] /\ VoidAt(n)' = VoidAt(n)
    BY VoidStays
  <2> QED BY <2>1 DEF LedgerEntry
<1> QED BY <1>1 DEF LedgerEntries

LEMMA EntriesGrow ==
  ASSUME IInv, LookIsCurrent, BookIsMade, [Next]_vars, NEW s \in Slots, Writes(s),
         NEW n, n = Len(log) + 1
  PROVE  LedgerEntries' = Append(LedgerEntries, [op |-> req[s].op, void |-> VoidAt(n)'])
<1> DEFINE e == [op |-> req[s].op, void |-> VoidAt(n)']
           S == {LedgerEntries[i] : i \in 1..Len(log)} \cup {e}
<1>1. /\ DOMAIN log = 1..Len(log) /\ Len(log) \in Nat /\ n = Len(log) + 1
      /\ DOMAIN log' = 1..n /\ log'[n] = req[s].op
      /\ \A i \in DOMAIN log : log'[i] = log[i]
  BY LogGrows
<1>2. LedgerEntries = [i \in 1..Len(log) |-> LedgerEntry(i)]
  BY <1>1 DEF LedgerEntries
<1>3. LedgerEntries' = [i \in 1..n |-> LedgerEntry(i)']
  BY <1>1 DEF LedgerEntries
<1>4. \A i \in 1..Len(log) : LedgerEntry(i)' = LedgerEntry(i)
  <2> SUFFICES ASSUME NEW i \in 1..Len(log) PROVE LedgerEntry(i)' = LedgerEntry(i)
    OBVIOUS
  <2>1. log'[i] = log[i] /\ VoidAt(i)' = VoidAt(i)
    BY <1>1, VoidStays
  <2> QED BY <2>1 DEF LedgerEntry
<1>5. LedgerEntry(n)' = e
  BY <1>1 DEF LedgerEntry
<1> HIDE DEF e
<1>6. LedgerEntries \in Seq(S) /\ Len(LedgerEntries) = Len(log)
  BY <1>1, <1>2
<1>7. LedgerEntries' \in Seq(S) /\ Len(LedgerEntries') = n
  <2>1. \A i \in 1..n : LedgerEntry(i)' \in S
    BY <1>1, <1>2, <1>4, <1>5
  <2> QED BY <1>1, <1>3, <2>1
<1>8. /\ Append(LedgerEntries, e) \in Seq(S) /\ Len(Append(LedgerEntries, e)) = n
      /\ \A i \in 1..Len(log) : Append(LedgerEntries, e)[i] = LedgerEntries[i]
      /\ Append(LedgerEntries, e)[n] = e
  <2>1. e \in S
    OBVIOUS
  <2> QED BY <1>1, <1>6, <2>1, AppendProperties
<1>9. \A i \in 1..n : LedgerEntries'[i] = Append(LedgerEntries, e)[i]
  BY <1>1, <1>2, <1>3, <1>4, <1>5, <1>8
<1>10. LedgerEntries' = Append(LedgerEntries, e)
  BY <1>7, <1>8, <1>9, SeqEqual
<1> QED BY <1>10 DEF e

-----------------------------------------------------------------------------

(* A person writes: the operation is the next of its device.               *)
LEMMA EnqueueMakes ==
  ASSUME Settled, NEW d \in Devices, NEW b \in Bodies, enqueue(d, b)
  PROVE  Promise!Next
<1> DEFINE n == <<d, last[d] + 1>>
<1>1. n \in Ops /\ b # NoBody /\ last[d] \in Int
  BY BoundAssumption, BookAssumption, NoBodyIsNone DEF enqueue, Ops, Settled, IInv, TypeOK
<1>2. Made' = Made \cup {n}
  BY <1>1 DEF enqueue, Made, Settled, IInv, TypeOK
<1>3. n[1] = d /\ n[2] = last[d] + 1
  OBVIOUS
<1> HIDE DEF n
<1>4. n \notin Made
  BY <1>1, <1>3 DEF Settled, IInv, QueueIsMade
<1>5. Promise!Earlier(n) \subseteq Made
  <2> SUFFICES ASSUME NEW p \in Ops, p[1] = d, p[2] < last[d] + 1 PROVE p \in Made
    BY <1>3 DEF Promise!Earlier
  <2>1. p[2] \in Int
    BY OpIsPair
  <2>2. p[2] =< last[d]
    BY <1>1, <2>1
  <2> QED BY <2>2 DEF Settled, IInv, QueueIsMade
<1>6. dropped' = dropped /\ log' = log
  BY DEF enqueue, database
<1>7. LedgerEntries' = LedgerEntries
  BY <1>6, EntriesStay DEF Settled, Next
<1>8. Promise!Make(n)
  BY <1>2, <1>4, <1>5, <1>6, <1>7 DEF Promise!Make, LedgerEntries, LedgerEntry
<1> QED BY <1>1, <1>8 DEF Promise!Next

(* A person drops: nothing of it is in force.                              *)
LEMMA DropGivesUp ==
  ASSUME Settled, NEW d \in Devices, dropStuck(d)
  PROVE  Promise!Next
<1> DEFINE S == dropped' \ dropped
<1>1. S \subseteq conflict /\ dropped' = dropped \cup S
  BY DEF dropStuck
<1>2. Made' = Made /\ log' = log
  BY DEF dropStuck, database, Made
<1>3. conflict \subseteq Made
  BY DEF Settled, IInv, TypeOK, QueueIsMade
<1>4. ASSUME NEW o \in conflict, o \in Promise!InForce PROVE FALSE
  <2>1. PICK i \in DOMAIN log : ~VoidAt(i) /\ o = log[i]
    BY <1>4, EntriesAre DEF Settled
  <2>2. o \in Void
    BY <2>1 DEF Settled, RefusalsHeld, Refused, Recorded
  <2>3. PICK j \in DOMAIN log : VoidAt(j) /\ o = log[j]
    BY <2>2 DEF Void
  <2>4. i = j
    BY <2>1, <2>3 DEF Settled, BookIsMade
  <2> QED BY <2>1, <2>3, <2>4
<1>5. LedgerEntries' = LedgerEntries
  BY <1>2, EntriesStay DEF Settled, Next
<1> HIDE DEF S
<1>6. Promise!GiveUp(S)
  BY <1>1, <1>2, <1>3, <1>4, <1>5 DEF Promise!GiveUp, LedgerEntries, LedgerEntry
<1>7. S \in SUBSET (Made \ (dropped \cup Promise!InForce))
  BY <1>1, <1>3, <1>4 DEF S
<1> QED BY <1>6, <1>7 DEF Promise!Next

(* The server writes: what comes before is settled, and what the person    *)
(* gave up is hopeless and is entered as void.                             *)
LEMMA WriteEnters ==
  ASSUME Settled, [Next]_vars, NEW s \in Slots, Writes(s)
  PROVE  Promise!Next
<1> DEFINE o == req[s].op
<1>1. o \in Made /\ o \in Ops /\ o \notin Recorded /\ Made' = Made
  BY WriteFacts DEF Settled
<1>2. Before(o) \subseteq Recorded \cup dropped
  BY Transaction DEF Settled, Writes
<1>3. dropped' = dropped
  BY DEF Writes
<1>4. PICK n : n = Len(log) + 1
  OBVIOUS
<1>5. LedgerEntries' = Append(LedgerEntries, [op |-> o, void |-> VoidAt(n)'])
  BY <1>4, EntriesGrow DEF Settled
<1>6. o \in dropped => VoidAt(n)'
  BY <1>4, EnteredAsVoid DEF Settled, RefusalsHeld, Refused
<1>7. Promise!Entered = Recorded /\ Promise!Earlier(o) = Before(o)
  BY EntriesAre DEF Settled, Promise!Earlier, Before
<1> HIDE DEF o
<1>8. ASSUME NEW v \in BOOLEAN, v = VoidAt(n)' PROVE Promise!Enter(o, v)
  <2>1. LedgerEntries' = Append(LedgerEntries, [op |-> o, void |-> v])
    BY <1>5, <1>8
  <2>2. o \in dropped => v
    BY <1>6, <1>8
  <2> QED BY <1>1, <1>2, <1>3, <1>7, <2>1, <2>2 DEF Promise!Enter, LedgerEntries, LedgerEntry
<1>9. VoidAt(n)' \in BOOLEAN
  BY DEF VoidAt
<1>10. \E v \in BOOLEAN : Promise!Enter(o, v)
  BY <1>8, <1>9
<1> QED BY <1>1, <1>10 DEF Promise!Next

(* Whatever else happens: a stutter of the ledger.                         *)
LEMMA OthersLeaveLedger ==
  ASSUME Settled, [Next]_vars
  PROVE  \/ \E d \in Devices, b \in Bodies : enqueue(d, b)
         \/ \E d \in Devices : dropStuck(d)
         \/ \E s \in Slots : Writes(s)
         \/ UNCHANGED <<body, dropped, log>>
<1>1. \/ dropped' = dropped \/ \E d \in Devices : dropStuck(d)
  BY DEF Next, Serve, Disturb, enqueue, Send, Receive, GiveUp, LoseRequest, Commit, CommitUnheard,
     Guard, assertPlan, StartOp, FinishBatch, Look, Refuse, Fail, Emit, Crash, ChangeMember,
     ChangePlan, MoveOrder, device, vars
<1> QED BY <1>1, BodiesStay, WritesOrRests DEF Settled

(* While memberships stay as they are, push keeps the promise of Ledger:   *)
(* whatever is lost, sent again, overtaken or rolled back, an operation is *)
(* entered at most once, after those its device made before it, and one    *)
(* that its person gave up has no effect.                                  *)
THEOREM PushKeepsPromise == Spec /\ MemberStays => IsLedger
<1>1. Init => Promise!Init
  <2> SUFFICES ASSUME Init PROVE Promise!Init
    OBVIOUS
  <2>1. Made = {} /\ dropped = {} /\ log = <<>>
    BY DEF Init, Made
  <2>2. DOMAIN log = {}
    BY <2>1
  <2>3. [n \in DOMAIN log |-> [op |-> log[n], void |-> VoidAt(n)]] = <<>>
    BY <2>2
  <2> QED BY <2>1, <2>3 DEF Promise!Init
<1>2. Settled /\ [Next]_vars => [Promise!Next]_(Promise!vars)
  <2> SUFFICES ASSUME Settled, [Next]_vars PROVE Promise!Next \/ UNCHANGED Promise!vars
    BY DEF Promise!vars
  <2>1. ASSUME UNCHANGED <<body, dropped, log>> PROVE UNCHANGED Promise!vars
    <3>1. Made' = Made
      BY <2>1 DEF Made
    <3>2. LedgerEntries' = LedgerEntries
      BY <2>1, EntriesStay DEF Settled
    <3> QED BY <2>1, <3>1, <3>2 DEF Promise!vars, LedgerEntries, LedgerEntry
  <2> QED BY <2>1, OthersLeaveLedger, EnqueueMakes, DropGivesUp, WriteEnters
<1> QED BY <1>1, <1>2, SettledAlways, PTL DEF Spec, IsLedger, Promise!Spec

=============================================================================

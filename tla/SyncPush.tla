------------------------------ MODULE SyncPush ------------------------------
(***************************************************************************)
(* POST /v1/sync/push: devices of one organisation write in their own book *)
(* first, keep the operations in a queue, and send the queue in batches    *)
(* (tools/login-test/sync.js); the server applies each operation in a      *)
(* transaction of its own, under an advisory lock of the organisation, and *)
(* remembers its id in sync_ops (sync-push.service.ts).                    *)
(*                                                                         *)
(* A device that hears nothing gives up and may send the same operations   *)
(* again while the first request is still being served.                    *)
(*                                                                         *)
(* An operation is named <<device, seq>>: its opId is fixed when it is     *)
(* queued and its seq orders the queue of its device.                      *)
(***************************************************************************)
EXTENDS Integers, Sequences, FiniteSets

CONSTANTS
  Devices,     \* devices, one person at each
  Slots,       \* requests that the server can be serving at the same time
  Records,     \* record ids of the book
  EntityOf,    \* [Records -> Entities]
  ParentOf,    \* transaction_id of each payment
  Orders,      \* orders the receipts may name
  NoOrder,     \* orderId = null
  Branches,    \* values of a branch_id
  Whole,       \* branch_id = null, among Branches
  SeesOrder,   \* [Branches -> SUBSET Orders]: orders findOrderFor finds for a person there
  Members,     \* memberships a person may have: [branch, may]
  Bodies,      \* operations people may make: the subset of Body a run looks at
  Batch,       \* SYNC_PUSH_MAX_OPS
  Dropping,    \* TRUE: people drop refused operations (dropStuck)
  MaxOps,      \* bound: operations per device
  MaxChanges,  \* bound: changes of membership or plan
  MaxFaults,   \* bound: lost calls, failed transactions, server crashes
  NoOp, NoSlot

Entities == {"supplier", "buyer", "product", "pricingRule", "note", "draft", "transaction",
             "payment", "seasonContract"}
Kinds == {"insert", "update", "softDelete"}
Ops == Devices \X (1..MaxOps)

(* An operation as the app queues it.  `sound` is FALSE when the server    *)
(* will find its contents wrong: line totals that differ, a broken CHECK.  *)
(* `priceOnly`: the patch of a product changes lastPricePerUnit alone.     *)
Body == [kind: Kinds, rec: Records, branch: Branches, order: Orders \cup {NoOrder},
         sound: BOOLEAN, priceOnly: BOOLEAN]

Payments == {r \in Records : EntityOf[r] = "payment"}

Permissions == {"book:sync", "receipt:create", "receipt:delete", "payment:record",
                "payment:void", "partner:manage", "pricing:manage"}

ASSUME BookAssumption ==
  /\ EntityOf \in [Records -> Entities]
  /\ ParentOf \in [Payments -> {r \in Records : EntityOf[r] = "transaction"}]
  /\ NoOrder \notin Orders
  /\ Whole \in Branches
  /\ SeesOrder \in [Branches -> SUBSET Orders]
  /\ Members \subseteq [branch: Branches, may: SUBSET Permissions]
  /\ Bodies \subseteq Body

ASSUME BoundAssumption ==
  /\ Batch \in Nat \ {0} /\ MaxOps \in Nat /\ MaxChanges \in Nat /\ MaxFaults \in Nat
  /\ Dropping \in BOOLEAN
  /\ NoOp \notin Ops /\ NoSlot \notin Slots

VARIABLES
  \* at the devices
  last,      \* seq of the last operation queued on each device
  body,      \* contents of every operation queued so far
  queue,     \* operations still in the queue of their device
  conflict,  \* those marked `conflict`: refused for good, waiting for the person
  dropped,   \* operations people have dropped
  \* at the server
  req,       \* the requests being served
  lock,      \* pg_advisory_xact_lock of the organisation: the slot that holds it
  member,    \* membership of the person at each device
  plan,      \* TRUE: the organisation's plan has not run out
  \* in the database
  log,       \* sync_ops, in the order of the commits
  book,      \* the rows: [state, branch, order, note]
  audit,     \* audit_log entries of receipts and payments
  order,     \* status of each order
  \* domain events and bounds
  events,    \* order.fulfilled events emitted so far, for each order
  changes, faults

device == <<last, body, queue, conflict, dropped>>
database == <<log, book, audit, order>>
bounds == <<changes, faults>>
vars == <<device, req, lock, member, plan, database, events, bounds>>

-----------------------------------------------------------------------------
(* Types and initial state.                                                *)

NoBody == [kind |-> "none"]
Row == [state: {"none", "live", "deleted"}, branch: Branches, order: Orders \cup {NoOrder},
        note: Ops \cup {NoOp}]
NoRow == [state |-> "none", branch |-> Whole, order |-> NoOrder, note |-> NoOp]

OpenStatus == {"submitted", "accepted", "scheduled"}
Status == OpenStatus \cup {"fulfilled", "cancelled"}

Stages == {"free", "guard", "plan", "next", "wait", "looked", "emit", "reply"}
Codes == {"ok", "FORBIDDEN", "PLAN_EXPIRED", "PARENT_MISSING", "VALIDATION_FAILED",
          "RATE_LIMITED", "INTERNAL"}
(* Slip: every refusal is tried again.                                     *)
AlwaysRetryable(code) == code # "ok"

isRetryable(code) == code \in {"PARENT_MISSING", "RATE_LIMITED", "INTERNAL"}

Free == [stage |-> "free", dev |-> NoOp, awaited |-> FALSE, member |-> NoOp, todo |-> {},
         op |-> NoOp, done |-> {}, code |-> "ok", bad |-> NoOp, seen |-> FALSE, state |-> "none",
         emit |-> NoOrder]

Requests == [stage: Stages, dev: Devices \cup {NoOp}, awaited: BOOLEAN,
             member: Members \cup {NoOp}, todo: SUBSET Ops, op: Ops \cup {NoOp},
             done: SUBSET Ops, code: Codes, bad: Ops \cup {NoOp}, seen: BOOLEAN,
             state: {"none", "live", "deleted"}, emit: Orders \cup {NoOrder}]

Entries == [action: {"receipt.updated", "receipt.deleted", "payment.voided"},
            rec: Records, op: Ops]

TypeOK ==
  /\ last \in [Devices -> 0..MaxOps]
  /\ body \in [Ops -> Body \cup {NoBody}]
  /\ queue \subseteq Ops /\ conflict \subseteq queue /\ dropped \subseteq Ops
  /\ req \in [Slots -> Requests]
  /\ lock \in Slots \cup {NoSlot}
  /\ member \in [Devices -> Members]
  /\ plan \in BOOLEAN
  /\ log \in Seq(Ops)
  /\ book \in [Records -> Row]
  /\ audit \subseteq Entries
  /\ order \in [Orders -> Status]
  /\ events \in [Orders -> Nat]
  /\ changes \in 0..MaxChanges /\ faults \in 0..MaxFaults

Init ==
  /\ last = [d \in Devices |-> 0]
  /\ body = [o \in Ops |-> NoBody]
  /\ queue = {} /\ conflict = {} /\ dropped = {}
  /\ req = [s \in Slots |-> Free]
  /\ lock = NoSlot
  /\ member \in [Devices -> Members]
  /\ plan = TRUE
  /\ log = <<>>
  /\ book = [r \in Records |-> NoRow]
  /\ audit = {}
  /\ order = [o \in Orders |-> "submitted"]
  /\ events = [o \in Orders |-> 0]
  /\ changes = 0 /\ faults = 0

-----------------------------------------------------------------------------
(* The devices.                                                            *)

Recorded == {log[i] : i \in DOMAIN log}
Queued(d) == {o \in queue : o[1] = d}
Exists(r) == book[r].state # "none"

(* A device can name a record it made itself, or one a pull brought it.    *)
Knows(d, r) ==
  \/ Exists(r)
  \/ \E o \in Ops : o[1] = d /\ body[o] # NoBody /\ body[o].kind = "insert" /\ body[o].rec = r

(* A record id is a fresh uuid: it is inserted by one operation only.      *)
Legal(d, b) ==
  IF b.kind = "insert"
  THEN /\ \A o \in Ops : body[o] # NoBody /\ body[o].kind = "insert" => body[o].rec # b.rec
       /\ b.rec \in Payments => Knows(d, ParentOf[b.rec])
       /\ b.branch \in {Whole, member[d].branch}
  ELSE Knows(d, b.rec)

(* The person writes: the operation enters the queue, to be sent later.    *)
enqueue(d, b) ==
  /\ last[d] < MaxOps
  /\ Legal(d, b)
  /\ last' = [last EXCEPT ![d] = @ + 1]
  /\ body' = [body EXCEPT ![<<d, last[d] + 1>>] = b]
  /\ queue' = queue \cup {<<d, last[d] + 1>>}
  /\ UNCHANGED <<conflict, dropped, req, lock, member, plan, database, events, bounds>>

(* Slip: the marks of the dropped operations stay.                         *)
dropKeepingMarks(d) ==
  /\ Dropping
  /\ conflict \cap Queued(d) # {}
  /\ dropped' = dropped \cup (conflict \cap Queued(d))
  /\ queue' = queue \ (conflict \cap Queued(d))
  /\ UNCHANGED <<last, body, conflict, req, lock, member, plan, database, events, bounds>>

(* The person drops what was refused for good.                             *)
dropStuck(d) ==
  /\ Dropping
  /\ conflict \cap Queued(d) # {}
  /\ dropped' = dropped \cup (conflict \cap Queued(d))
  /\ queue' = queue \ (conflict \cap Queued(d))
  /\ conflict' = conflict \ Queued(d)
  /\ UNCHANGED <<last, body, req, lock, member, plan, database, events, bounds>>

(* Slip: operations behind a stuck one are sent as well.                   *)
SkippingBatch(d) ==
  LET able == Queued(d) \ conflict
  IN {o \in able : Cardinality({p \in able : p[2] < o[2]}) < Batch}

(* From the front of the queue, up to the first stuck operation.           *)
NextBatch(d) ==
  LET able == {o \in Queued(d) : \A c \in conflict \cap Queued(d) : o[2] < c[2]}
  IN {o \in able : Cardinality({p \in able : p[2] < o[2]}) < Batch}

Waits(d) == \E s \in Slots : req[s].dev = d /\ req[s].awaited

Send(d, s) ==
  /\ ~Waits(d) /\ req[s] = Free
  /\ NextBatch(d) # {}
  /\ req' = [req EXCEPT ![s] = [Free EXCEPT !.stage = "guard", !.dev = d, !.awaited = TRUE,
                                            !.todo = NextBatch(d)]]
  /\ UNCHANGED <<device, lock, member, plan, database, events, bounds>>

(* Slip: everything the answer speaks of leaves the queue.                 *)
ReceiveAll(s) ==
  /\ req[s].stage = "reply"
  /\ queue' = queue \ (req[s].done \cup {req[s].bad})
  /\ conflict' = conflict \cap queue'
  /\ req' = [req EXCEPT ![s] = Free]
  /\ UNCHANGED <<last, body, dropped, lock, member, plan, database, events, bounds>>

(* The answer arrives: what is applied or duplicate leaves the queue, what *)
(* cannot be retried is marked.  A device that gave up hears nothing.      *)
Receive(s) ==
  LET marked == IF isRetryable(req[s].code) THEN {} ELSE {req[s].bad} \cap queue IN
  /\ req[s].stage = "reply"
  /\ IF req[s].awaited
     THEN /\ queue' = queue \ req[s].done
          /\ conflict' = (conflict \ req[s].done) \cup (marked \ req[s].done)
     ELSE UNCHANGED <<queue, conflict>>
  /\ req' = [req EXCEPT ![s] = Free]
  /\ UNCHANGED <<last, body, dropped, lock, member, plan, database, events, bounds>>

Fault == faults < MaxFaults /\ faults' = faults + 1

(* The device hears nothing in time and gives up; the server goes on.      *)
GiveUp(s) ==
  /\ req[s].awaited
  /\ Fault
  /\ req' = [req EXCEPT ![s].awaited = FALSE]
  /\ UNCHANGED <<device, lock, member, plan, database, events, changes>>

(* The request never reaches the server.                                   *)
LoseRequest(s) ==
  /\ req[s].stage = "guard"
  /\ Fault
  /\ req' = [req EXCEPT ![s] = Free]
  /\ UNCHANGED <<device, lock, member, plan, database, events, changes>>

-----------------------------------------------------------------------------
(* The request, up to the transactions.                                    *)

(* Results so far, and the operation the batch stopped at, if any.         *)
Answer(s, code, bad) ==
  req' = [req EXCEPT ![s].stage = "reply", ![s].todo = {}, ![s].op = NoOp,
                     ![s].code = code, ![s].bad = bad]

(* OrgContextGuard reads the membership once for the whole request;        *)
(* PermissionGuard asks for book:sync.                                     *)
Guard(s) ==
  LET m == member[req[s].dev] IN
  /\ req[s].stage = "guard"
  /\ IF "book:sync" \in m.may
     THEN req' = [req EXCEPT ![s].stage = "plan", ![s].member = m]
     ELSE Answer(s, "FORBIDDEN", NoOp)
  /\ UNCHANGED <<device, lock, member, plan, database, events, bounds>>

(* A plan that has run out stops the whole request; nothing is written.    *)
assertPlan(s) ==
  /\ req[s].stage = "plan"
  /\ IF plan THEN req' = [req EXCEPT ![s].stage = "next"] ELSE Answer(s, "PLAN_EXPIRED", NoOp)
  /\ UNCHANGED <<device, lock, member, plan, database, events, bounds>>

SYNC_PERMISSION ==
  LET all(p, q, r) == [insert |-> p, update |-> q, softDelete |-> r] IN
  [supplier |-> all("receipt:create", "partner:manage", "partner:manage"),
   buyer |-> all("receipt:create", "partner:manage", "partner:manage"),
   product |-> all("receipt:create", "pricing:manage", "pricing:manage"),
   pricingRule |-> all("pricing:manage", "pricing:manage", "pricing:manage"),
   note |-> all("book:sync", "book:sync", "book:sync"),
   draft |-> all("receipt:create", "receipt:create", "receipt:create"),
   transaction |-> all("receipt:create", "receipt:create", "receipt:delete"),
   payment |-> all("payment:record", "null", "payment:void"),
   seasonContract |-> all("partner:manage", "partner:manage", "partner:manage")]

(* What a new receipt entails is allowed to whoever may write receipts.    *)
syncOpPermission(o) ==
  LET b == body[o] IN
  IF EntityOf[b.rec] = "product" /\ b.kind = "update" /\ b.priceOnly
  THEN "receipt:create" ELSE SYNC_PERMISSION[EntityOf[b.rec]][b.kind]

(* `one`: the next operation of the batch; its permission is checked       *)
(* against the membership read at the start, then a transaction is opened  *)
(* and waits for the lock.                                                 *)
StartOp(s, o) ==
  /\ req[s].stage = "next"
  /\ o \in req[s].todo /\ \A p \in req[s].todo : o[2] =< p[2]
  /\ IF syncOpPermission(o) \in req[s].member.may
     THEN req' = [req EXCEPT ![s].stage = "wait", ![s].op = o]
     ELSE Answer(s, "FORBIDDEN", o)
  /\ UNCHANGED <<device, lock, member, plan, database, events, bounds>>

FinishBatch(s) ==
  /\ req[s].stage = "next" /\ req[s].todo = {}
  /\ Answer(s, "ok", NoOp)
  /\ UNCHANGED <<device, lock, member, plan, database, events, bounds>>

(* Slip: the advisory lock is not taken.                                   *)
LookUnlocked(s) ==
  LET o == req[s].op IN
  /\ req[s].stage = "wait"
  /\ lock' = s
  /\ req' = [req EXCEPT ![s].stage = "looked", ![s].seen = (o \in Recorded),
                        ![s].state = book[body[o].rec].state]
  /\ UNCHANGED <<device, member, plan, database, events, bounds>>

(* The lock is granted; sync_ops and the row are read.                     *)
Look(s) ==
  LET o == req[s].op IN
  /\ req[s].stage = "wait" /\ lock = NoSlot
  /\ lock' = s
  /\ req' = [req EXCEPT ![s].stage = "looked", ![s].seen = (o \in Recorded),
                        ![s].state = book[body[o].rec].state]
  /\ UNCHANGED <<device, member, plan, database, events, bounds>>

-----------------------------------------------------------------------------
(* What `apply` makes of an operation.                                     *)

RuleOf(r) ==
  CASE EntityOf[r] \in {"draft", "transaction"} -> "own"
    [] EntityOf[r] = "payment"                  -> "parent"
    [] OTHER                                    -> "none"

(* assertBranch: a person of one branch touches records of that branch.    *)
InBranch(m, branch) == m.branch = Whole \/ branch = m.branch

BranchOfRow(r) == IF RuleOf(r) = "parent" THEN book[ParentOf[r]].branch ELSE book[r].branch

(* resolveBranch: nothing asked for gives the person's own branch.         *)
MayAskFor(m, branch) == branch = Whole \/ InBranch(m, branch)
resolveBranch(m, branch) == IF m.branch = Whole THEN branch ELSE m.branch

(* The refusals of `apply` and `prepareInsert`, the first one that holds.  *)
Refusal(s) ==
  LET o == req[s].op
      b == body[o]
      m == req[s].member
      parent == b.kind = "insert" /\ b.rec \in Payments
      none == req[s].state = "none" IN
  IF req[s].seen \/ (b.kind = "insert" /\ ~none) THEN "ok"
  ELSE IF \/ b.kind # "insert" /\ none
          \/ parent /\ ~Exists(ParentOf[b.rec]) THEN "PARENT_MISSING"
  ELSE IF \/ parent /\ ~InBranch(m, book[ParentOf[b.rec]].branch)
          \/ b.kind = "insert" /\ RuleOf(b.rec) = "own" /\ ~MayAskFor(m, b.branch)
          \/ b.kind # "insert" /\ RuleOf(b.rec) # "none" /\ ~InBranch(m, BranchOfRow(b.rec))
       THEN "FORBIDDEN"
  ELSE IF ~b.sound /\ b.kind # "softDelete" /\ req[s].state # "deleted"
       THEN "VALIDATION_FAILED" ELSE "ok"

(* The primary keys of sync_ops and of the table (P2002).                  *)
KeyTaken(s) ==
  LET o == req[s].op IN
  /\ ~req[s].seen
  /\ \/ o \in Recorded
     \/ body[o].kind = "insert" /\ req[s].state = "none" /\ Exists(body[o].rec)

(* findOrderFor, findDraftOrder and fulfil: the order the record keeps.    *)
KeptOrder(s) ==
  LET o == body[req[s].op].order IN
  IF o \in SeesOrder[req[s].member.branch] /\ order[o] # "cancelled" THEN o ELSE NoOrder

(* Slip: an update brings a deleted record back to life.                   *)
RevivingRow(s) ==
  LET o == req[s].op
      b == body[o]
      row == book[b.rec] IN
  CASE b.kind = "insert" /\ req[s].state = "none" ->
         [state |-> "live", order |-> KeptOrder(s), note |-> NoOp,
          branch |-> IF RuleOf(b.rec) = "own" THEN resolveBranch(req[s].member, b.branch)
                                              ELSE Whole]
    [] b.kind = "update" -> [row EXCEPT !.state = "live", !.note = o]
    [] b.kind = "softDelete" /\ req[s].state = "live" -> [row EXCEPT !.state = "deleted"]
    [] OTHER -> row

(* The row after the operation; a deleted row is left as it is.            *)
NewRow(s) ==
  LET o == req[s].op
      b == body[o]
      row == book[b.rec] IN
  CASE b.kind = "insert" /\ req[s].state = "none" ->
         [state |-> "live", order |-> KeptOrder(s), note |-> NoOp,
          branch |-> IF RuleOf(b.rec) = "own" THEN resolveBranch(req[s].member, b.branch)
                                              ELSE Whole]
    [] b.kind = "update" /\ req[s].state = "live" ->
         [row EXCEPT !.note = o,
                     !.order = IF EntityOf[b.rec] = "draft" /\ b.order # NoOrder
                               THEN KeptOrder(s) ELSE @]
    [] b.kind = "softDelete" /\ req[s].state = "live" -> [row EXCEPT !.state = "deleted"]
    [] OTHER -> row

(* Slip: a second deletion is audited like the first.                      *)
AuditEveryDelete(s) ==
  LET o == req[s].op
      b == body[o]
      entry(a) == {[action |-> a, rec |-> b.rec, op |-> o]} IN
  CASE b.kind = "softDelete" /\ EntityOf[b.rec] = "transaction" -> entry("receipt.deleted")
    [] b.kind = "softDelete" /\ EntityOf[b.rec] = "payment" -> entry("payment.voided")
    [] b.kind = "update" /\ EntityOf[b.rec] = "transaction" -> entry("receipt.updated")
    [] OTHER -> {}

(* auditUpdate, auditDelete: in the same transaction, when a row changes.  *)
NewAudit(s) ==
  LET o == req[s].op
      b == body[o]
      entry(a) == {[action |-> a, rec |-> b.rec, op |-> o]} IN
  IF req[s].state # "live" THEN {}
  ELSE CASE b.kind = "softDelete" /\ EntityOf[b.rec] = "transaction" -> entry("receipt.deleted")
         [] b.kind = "softDelete" /\ EntityOf[b.rec] = "payment" -> entry("payment.voided")
         [] b.kind = "update" /\ EntityOf[b.rec] = "transaction" -> entry("receipt.updated")
         [] OTHER -> {}

(* Slip: the status read under the row lock is not looked at.              *)
FulfilsAny(s) ==
  LET b == body[req[s].op] IN
  /\ b.kind = "insert" /\ req[s].state = "none" /\ EntityOf[b.rec] = "transaction"
  /\ KeptOrder(s) # NoOrder

(* fulfil: the order of a new receipt, still open when its row is locked.  *)
Fulfils(s) ==
  LET b == body[req[s].op] IN
  /\ b.kind = "insert" /\ req[s].state = "none" /\ EntityOf[b.rec] = "transaction"
  /\ KeptOrder(s) # NoOrder /\ order[KeptOrder(s)] \in OpenStatus

-----------------------------------------------------------------------------
(* The end of the transaction.                                             *)

(* The writes of one transaction: all of them, or none.  An operation that *)
(* was seen before writes nothing at all.                                  *)
Write(s) ==
  LET o == req[s].op IN
  IF req[s].seen
  THEN UNCHANGED database
  ELSE /\ log' = Append(log, o)
       /\ book' = [book EXCEPT ![body[o].rec] = NewRow(s)]
       /\ audit' = audit \cup NewAudit(s)
       /\ order' = IF Fulfils(s) THEN [order EXCEPT ![KeptOrder(s)] = "fulfilled"] ELSE order

(* Committed and known to be: applied or duplicate.                        *)
Commit(s) ==
  LET fulfilled == ~req[s].seen /\ Fulfils(s) IN
  /\ req[s].stage = "looked" /\ Refusal(s) = "ok" /\ ~KeyTaken(s)
  /\ Write(s)
  /\ lock' = NoSlot
  /\ req' = [req EXCEPT ![s].stage = IF fulfilled THEN "emit" ELSE "next",
                        ![s].emit = IF fulfilled THEN KeptOrder(s) ELSE NoOrder,
                        ![s].todo = @ \ {req[s].op}, ![s].done = @ \cup {req[s].op},
                        ![s].op = NoOp]
  /\ UNCHANGED <<device, member, plan, events, bounds>>

(* Committed, but the connection breaks before the server hears of it:     *)
(* answered INTERNAL, and no event.                                        *)
CommitUnheard(s) ==
  /\ req[s].stage = "looked" /\ Refusal(s) = "ok" /\ ~KeyTaken(s)
  /\ Fault
  /\ Write(s)
  /\ lock' = NoSlot
  /\ Answer(s, "INTERNAL", req[s].op)
  /\ UNCHANGED <<device, member, plan, events, changes>>

(* OpRejected or a broken key: the transaction is rolled back.             *)
Refuse(s) ==
  /\ req[s].stage = "looked" /\ (Refusal(s) # "ok" \/ KeyTaken(s))
  /\ lock' = NoSlot
  /\ Answer(s, IF Refusal(s) # "ok" THEN Refusal(s) ELSE "VALIDATION_FAILED", req[s].op)
  /\ UNCHANGED <<device, member, plan, database, events, bounds>>

(* Lock timeout, no connection, transaction timeout, unexpected error: the *)
(* transaction is rolled back and the operation may be tried again.        *)
Fail(s, code) ==
  /\ req[s].stage \in {"wait", "looked"}
  /\ Fault
  /\ lock' = IF req[s].stage = "looked" THEN NoSlot ELSE lock
  /\ Answer(s, code, req[s].op)
  /\ UNCHANGED <<device, member, plan, database, events, changes>>

(* After the commit: the event goes to the listeners of this process.      *)
Emit(s) ==
  /\ req[s].stage = "emit"
  /\ events' = [events EXCEPT ![req[s].emit] = @ + 1]
  /\ req' = [req EXCEPT ![s].stage = "next", ![s].emit = NoOrder]
  /\ UNCHANGED <<device, lock, member, plan, database, bounds>>

(* The server stops: its requests are gone, its transactions roll back.    *)
Crash ==
  /\ \E s \in Slots : req[s].stage # "free"
  /\ Fault
  /\ req' = [s \in Slots |-> Free]
  /\ lock' = NoSlot
  /\ UNCHANGED <<device, member, plan, database, events, changes>>

-----------------------------------------------------------------------------
(* What others do meanwhile.                                               *)

Change == changes < MaxChanges /\ changes' = changes + 1

(* The owner changes a person's role or branch.                            *)
ChangeMember(d, m) ==
  /\ Change
  /\ member[d] # m
  /\ member' = [member EXCEPT ![d] = m]
  /\ UNCHANGED <<device, req, lock, plan, database, events, faults>>

(* The plan runs out, or is paid for.                                      *)
ChangePlan ==
  /\ Change
  /\ plan' = ~plan
  /\ UNCHANGED <<device, req, lock, member, database, events, faults>>

(* The orders service moves an open order; it fulfils none itself.         *)
MoveOrder(o, status) ==
  /\ order[o] \in OpenStatus /\ order[o] # status
  /\ IF order[o] = "submitted" THEN status # "scheduled" ELSE status # "accepted"
  /\ order' = [order EXCEPT ![o] = status]
  /\ UNCHANGED <<device, req, lock, member, plan, log, book, audit, events, bounds>>

-----------------------------------------------------------------------------

Serve(s) ==
  \/ Guard(s) \/ assertPlan(s) \/ (\E o \in Ops : StartOp(s, o)) \/ FinishBatch(s) \/ Look(s)
  \/ Commit(s) \/ Refuse(s) \/ Emit(s) \/ Receive(s)

Disturb(s) ==
  \/ GiveUp(s) \/ LoseRequest(s) \/ CommitUnheard(s)
  \/ \E code \in {"RATE_LIMITED", "INTERNAL"} : Fail(s, code)

Next ==
  \/ \E d \in Devices, b \in Bodies : enqueue(d, b)
  \/ \E d \in Devices : dropStuck(d)
  \/ \E d \in Devices, s \in Slots : Send(d, s)
  \/ \E s \in Slots : Serve(s) \/ Disturb(s)
  \/ Crash
  \/ \E d \in Devices, m \in Members : ChangeMember(d, m)
  \/ ChangePlan
  \/ \E o \in Orders, status \in {"accepted", "scheduled", "cancelled"} : MoveOrder(o, status)

Spec == Init /\ [][Next]_vars

(* A device with something to send goes on sending (its retry schedule     *)
(* never ends) and the server goes on serving; the person who may drop a   *)
(* refused operation does.  Faults are bounded, so that weak fairness will *)
(* do; nobody is obliged to write or to change anything.                   *)
FairSpec ==
  /\ Spec
  /\ \A d \in Devices : WF_vars(\E s \in Slots : Send(d, s))
  /\ \A s \in Slots : WF_vars(Serve(s))
  /\ \A d \in Devices : WF_vars(dropStuck(d))

-----------------------------------------------------------------------------
(* Properties.                                                             *)

Made == {o \in Ops : body[o] # NoBody}
Before(o) == {p \in Ops : p[1] = o[1] /\ p[2] < o[2]}

(* No operation is lost (BE-backend-nestjs.md 4.1, rule 2): what a person  *)
(* wrote is still in the queue of the device, or the server has it, unless *)
(* the person dropped it -- whatever calls, answers and servers were lost. *)
NoLoss == Made \subseteq queue \cup Recorded \cup dropped

(* Operations of a device take effect in the order of seq: what is applied *)
(* has nothing before it that is still to come (4.1, rule 1), also when    *)
(* requests overlap and memberships change.                                *)
NothingOvertaken ==
  \A o \in Recorded : Before(o) \subseteq Recorded \cup dropped

(* Operations that were accepted and changed nothing: an update of a record *)
(* that had been deleted before.                                           *)
VoidAt(n) ==
  /\ body[log[n]].kind = "update"
  /\ \E m \in 1..(n - 1) : /\ body[log[m]].kind = "softDelete"
                           /\ body[log[m]].rec = body[log[n]].rec
Void == {log[i] : i \in {n \in DOMAIN log : VoidAt(n)}}

(* While memberships stay as they are, an operation that the person is     *)
(* told was refused for good has not changed the book, and never will: the *)
(* person may write it again without writing it twice.                     *)
RefusedIsNotApplied == (conflict \cup dropped) \cap Recorded \subseteq Void

(* One entry in the audit log for each receipt deleted and each payment    *)
(* voided (4.1, rule 9), however many devices delete it and how often.     *)
DeletedAuditedOnce ==
  \A r \in Records :
    EntityOf[r] \in {"transaction", "payment"} =>
      Cardinality({e \in audit : e.rec = r /\ e.action # "receipt.updated"})
        = IF book[r].state = "deleted" THEN 1 ELSE 0

(* Deletion wins (4.1, rule 6): a deleted record is never changed again,   *)
(* by an operation that was queued before or after.                        *)
DeleteWins ==
  [][\A r \in Records : book[r].state = "deleted" => book'[r] = book[r]]_vars

(* An order is fulfilled by a receipt of the book that names it, and the   *)
(* event goes out at most once, after the fulfilment is committed, however *)
(* often the receipt is sent and whatever moves the order meanwhile        *)
(* (4.1, rule 8).                                                          *)
FulfilledByReceipt ==
  \A o \in Orders :
    /\ order[o] = "fulfilled" =>
         \E r \in Records : EntityOf[r] = "transaction" /\ book[r].order = o
    /\ events[o] + Cardinality({s \in Slots : req[s].emit = o})
         =< IF order[o] = "fulfilled" THEN 1 ELSE 0

(* The promise without the machinery: exactly once, in order, or given up  *)
(* by the person, and then without effect.                                 *)
Promise == INSTANCE Ledger WITH made <- Made, givenUp <- dropped,
             entered <- [n \in DOMAIN log |-> [op |-> log[n], void |-> VoidAt(n)]]
IsLedger == Promise!Spec

(* The queue never hangs, if the plan is paid for in the end: an operation *)
(* leaves the queue, or it is refused for good, or one before it is, and   *)
(* the person is shown which.                                              *)
Stuck(o) == \E c \in conflict : c[1] = o[1] /\ c[2] =< o[2]
QueueDrains ==
  (<>[]plan) => \A o \in Ops : o \in queue ~> (o \notin queue \/ Stuck(o))

-----------------------------------------------------------------------------
(* What the proofs add to make these invariants inductive.                 *)

InService == {"plan", "next", "wait", "looked", "emit"}
InTransaction == {"wait", "looked"}

(* A request is of a device, and has its membership once the guard passed; *)
(* it carries operations that were made and reports on recorded ones; the  *)
(* transaction is about the first that is left; whatever comes before an   *)
(* operation of a batch is in the batch, too, or is settled.               *)
Fine(r, made, recorded, gone) ==
  /\ r.stage # "free" => r.dev \in Devices
  /\ r.stage \in InService => r.member \in Members
  /\ r.stage = "emit" => r.emit \in Orders
  /\ r.todo \subseteq made
  /\ r.done \subseteq recorded
  /\ r.stage = "looked" /\ r.seen => r.op \in recorded
  /\ r.stage \in InTransaction => r.op \in r.todo /\ \A p \in r.todo : r.op[2] =< p[2]
  /\ \A o \in r.todo : Before(o) \subseteq r.todo \cup recorded \cup gone

RequestsFine == \A s \in Slots : Fine(req[s], Made, Recorded, dropped)

(* The queue holds operations that were made, numbered without a gap.      *)
QueueIsMade ==
  /\ queue \subseteq Made
  /\ Made = {o \in Ops : o[2] =< last[o[1]]}

(* Under the lock, what was read is still so.                              *)
LookIsCurrent ==
  \A s \in Slots :
    LET o == req[s].op IN
    req[s].stage = "looked" =>
      /\ lock = s
      /\ req[s].seen <=> o \in Recorded
      /\ req[s].state = book[body[o].rec].state

(* A record is inserted by one operation; a row that exists was inserted,  *)
(* a deleted one was deleted, by operations that are recorded, and the     *)
(* receipt of a payment exists.  No operation is recorded twice.           *)
BookIsMade ==
  /\ Recorded \subseteq Made
  /\ \A i, j \in DOMAIN log : log[i] = log[j] => i = j
  /\ \A o, p \in Made : body[o].kind = "insert" /\ body[p].kind = "insert"
                           /\ body[o].rec = body[p].rec => o = p
  /\ \A r \in Records :
       /\ Exists(r) => \E o \in Recorded : body[o].kind = "insert" /\ body[o].rec = r
       /\ book[r].state = "deleted" =>
            \E o \in Recorded : body[o].kind = "softDelete" /\ body[o].rec = r
       /\ ~Exists(r) => book[r].order = NoOrder
  /\ \A r \in Payments : Exists(r) => Exists(ParentOf[r])

(* Deletions in the audit log: one of each record that is deleted.         *)
Deletions(r) == {e \in audit : e.rec = r /\ e.action # "receipt.updated"}
DeletionsHeld ==
  \A r \in Records :
    EntityOf[r] \in {"transaction", "payment"} =>
      IF book[r].state = "deleted" THEN \E e \in audit : Deletions(r) = {e} ELSE Deletions(r) = {}

(* An order that is fulfilled has its receipt, and its event is with one   *)
(* request, or has gone out, or is lost; no other order has one.           *)
Emitting(o) == {s \in Slots : req[s].emit = o}
EventsHeld ==
  /\ \A s \in Slots : req[s].stage # "emit" => req[s].emit = NoOrder
  /\ \A o \in Orders :
       IF order[o] = "fulfilled"
       THEN /\ \E r \in Records : EntityOf[r] = "transaction" /\ book[r].order = o
            /\ \/ events[o] = 0 /\ (Emitting(o) = {} \/ \E s \in Slots : Emitting(o) = {s})
               \/ events[o] = 1 /\ Emitting(o) = {}
       ELSE events[o] = 0 /\ Emitting(o) = {}

(* While memberships stay, what a request knows of its device is so, and   *)
(* what is recorded was allowed to the person of its device.               *)
MemberStays == [][member' = member]_vars
Own(r) ==
  /\ \A o \in r.todo : o[1] = r.dev
  /\ r.stage \in InService => r.member = member[r.dev]
  /\ r.stage \in InTransaction => syncOpPermission(r.op) \in r.member.may
OwnRequests ==
  /\ \A s \in Slots : Own(req[s])
  /\ \A o \in Recorded : syncOpPermission(o) \in member[o[1]].may

(* Refused, and nothing that happens to the book will let it pass.         *)
Hopeless(o) ==
  LET b == body[o]
      m == member[o[1]]
      place == IF RuleOf(b.rec) = "parent" THEN ParentOf[b.rec] ELSE b.rec IN
  \/ syncOpPermission(o) \notin m.may
  \/ b.kind = "insert" /\ RuleOf(b.rec) = "own" /\ ~MayAskFor(m, b.branch)
  \/ b.kind # "insert" /\ RuleOf(b.rec) = "own" /\ Exists(place) /\ ~InBranch(m, book[place].branch)
  \/ RuleOf(b.rec) = "parent" /\ Exists(place) /\ ~InBranch(m, book[place].branch)
  \/ ~b.sound /\ b.kind = "insert"
  \/ ~b.sound /\ b.kind = "update" /\ Exists(b.rec)

ToldRefused ==
  {req[s].bad : s \in {t \in Slots : req[t].stage = "reply" /\ ~isRetryable(req[t].code)}} \ {NoOp}
Refused == conflict \cup dropped \cup ToldRefused
RefusalsHeld ==
  /\ Refused \subseteq {o \in Made : Hopeless(o)}
  /\ Refused \cap Recorded \subseteq Void

=============================================================================

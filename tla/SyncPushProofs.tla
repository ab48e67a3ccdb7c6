--------------------------- MODULE SyncPushProofs ---------------------------
(***************************************************************************)
(* Theorems about SyncPush for any devices, records, bodies, memberships,  *)
(* batch size and bounds.                                                  *)
(*                                                                         *)
(* The inductive invariant says of every request on the server that its    *)
(* batch has no gap: what a device made before an operation of the batch   *)
(* is in the batch or settled.  With the rule that a transaction takes the *)
(* first operation that is left, the order of each device is kept.         *)
(***************************************************************************)
EXTENDS SyncPush, FiniteSetTheorems, TLAPS

IInv == TypeOK /\ RequestsFine /\ QueueIsMade /\ NoLoss /\ NothingOvertaken

-----------------------------------------------------------------------------
(* Operations and bodies.                                                  *)

LEMMA OpIsPair ==
  ASSUME NEW o \in Ops
  PROVE  o = <<o[1], o[2]>> /\ o[1] \in Devices /\ o[2] \in 1..MaxOps
BY DEF Ops

LEMMA NoBodyIsNone == NoBody \notin Body
BY DEF NoBody, Body, Kinds

LEMMA MadeHasBody ==
  ASSUME TypeOK, NEW o \in Made
  PROVE  o \in Ops /\ body[o] \in Body
BY DEF TypeOK, Made

(* More made, recorded or dropped: a request is still fine.                *)
LEMMA FineGrows ==
  ASSUME NEW r, NEW M1, NEW M2, NEW R1, NEW R2, NEW D1, NEW D2,
         Fine(r, M1, R1, D1), M1 \subseteq M2, R1 \subseteq R2, D1 \subseteq D2
  PROVE  Fine(r, M2, R2, D2)
BY DEF Fine

LEMMA FreeIsFine ==
  ASSUME NEW M, NEW R, NEW D
  PROVE  Free \in Requests /\ Fine(Free, M, R, D)
<1>1. Free \in Requests
  BY DEF Free, Requests, Stages, Codes
<1>2. Fine(Free, M, R, D)
  BY DEF Free, Fine, InService, InTransaction
<1> QED BY <1>1, <1>2

LEMMA QueuesAreFinite ==
  ASSUME NEW d
  PROVE  IsFiniteSet({d} \X (1..MaxOps))
<1>1. 1 \in Int /\ MaxOps \in Int
  BY BoundAssumption
<1>2. IsFiniteSet(1..MaxOps)
  BY <1>1, FS_Interval
<1>3. IsFiniteSet({d})
  BY FS_Singleton
<1> QED BY <1>2, <1>3, FS_Product

(* The part of a queue that goes out has no gap below any of its members.  *)
LEMMA BatchHasNoGap ==
  ASSUME IInv, NEW d \in Devices, NEW o \in NextBatch(d)
  PROVE  Before(o) \subseteq NextBatch(d) \cup Recorded \cup dropped
<1> DEFINE able == {q \in Queued(d) : \A c \in conflict \cap Queued(d) : q[2] < c[2]}
           Below(q) == {p \in able : p[2] < q[2]}
<1> USE BoundAssumption
<1>1. o \in able /\ Cardinality(Below(o)) < Batch
  BY DEF NextBatch
<1>2. o \in Made /\ o \in Ops /\ o[1] = d
  BY <1>1 DEF IInv, QueueIsMade, Queued, Made
<1>3. SUFFICES ASSUME NEW p \in Before(o), p \in queue
               PROVE  p \in NextBatch(d)
  <2>1. ASSUME NEW p \in Before(o) PROVE p \in Made
    BY <1>2, <2>1, OpIsPair DEF IInv, QueueIsMade, Before, TypeOK
  <2> QED BY <2>1, <1>3 DEF IInv, NoLoss
<1>4. p \in Ops /\ p[1] = d /\ p[2] < o[2]
  BY <1>2, <1>3 DEF Before
<1>5. /\ p[2] \in Int /\ o[2] \in Int
      /\ \A q \in able : q \in Ops /\ q[2] \in Int
  BY <1>2, <1>4, OpIsPair DEF Queued, IInv, TypeOK
<1>6. p \in able
  <2>1. \A c \in conflict \cap Queued(d) : o[2] < c[2] /\ c[2] \in Int
    BY <1>1, OpIsPair DEF Queued, IInv, TypeOK
  <2> QED BY <2>1, <1>3, <1>4, <1>5 DEF Queued
<1>7. /\ Cardinality(Below(p)) =< Cardinality(Below(o))
      /\ Cardinality(Below(p)) \in Nat /\ Cardinality(Below(o)) \in Nat
  <2>1. IsFiniteSet({d} \X (1..MaxOps))
    BY QueuesAreFinite
  <2>2. Below(o) \subseteq {d} \X (1..MaxOps)
    <3> SUFFICES ASSUME NEW q \in Below(o) PROVE q \in {d} \X (1..MaxOps)
      OBVIOUS
    <3>1. q \in Ops /\ q[1] = d
      BY <1>5 DEF Queued
    <3> QED BY <3>1, OpIsPair
  <2>3. Below(p) \in SUBSET Below(o)
    BY <1>4, <1>5
  <2>4. IsFiniteSet(Below(o))
    BY <2>1, <2>2, FS_Subset
  <2> HIDE DEF Below
  <2> QED BY <2>3, <2>4, FS_Subset, FS_CardinalityType
<1> QED
  BY <1>1, <1>6, <1>7 DEF NextBatch

-----------------------------------------------------------------------------
(* Steps that touch one request only.                                      *)

LEMMA RequestTyped ==
  ASSUME TypeOK, NEW s \in Slots
  PROVE  /\ req[s] \in Requests
         /\ \A r : [req EXCEPT ![s] = r][s] = r
BY DEF TypeOK

(* One request changes and stays fine: the invariant is kept.              *)
LEMMA QuietStep ==
  ASSUME IInv, NEW s \in Slots, NEW r \in Requests,
         Fine(r, Made, Recorded, dropped),
         req' = [req EXCEPT ![s] = r],
         UNCHANGED <<device, database>>,
         lock' \in Slots \cup {NoSlot}, member' \in [Devices -> Members], plan' \in BOOLEAN,
         events' \in [Orders -> Nat], changes' \in 0..MaxChanges, faults' \in 0..MaxFaults
  PROVE  IInv'
<1>1. /\ Made' = Made /\ Recorded' = Recorded /\ dropped' = dropped
      /\ queue' = queue /\ last' = last
  BY DEF Made, Recorded, device, database
<1>2. TypeOK'
  BY DEF IInv, TypeOK, device, database
<1>3. RequestsFine'
  <2> SUFFICES ASSUME NEW t \in Slots PROVE Fine(req'[t], Made, Recorded, dropped)
    BY <1>1 DEF RequestsFine
  <2>1. req'[t] = IF t = s THEN r ELSE req[t]
    BY DEF IInv, TypeOK
  <2> QED BY <2>1 DEF IInv, RequestsFine
<1>4. (QueueIsMade /\ NoLoss /\ NothingOvertaken)'
  BY <1>1 DEF IInv, QueueIsMade, NoLoss, NothingOvertaken
<1> QED BY <1>2, <1>3, <1>4 DEF IInv

(* The batch stops: what is left of the request is its results.            *)
Answered(r, code, bad) ==
  [r EXCEPT !.stage = "reply", !.todo = {}, !.op = NoOp, !.code = code, !.bad = bad]

LEMMA AnswerIsFine ==
  ASSUME IInv, NEW s \in Slots, req[s].stage # "free", NEW code \in Codes, NEW bad \in Ops \cup {NoOp},
         NEW R, Recorded \subseteq R
  PROVE  /\ Answered(req[s], code, bad) \in Requests
         /\ Fine(Answered(req[s], code, bad), Made, R, dropped)
         /\ Answer(s, code, bad) => req' = [req EXCEPT ![s] = Answered(req[s], code, bad)]
<1> DEFINE r == Answered(req[s], code, bad)
<1> USE DEF Answered
<1>0. req[s] \in Requests
  BY DEF IInv, TypeOK
<1>1. r \in Requests
  BY <1>0 DEF Requests, Stages
<1>2. Fine(r, Made, R, dropped)
  <2>1. Fine(req[s], Made, Recorded, dropped)
    BY DEF IInv, RequestsFine
  <2>2. /\ r.stage = "reply" /\ r.todo = {} /\ r.dev = req[s].dev /\ r.done = req[s].done
    BY <1>0 DEF Requests
  <2>3. req[s].stage # "free" \/ r.dev \in Devices
    BY <2>1, <2>2 DEF Fine
  <2> QED BY <2>1, <2>2 DEF Fine, InService, InTransaction
<1>3. Answer(s, code, bad) => req' = [req EXCEPT ![s] = r]
  BY DEF Answer, IInv, TypeOK, Requests
<1> QED BY <1>1, <1>2, <1>3

(* What every proof below starts from.                                     *)
LEMMA Start ==
  ASSUME IInv, NEW s \in Slots
  PROVE  /\ req \in [Slots -> Requests] /\ req[s] \in Requests
         /\ Fine(req[s], Made, Recorded, dropped)
BY DEF IInv, TypeOK, RequestsFine

LEMMA BoundsKept ==
  ASSUME IInv
  PROVE  /\ UNCHANGED lock => lock' \in Slots \cup {NoSlot}
         /\ UNCHANGED member => member' \in [Devices -> Members]
         /\ UNCHANGED plan => plan' \in BOOLEAN
         /\ UNCHANGED events => events' \in [Orders -> Nat]
         /\ UNCHANGED changes => changes' \in 0..MaxChanges
         /\ UNCHANGED faults \/ Fault => faults' \in 0..MaxFaults
<1>1. Fault => faults' \in 0..MaxFaults
  BY BoundAssumption DEF IInv, TypeOK, Fault
<1> QED BY <1>1 DEF IInv, TypeOK

LEMMA AnswerStep ==
  ASSUME IInv, NEW s \in Slots, req[s].stage # "free",
         NEW code \in Codes, NEW bad \in Ops \cup {NoOp}, Answer(s, code, bad),
         UNCHANGED <<device, member, plan, database, events, changes>>,
         lock' \in Slots \cup {NoSlot}, UNCHANGED faults \/ Fault
  PROVE  IInv'
<1> DEFINE r == Answered(req[s], code, bad)
<1>1. r \in Requests /\ Fine(r, Made, Recorded, dropped) /\ req' = [req EXCEPT ![s] = r]
  BY AnswerIsFine
<1> HIDE DEF r
<1>2. UNCHANGED <<device, database>>
  OBVIOUS
<1> QED BY <1>1, <1>2, BoundsKept, QuietStep

LEMMA GuardKeeps ==
  ASSUME IInv, NEW s \in Slots, Guard(s)
  PROVE  IInv'
<1> DEFINE m == member[req[s].dev]
           r == [req[s] EXCEPT !.stage = "plan", !.member = m]
<1> USE Start
<1>1. CASE "book:sync" \in m.may
  <2>1. req' = [req EXCEPT ![s] = r] /\ req[s].stage = "guard"
    BY <1>1 DEF Guard
  <2>2. m \in Members
    BY <2>1 DEF IInv, TypeOK, Fine
  <2>3. r \in Requests
    BY <2>2 DEF Requests, Stages
  <2>4. Fine(r, Made, Recorded, dropped)
    <3>1. /\ r.stage = "plan" /\ r.member = m /\ r.dev = req[s].dev
          /\ r.todo = req[s].todo /\ r.done = req[s].done
      BY DEF Requests
    <3> HIDE DEF r
    <3> QED BY <2>1, <2>2, <3>1 DEF Fine, InService, InTransaction
  <2> HIDE DEF r
  <2>5. UNCHANGED <<device, database, lock, member, plan, events, changes, faults>>
    BY DEF Guard, bounds
  <2> QED BY <2>1, <2>3, <2>4, <2>5, QuietStep, BoundsKept
<1>2. CASE "book:sync" \notin m.may
  BY <1>2, AnswerStep, BoundsKept DEF Guard, bounds, Codes
<1> QED BY <1>1, <1>2

LEMMA PlanKeeps ==
  ASSUME IInv, NEW s \in Slots, assertPlan(s)
  PROVE  IInv'
<1> DEFINE r == [req[s] EXCEPT !.stage = "next"]
<1> USE Start
<1>1. CASE plan
  <2>1. req' = [req EXCEPT ![s] = r] /\ req[s].stage = "plan"
    BY <1>1 DEF assertPlan
  <2>2. r \in Requests
    BY DEF Requests, Stages
  <2>3. Fine(r, Made, Recorded, dropped)
    <3>1. /\ r.stage = "next" /\ r.member = req[s].member /\ r.dev = req[s].dev
          /\ r.todo = req[s].todo /\ r.done = req[s].done
      BY DEF Requests
    <3> HIDE DEF r
    <3> QED BY <2>1, <3>1 DEF Fine, InService, InTransaction
  <2> HIDE DEF r
  <2>4. UNCHANGED <<device, database, lock, member, plan, events, changes, faults>>
    BY DEF assertPlan, bounds
  <2> QED BY <2>1, <2>2, <2>3, <2>4, QuietStep, BoundsKept
<1>2. CASE ~plan
  BY <1>2, AnswerStep, BoundsKept DEF assertPlan, bounds, Codes
<1> QED BY <1>1, <1>2

LEMMA StartOpKeeps ==
  ASSUME IInv, NEW s \in Slots, NEW o \in Ops, StartOp(s, o)
  PROVE  IInv'
<1> DEFINE r == [req[s] EXCEPT !.stage = "wait", !.op = o]
<1> USE Start
<1>1. CASE syncOpPermission(o) \in req[s].member.may
  <2>1. req' = [req EXCEPT ![s] = r] /\ req[s].stage = "next"
    BY <1>1 DEF StartOp
  <2>2. r \in Requests
    BY DEF Requests, Stages
  <2>3. Fine(r, Made, Recorded, dropped)
    <3>1. /\ r.stage = "wait" /\ r.member = req[s].member /\ r.dev = req[s].dev
          /\ r.todo = req[s].todo /\ r.done = req[s].done /\ r.op = o
      BY DEF Requests
    <3>2. o \in req[s].todo /\ \A p \in req[s].todo : o[2] =< p[2]
      BY DEF StartOp
    <3> HIDE DEF r
    <3> QED BY <2>1, <3>1, <3>2 DEF Fine, InService, InTransaction
  <2> HIDE DEF r
  <2>4. UNCHANGED <<device, database, lock, member, plan, events, changes, faults>>
    BY DEF StartOp, bounds
  <2> QED BY <2>1, <2>2, <2>3, <2>4, QuietStep, BoundsKept
<1>2. CASE syncOpPermission(o) \notin req[s].member.may
  BY <1>2, AnswerStep, BoundsKept DEF StartOp, bounds, Codes
<1> QED BY <1>1, <1>2

LEMMA LookKeeps ==
  ASSUME IInv, NEW s \in Slots, Look(s)
  PROVE  IInv'
<1> DEFINE o == req[s].op
           known == (o \in Recorded)
           r == [req[s] EXCEPT !.stage = "looked", !.seen = known,
                               !.state = book[body[o].rec].state]
<1> USE Start
<1>1. req' = [req EXCEPT ![s] = r] /\ req[s].stage = "wait"
  BY DEF Look
<1>2. body[o] \in Body
  BY <1>1, MadeHasBody DEF Fine, InTransaction, IInv
<1>3. book[body[o].rec].state \in {"none", "live", "deleted"}
  BY <1>2 DEF IInv, TypeOK, Row, Body
<1>4. r \in Requests
  <2>1. known \in BOOLEAN
    OBVIOUS
  <2> HIDE DEF known
  <2> QED BY <1>3, <2>1 DEF Requests, Stages
<1>5. Fine(r, Made, Recorded, dropped)
  <2>1. /\ r.stage = "looked" /\ r.member = req[s].member /\ r.dev = req[s].dev
        /\ r.todo = req[s].todo /\ r.done = req[s].done /\ r.op = o
        /\ r.seen = known
    BY DEF Requests
  <2> HIDE DEF r
  <2> QED BY <1>1, <2>1 DEF Fine, InService, InTransaction
<1> HIDE DEF r
<1>6. UNCHANGED <<device, database, member, plan, events, changes, faults>> /\ lock' = s
  BY DEF Look, bounds
<1> QED BY <1>1, <1>4, <1>5, <1>6, QuietStep, BoundsKept

LEMMA EmitKeeps ==
  ASSUME IInv, NEW s \in Slots, Emit(s)
  PROVE  IInv'
<1> DEFINE r == [req[s] EXCEPT !.stage = "next", !.emit = NoOrder]
<1> USE Start
<1>1. req' = [req EXCEPT ![s] = r] /\ req[s].stage = "emit"
  BY DEF Emit
<1>2. r \in Requests
  BY DEF Requests, Stages
<1>3. Fine(r, Made, Recorded, dropped)
  <2>1. /\ r.stage = "next" /\ r.member = req[s].member /\ r.dev = req[s].dev
        /\ r.todo = req[s].todo /\ r.done = req[s].done
    BY DEF Requests
  <2> HIDE DEF r
  <2> QED BY <1>1, <2>1 DEF Fine, InService, InTransaction
<1> HIDE DEF r
<1>4. events' \in [Orders -> Nat]
  <2>1. req[s].emit \in Orders
    BY <1>1 DEF Fine
  <2> QED BY <2>1 DEF Emit, IInv, TypeOK
<1>5. UNCHANGED <<device, database, lock, member, plan, changes, faults>>
  BY DEF Emit, bounds
<1> QED BY <1>1, <1>2, <1>3, <1>4, <1>5, QuietStep, BoundsKept

LEMMA GiveUpKeeps ==
  ASSUME IInv, NEW s \in Slots, GiveUp(s)
  PROVE  IInv'
<1> DEFINE r == [req[s] EXCEPT !.awaited = FALSE]
<1> USE Start
<1>1. req' = [req EXCEPT ![s] = r]
  BY DEF GiveUp
<1>2. r \in Requests
  BY DEF Requests
<1>3. Fine(r, Made, Recorded, dropped)
  <2>1. /\ r.stage = req[s].stage /\ r.member = req[s].member /\ r.dev = req[s].dev
        /\ r.todo = req[s].todo /\ r.done = req[s].done /\ r.op = req[s].op
        /\ r.seen = req[s].seen /\ r.emit = req[s].emit
    BY DEF Requests
  <2> HIDE DEF r
  <2> QED BY <2>1 DEF Fine
<1> HIDE DEF r
<1>4. UNCHANGED <<device, database, lock, member, plan, events, changes>> /\ Fault
  BY DEF GiveUp
<1> QED BY <1>1, <1>2, <1>3, <1>4, QuietStep, BoundsKept

LEMMA LoseRequestKeeps ==
  ASSUME IInv, NEW s \in Slots, LoseRequest(s)
  PROVE  IInv'
<1>1. req' = [req EXCEPT ![s] = Free]
  BY DEF LoseRequest
<1>2. Free \in Requests /\ Fine(Free, Made, Recorded, dropped)
  BY FreeIsFine
<1>3. UNCHANGED <<device, database, lock, member, plan, events, changes>> /\ Fault
  BY DEF LoseRequest
<1> QED BY <1>1, <1>2, <1>3, QuietStep, BoundsKept

LEMMA FinishBatchKeeps ==
  ASSUME IInv, NEW s \in Slots, FinishBatch(s)
  PROVE  IInv'
BY AnswerStep, BoundsKept DEF FinishBatch, bounds, Codes

LEMMA RefuseKeeps ==
  ASSUME IInv, NEW s \in Slots, Refuse(s)
  PROVE  IInv'
<1> DEFINE code == IF Refusal(s) # "ok" THEN Refusal(s) ELSE "VALIDATION_FAILED"
<1>1. code \in Codes
  <2>1. Refusal(s) \in {"ok", "PARENT_MISSING", "FORBIDDEN", "VALIDATION_FAILED"}
    BY DEF Refusal
  <2> QED BY <2>1 DEF Codes
<1>2. req[s].op \in Ops \cup {NoOp}
  BY Start DEF Requests
<1>3. /\ req[s].stage # "free" /\ Answer(s, code, req[s].op)
      /\ lock' \in Slots \cup {NoSlot}
      /\ UNCHANGED <<device, member, plan, database, events, changes, faults>>
  BY DEF Refuse, bounds
<1> HIDE DEF code
<1> QED BY <1>1, <1>2, <1>3, AnswerStep

LEMMA FailKeeps ==
  ASSUME IInv, NEW s \in Slots, NEW code \in {"RATE_LIMITED", "INTERNAL"}, Fail(s, code)
  PROVE  IInv'
<1>1. req[s].op \in Ops \cup {NoOp}
  BY Start DEF Requests
<1>2. /\ req[s].stage # "free" /\ Answer(s, code, req[s].op) /\ code \in Codes
      /\ lock' \in Slots \cup {NoSlot} /\ Fault
      /\ UNCHANGED <<device, member, plan, database, events, changes>>
  BY DEF Fail, Codes, IInv, TypeOK
<1> QED BY <1>1, <1>2, AnswerStep

LEMMA SendKeeps ==
  ASSUME IInv, NEW d \in Devices, NEW s \in Slots, Send(d, s)
  PROVE  IInv'
<1> DEFINE r == [Free EXCEPT !.stage = "guard", !.dev = d, !.awaited = TRUE,
                             !.todo = NextBatch(d)]
<1>1. req' = [req EXCEPT ![s] = r]
  BY DEF Send
<1>2. NextBatch(d) \subseteq queue /\ NextBatch(d) \subseteq Made
  BY DEF NextBatch, Queued, IInv, QueueIsMade
<1>3. r \in Requests
  BY <1>2, FreeIsFine DEF Free, Requests, Stages, IInv, TypeOK
<1>4. Fine(r, Made, Recorded, dropped)
  <2>1. /\ r.stage = "guard" /\ r.dev = d /\ r.todo = NextBatch(d) /\ r.done = {}
    BY DEF Free
  <2> HIDE DEF r
  <2> QED BY <1>2, <2>1, BatchHasNoGap DEF Fine, InService, InTransaction
<1> HIDE DEF r
<1>5. UNCHANGED <<device, database, lock, member, plan, events, changes, faults>>
  BY DEF Send, bounds
<1> QED BY <1>1, <1>3, <1>4, <1>5, QuietStep, BoundsKept

-----------------------------------------------------------------------------
(* Steps of the devices.                                                   *)

LEMMA enqueueKeeps ==
  ASSUME IInv, NEW d \in Devices, NEW b \in Bodies, enqueue(d, b)
  PROVE  IInv'
<1> DEFINE n == <<d, last[d] + 1>>
<1>1. n \in Ops /\ b \in Body /\ b # NoBody
  BY BoundAssumption, BookAssumption, NoBodyIsNone DEF enqueue, Ops, IInv, TypeOK
<1>2. TypeOK'
  <2>1. last' \in [Devices -> 0..MaxOps]
    BY BoundAssumption DEF enqueue, IInv, TypeOK
  <2>2. body' \in [Ops -> Body \cup {NoBody}]
    BY <1>1 DEF enqueue, IInv, TypeOK
  <2>3. queue' \subseteq Ops /\ conflict' \subseteq queue'
    BY <1>1 DEF enqueue, IInv, TypeOK
  <2> QED BY <2>1, <2>2, <2>3 DEF enqueue, IInv, TypeOK, database, bounds
<1>3. Made' = Made \cup {n}
  BY <1>1 DEF enqueue, Made, IInv, TypeOK
<1>4. /\ Recorded' = Recorded /\ dropped' = dropped /\ req' = req /\ queue' = queue \cup {n}
  BY DEF enqueue, database, Recorded
<1>5. RequestsFine'
  BY <1>3, <1>4, FineGrows DEF IInv, RequestsFine
<1>6. QueueIsMade'
  <2>1. queue' \subseteq Made'
    BY <1>3, <1>4 DEF IInv, QueueIsMade
  <2>2. ASSUME NEW o \in Ops
        PROVE  o \in Made' <=> o[2] =< last'[o[1]]
    <3>1. o[1] \in Devices /\ o[2] \in 1..MaxOps /\ o = <<o[1], o[2]>>
      BY OpIsPair
    <3>2. o \in Made <=> o[2] =< last[o[1]]
      BY DEF IInv, QueueIsMade
    <3>3. last'[o[1]] = IF o[1] = d THEN last[d] + 1 ELSE last[o[1]]
      BY <3>1 DEF enqueue, IInv, TypeOK
    <3>4. last[o[1]] \in Int /\ last[d] \in Int
      BY <3>1, BoundAssumption DEF IInv, TypeOK
    <3> QED BY <1>3, <3>1, <3>2, <3>3, <3>4
  <2> QED BY <2>1, <2>2 DEF QueueIsMade, Made
<1>7. NoLoss' /\ NothingOvertaken'
  BY <1>3, <1>4 DEF IInv, NoLoss, NothingOvertaken
<1> QED BY <1>2, <1>5, <1>6, <1>7 DEF IInv

LEMMA dropStuckKeeps ==
  ASSUME IInv, NEW d \in Devices, dropStuck(d)
  PROVE  IInv'
<1>1. TypeOK'
  BY DEF dropStuck, IInv, TypeOK, database, bounds
<1>2. /\ Made' = Made /\ Recorded' = Recorded /\ req' = req /\ last' = last
      /\ dropped \subseteq dropped' /\ queue' \subseteq queue /\ queue \subseteq queue' \cup dropped'
  BY DEF dropStuck, database, Recorded, Made
<1>3. RequestsFine'
  BY <1>2, FineGrows DEF IInv, RequestsFine
<1>4. QueueIsMade' /\ NoLoss' /\ NothingOvertaken'
  BY <1>2 DEF IInv, QueueIsMade, NoLoss, NothingOvertaken
<1> QED BY <1>1, <1>3, <1>4 DEF IInv

LEMMA ReceiveKeeps ==
  ASSUME IInv, NEW s \in Slots, Receive(s)
  PROVE  IInv'
<1> USE Start
<1>1. Free \in Requests /\ Fine(Free, Made, Recorded, dropped)
  BY FreeIsFine
<1>2. req[s].done \subseteq Recorded
  BY DEF Fine
<1>3. /\ Made' = Made /\ Recorded' = Recorded /\ dropped' = dropped /\ last' = last
      /\ queue' \subseteq queue /\ queue \subseteq queue' \cup Recorded
  BY <1>2 DEF Receive, database, Recorded, Made
<1>4. TypeOK'
  <2>1. conflict' \subseteq queue'
    BY DEF Receive, IInv, TypeOK
  <2>2. req' \in [Slots -> Requests]
    BY <1>1 DEF Receive
  <2> QED BY <2>1, <2>2, <1>3 DEF Receive, IInv, TypeOK, database, bounds
<1>5. RequestsFine'
  <2> SUFFICES ASSUME NEW t \in Slots PROVE Fine(req'[t], Made, Recorded, dropped)
    BY <1>3 DEF RequestsFine
  <2>1. req'[t] = IF t = s THEN Free ELSE req[t]
    BY DEF Receive
  <2> QED BY <1>1, <2>1
<1>6. QueueIsMade' /\ NoLoss' /\ NothingOvertaken'
  BY <1>3 DEF IInv, QueueIsMade, NoLoss, NothingOvertaken
<1> QED BY <1>4, <1>5, <1>6 DEF IInv

-----------------------------------------------------------------------------
(* Steps around the requests.                                              *)

LEMMA CrashKeeps ==
  ASSUME IInv, Crash
  PROVE  IInv'
<1>1. /\ Made' = Made /\ Recorded' = Recorded /\ dropped' = dropped /\ last' = last
      /\ queue' = queue
  BY DEF Crash, device, database, Recorded, Made
<1>2. TypeOK'
  BY FreeIsFine, BoundsKept DEF Crash, IInv, TypeOK, device, database
<1>3. RequestsFine'
  BY <1>1, FreeIsFine DEF Crash, RequestsFine
<1>4. QueueIsMade' /\ NoLoss' /\ NothingOvertaken'
  BY <1>1 DEF IInv, QueueIsMade, NoLoss, NothingOvertaken
<1> QED BY <1>2, <1>3, <1>4 DEF IInv

LEMMA OthersKeep ==
  ASSUME IInv,
         \/ \E d \in Devices, m \in Members : ChangeMember(d, m)
         \/ ChangePlan
         \/ \E o \in Orders, status \in {"accepted", "scheduled", "cancelled"} :
               MoveOrder(o, status)
  PROVE  IInv'
<1>1. Change => changes' \in 0..MaxChanges
  BY BoundAssumption DEF Change, IInv, TypeOK
<1>2. TypeOK'
  BY <1>1 DEF ChangeMember, ChangePlan, MoveOrder, IInv, TypeOK, device, database, bounds,
              Status, OpenStatus
<1>3. /\ Made' = Made /\ Recorded' = Recorded /\ dropped' = dropped /\ last' = last
      /\ queue' = queue /\ req' = req
  BY DEF ChangeMember, ChangePlan, MoveOrder, device, database, Recorded, Made
<1>4. RequestsFine' /\ QueueIsMade' /\ NoLoss' /\ NothingOvertaken'
  BY <1>3 DEF IInv, RequestsFine, QueueIsMade, NoLoss, NothingOvertaken
<1> QED BY <1>2, <1>4 DEF IInv

-----------------------------------------------------------------------------
(* The commit.                                                             *)

(* What a transaction works on: an operation that was made, by a member.   *)
LEMMA Transaction ==
  ASSUME IInv, NEW s \in Slots, req[s].stage = "looked"
  PROVE  /\ req[s].op \in Made /\ req[s].op \in Ops
         /\ body[req[s].op] \in Body
         /\ req[s].member \in Members
         /\ Before(req[s].op) \subseteq Recorded \cup dropped
<1> USE Start
<1>1. req[s].op \in req[s].todo /\ req[s].op \in Made
  BY DEF Fine, InTransaction
<1>2. req[s].op \in Ops /\ body[req[s].op] \in Body
  BY <1>1, MadeHasBody DEF IInv
<1>3. req[s].member \in Members
  BY DEF Fine, InService
<1>4. ASSUME NEW p \in Before(req[s].op) PROVE p \in Recorded \cup dropped
  <2>1. p \in req[s].todo \cup Recorded \cup dropped
    BY <1>1 DEF Fine
  <2>2. p \in Ops /\ p[2] < req[s].op[2]
    BY DEF Before
  <2>3. p[2] \in Int /\ req[s].op[2] \in Int
    BY <1>2, <2>2, OpIsPair
  <2>4. p \notin req[s].todo
    BY <2>2, <2>3 DEF Fine, InTransaction
  <2> QED BY <2>1, <2>4
<1> QED BY <1>1, <1>2, <1>3, <1>4

LEMMA KeptOrderTyped ==
  ASSUME IInv, NEW s \in Slots, req[s].stage = "looked"
  PROVE  KeptOrder(s) \in Orders \cup {NoOrder} /\ (Fulfils(s) => KeptOrder(s) \in Orders)
<1>1. req[s].member.branch \in Branches
  BY Transaction, BookAssumption
<1>2. SeesOrder[req[s].member.branch] \subseteq Orders
  BY <1>1, BookAssumption
<1> QED BY <1>2 DEF KeptOrder, Fulfils

LEMMA NewRowTyped ==
  ASSUME IInv, NEW s \in Slots, req[s].stage = "looked"
  PROVE  NewRow(s) \in Row
<1> DEFINE o == req[s].op
           b == body[o]
           row == book[b.rec]
           kept == KeptOrder(s)
           asked == IF RuleOf(b.rec) = "own" THEN resolveBranch(req[s].member, b.branch) ELSE Whole
<1>1. o \in Ops /\ b \in Body
  BY Transaction
<1>2. b.rec \in Records /\ b.branch \in Branches
  BY <1>1 DEF Body
<1>3. row \in Row
  BY <1>2 DEF IInv, TypeOK
<1>4. kept \in Orders \cup {NoOrder}
  BY KeptOrderTyped
<1>5. asked \in Branches
  <2>1. req[s].member.branch \in Branches
    BY Transaction, BookAssumption
  <2> QED BY <1>2, <2>1, BookAssumption DEF resolveBranch
<1>6. NewRow(s) =
        CASE b.kind = "insert" /\ req[s].state = "none" ->
               [state |-> "live", order |-> kept, note |-> NoOp, branch |-> asked]
          [] b.kind = "update" /\ req[s].state = "live" ->
               [row EXCEPT !.note = o,
                           !.order = IF EntityOf[b.rec] = "draft" /\ b.order # NoOrder
                                     THEN kept ELSE @]
          [] b.kind = "softDelete" /\ req[s].state = "live" -> [row EXCEPT !.state = "deleted"]
          [] OTHER -> row
  BY DEF NewRow
<1> HIDE DEF o, b, row, kept, asked
<1>7. [state |-> "live", order |-> kept, note |-> NoOp, branch |-> asked] \in Row
  BY <1>4, <1>5 DEF Row
<1>8. [row EXCEPT !.note = o,
                  !.order = IF EntityOf[b.rec] = "draft" /\ b.order # NoOrder
                            THEN kept ELSE @] \in Row
  BY <1>1, <1>3, <1>4 DEF Row
<1>9. [row EXCEPT !.state = "deleted"] \in Row
  BY <1>3 DEF Row
<1> QED BY <1>3, <1>6, <1>7, <1>8, <1>9

(* The log grows at its end, by the operation of the transaction.          *)
LEMMA WriteRecords ==
  ASSUME IInv, NEW s \in Slots, req[s].stage = "looked", Write(s)
  PROVE  /\ log' \in Seq(Ops)
         /\ Recorded' = Recorded \cup {req[s].op}
         /\ book' \in [Records -> Row] /\ audit' \subseteq Entries
         /\ order' \in [Orders -> Status]
<1> DEFINE o == req[s].op
<1>1. log \in Seq(Ops) /\ o \in Ops /\ body[o] \in Body
  BY Transaction DEF IInv, TypeOK
<1>2. CASE req[s].seen
  <2>1. o \in Recorded
    BY <1>2, Start DEF Fine
  <2>2. UNCHANGED database
    BY <1>2 DEF Write
  <2> QED BY <2>1, <2>2 DEF database, Recorded, IInv, TypeOK
<1>3. CASE ~req[s].seen
  <2>1. log' = Append(log, o)
    BY <1>3 DEF Write
  <2>2. log' \in Seq(Ops) /\ Recorded' = Recorded \cup {o}
    <3> HIDE DEF o
    <3>1. /\ Len(log') = Len(log) + 1 /\ Len(log) \in Nat
          /\ \A i \in 1..Len(log) : log'[i] = log[i]
          /\ log'[Len(log) + 1] = o
          /\ DOMAIN log = 1..Len(log) /\ DOMAIN log' = 1..Len(log')
      BY <1>1, <2>1
    <3>2. DOMAIN log' = DOMAIN log \cup {Len(log) + 1}
      BY <3>1
    <3> QED BY <1>1, <2>1, <3>1, <3>2 DEF Recorded
  <2>3. book' \in [Records -> Row]
    BY <1>1, <1>3, NewRowTyped DEF Write, Body, IInv, TypeOK
  <2>4. audit' \subseteq Entries
    <3>1. body[o].rec \in Records
      BY <1>1 DEF Body
    <3>2. NewAudit(s) \subseteq Entries
      BY <1>1, <3>1 DEF NewAudit, Entries
    <3> QED BY <1>3, <3>2 DEF Write, IInv, TypeOK
  <2>5. order' \in [Orders -> Status]
    BY <1>3, KeptOrderTyped DEF Write, Status, IInv, TypeOK
  <2> QED BY <2>2, <2>3, <2>4, <2>5
<1> QED BY <1>2, <1>3

(* One request writes and stays fine: the order of seq is kept.            *)
LEMMA WritingStep ==
  ASSUME IInv, NEW s \in Slots, req[s].stage = "looked", Write(s),
         NEW r \in Requests, Fine(r, Made, Recorded \cup {req[s].op}, dropped),
         req' = [req EXCEPT ![s] = r], lock' = NoSlot,
         UNCHANGED <<device, member, plan, events, changes>>,
         faults' \in 0..MaxFaults
  PROVE  IInv'
<1> DEFINE o == req[s].op
<1>1. /\ Recorded' = Recorded \cup {o} /\ o \in Ops /\ o \in Made
      /\ Before(o) \subseteq Recorded \cup dropped
  BY WriteRecords, Transaction
<1>2. /\ Made' = Made /\ dropped' = dropped /\ queue' = queue /\ last' = last
  BY DEF device, Made
<1> HIDE DEF o
<1>3. TypeOK'
  <2>1. req' \in [Slots -> Requests]
    BY DEF IInv, TypeOK
  <2> QED BY <2>1, WriteRecords DEF IInv, TypeOK, device
<1>4. RequestsFine'
  <2> SUFFICES ASSUME NEW t \in Slots PROVE Fine(req'[t], Made, Recorded \cup {o}, dropped)
    BY <1>1, <1>2 DEF RequestsFine
  <2>1. req'[t] = IF t = s THEN r ELSE req[t]
    BY DEF IInv, TypeOK
  <2>2. Fine(req[t], Made, Recorded \cup {o}, dropped)
    BY FineGrows DEF IInv, RequestsFine
  <2> QED BY <2>1, <2>2 DEF o
<1>5. QueueIsMade' /\ NoLoss' /\ NothingOvertaken'
  BY <1>1, <1>2 DEF IInv, QueueIsMade, NoLoss, NothingOvertaken
<1> QED BY <1>3, <1>4, <1>5 DEF IInv

LEMMA CommitKeeps ==
  ASSUME IInv, NEW s \in Slots, Commit(s)
  PROVE  IInv'
<1> DEFINE fulfilled == ~req[s].seen /\ Fulfils(s)
           o == req[s].op
           r == [req[s] EXCEPT !.stage = IF fulfilled THEN "emit" ELSE "next",
                               !.emit = IF fulfilled THEN KeptOrder(s) ELSE NoOrder,
                               !.todo = @ \ {o}, !.done = @ \cup {o}, !.op = NoOp]
<1> USE Start
<1>1. req[s].stage = "looked" /\ Write(s) /\ lock' = NoSlot
  BY DEF Commit
<1>2. o \in Ops /\ (fulfilled => KeptOrder(s) \in Orders)
  BY <1>1, Transaction, KeptOrderTyped
<1>3. req' = [req EXCEPT ![s] = r]
  BY DEF Commit, Requests
<1> HIDE DEF fulfilled
<1>4. /\ r \in Requests
      /\ r.stage = IF fulfilled THEN "emit" ELSE "next"
      /\ r.emit = IF fulfilled THEN KeptOrder(s) ELSE NoOrder
      /\ r.dev = req[s].dev /\ r.member = req[s].member
      /\ r.todo = req[s].todo \ {o} /\ r.done = req[s].done \cup {o}
  BY <1>2 DEF Requests, Stages
<1>5. Fine(r, Made, Recorded \cup {o}, dropped)
  <2> HIDE DEF r, o
  <2> QED BY <1>1, <1>2, <1>4 DEF Fine, InService, InTransaction
<1> HIDE DEF r
<1>6. UNCHANGED <<device, member, plan, events, changes, faults>>
  BY DEF Commit, bounds
<1> QED BY <1>1, <1>3, <1>4, <1>5, <1>6, BoundsKept, WritingStep

LEMMA CommitUnheardKeeps ==
  ASSUME IInv, NEW s \in Slots, CommitUnheard(s)
  PROVE  IInv'
<1> DEFINE r == Answered(req[s], "INTERNAL", req[s].op)
<1>1. /\ req[s].stage = "looked" /\ Write(s) /\ lock' = NoSlot /\ Fault
      /\ Answer(s, "INTERNAL", req[s].op)
      /\ UNCHANGED <<device, member, plan, events, changes>>
  BY DEF CommitUnheard
<1>2. "INTERNAL" \in Codes /\ req[s].op \in Ops \cup {NoOp}
  BY <1>1, Transaction DEF Codes
<1>3. /\ r \in Requests /\ Fine(r, Made, Recorded \cup {req[s].op}, dropped)
      /\ req' = [req EXCEPT ![s] = r]
  BY <1>1, <1>2, AnswerIsFine
<1> HIDE DEF r
<1> QED BY <1>1, <1>3, BoundsKept, WritingStep

-----------------------------------------------------------------------------
(* The theorems.                                                           *)

LEMMA InitInv == Init => IInv
<1> SUFFICES ASSUME Init PROVE IInv
  OBVIOUS
<1>1. Made = {} /\ Recorded = {}
  BY DEF Init, Made, Recorded
<1>2. TypeOK
  <2>1. NoRow \in Row
    BY BookAssumption DEF Row, NoRow
  <2>2. /\ last \in [Devices -> 0..MaxOps] /\ changes \in 0..MaxChanges
        /\ faults \in 0..MaxFaults
    BY BoundAssumption DEF Init
  <2>3. req \in [Slots -> Requests] /\ log \in Seq(Ops)
    BY FreeIsFine DEF Init
  <2> QED BY <2>1, <2>2, <2>3 DEF Init, TypeOK, Status, OpenStatus
<1>3. RequestsFine
  BY FreeIsFine DEF Init, RequestsFine
<1>4. QueueIsMade
  BY <1>1, OpIsPair DEF Init, QueueIsMade, Made
<1>5. NoLoss /\ NothingOvertaken
  BY <1>1 DEF NoLoss, NothingOvertaken
<1> QED BY <1>2, <1>3, <1>4, <1>5 DEF IInv

LEMMA NextKeeps == IInv /\ [Next]_vars => IInv'
<1> SUFFICES ASSUME IInv, [Next]_vars PROVE IInv'
  OBVIOUS
<1>1. CASE \E d \in Devices, b \in Bodies : enqueue(d, b)
  BY <1>1, enqueueKeeps
<1>2. CASE \E d \in Devices : dropStuck(d)
  BY <1>2, dropStuckKeeps
<1>3. CASE \E d \in Devices, s \in Slots : Send(d, s)
  BY <1>3, SendKeeps
<1>4. CASE \E s \in Slots : Serve(s)
  BY <1>4, GuardKeeps, PlanKeeps, StartOpKeeps, FinishBatchKeeps, LookKeeps, CommitKeeps,
     RefuseKeeps, EmitKeeps, ReceiveKeeps DEF Serve
<1>5. CASE \E s \in Slots : Disturb(s)
  BY <1>5, GiveUpKeeps, LoseRequestKeeps, CommitUnheardKeeps, FailKeeps DEF Disturb
<1>6. CASE Crash
  BY <1>6, CrashKeeps
<1>7. CASE \/ \E d \in Devices, m \in Members : ChangeMember(d, m)
           \/ ChangePlan
           \/ \E o \in Orders, status \in {"accepted", "scheduled", "cancelled"} :
                 MoveOrder(o, status)
  BY <1>7, OthersKeep
<1>8. CASE UNCHANGED vars
  <2>1. /\ UNCHANGED <<last, body, queue, conflict, dropped, req, lock, member, plan>>
        /\ UNCHANGED <<log, book, audit, order, events, changes, faults>>
    BY <1>8 DEF vars, device, database, bounds
  <2>2. Made' = Made /\ Recorded' = Recorded
    BY <2>1 DEF Made, Recorded
  <2> QED BY <2>1, <2>2 DEF IInv, TypeOK, RequestsFine, QueueIsMade, NoLoss, NothingOvertaken
<1> QED BY <1>1, <1>2, <1>3, <1>4, <1>5, <1>6, <1>7, <1>8 DEF Next

LEMMA Inductive == Spec => []IInv
BY InitInv, NextKeeps, PTL DEF Spec

-----------------------------------------------------------------------------
(* What is read under the lock stays true until the commit.                *)

(* The steps that leave the lock and the database alone.                   *)
LEMMA LookStays ==
  ASSUME IInv, LookIsCurrent, UNCHANGED <<lock, log, book>>,
         \A o \in Made : body'[o] = body[o],
         \A t \in Slots : req'[t].stage = "looked" =>
            /\ req[t].stage = "looked"
            /\ req'[t].op = req[t].op /\ req'[t].seen = req[t].seen /\ req'[t].state = req[t].state
  PROVE  LookIsCurrent'
<1> SUFFICES ASSUME NEW t \in Slots, req'[t].stage = "looked"
             PROVE  /\ lock' = t
                    /\ req'[t].seen <=> req'[t].op \in Recorded'
                    /\ req'[t].state = book'[body'[req'[t].op].rec].state
  BY DEF LookIsCurrent
<1>1. req[t].op \in Made /\ Recorded' = Recorded
  BY Transaction DEF Recorded
<1> QED BY <1>1 DEF LookIsCurrent

(* The steps after which nobody is looking.                                *)
LEMMA LookEnds ==
  ASSUME LookIsCurrent, NEW s \in Slots, lock = s,
         \A t \in Slots \ {s} : req'[t] = req[t], req'[s].stage # "looked"
  PROVE  LookIsCurrent'
BY DEF LookIsCurrent

LEMMA LookIsCurrentKept == IInv /\ LookIsCurrent /\ [Next]_vars => LookIsCurrent'
<1> SUFFICES ASSUME IInv, LookIsCurrent, [Next]_vars PROVE LookIsCurrent'
  OBVIOUS
<1>0. req \in [Slots -> Requests]
  BY DEF IInv, TypeOK
<1>1. ASSUME NEW d \in Devices, NEW b \in Bodies, enqueue(d, b) PROVE LookIsCurrent'
  <2>1. \A o \in Made : o # <<d, last[d] + 1>>
    <3> SUFFICES ASSUME NEW o \in Made PROVE o # <<d, last[d] + 1>>
      OBVIOUS
    <3>1. o \in Ops /\ o[2] =< last[o[1]]
      BY DEF IInv, QueueIsMade
    <3>2. last[o[1]] \in Int /\ o[2] \in Int
      BY <3>1, OpIsPair, BoundAssumption DEF IInv, TypeOK
    <3> QED BY <3>1, <3>2
  <2>2. \A o \in Made : body'[o] = body[o]
    BY <1>1, <2>1 DEF enqueue, Made, IInv, TypeOK
  <2>3. UNCHANGED <<req, lock, log, book>>
    BY <1>1 DEF enqueue, database
  <2> QED BY <2>2, <2>3, LookStays
<1>2. ASSUME \/ \E d \in Devices : dropStuck(d)
             \/ \E d \in Devices, m \in Members : ChangeMember(d, m)
             \/ ChangePlan
             \/ \E o \in Orders, status \in {"accepted", "scheduled", "cancelled"} :
                   MoveOrder(o, status)
             \/ UNCHANGED vars
      PROVE  LookIsCurrent'
  <2>1. UNCHANGED <<req, lock, log, book, body>>
    BY <1>2 DEF dropStuck, ChangeMember, ChangePlan, MoveOrder, vars, device, database
  <2> QED BY <2>1, LookStays
<1>3. ASSUME NEW d \in Devices, NEW s \in Slots, Send(d, s) PROVE LookIsCurrent'
  <2>1. UNCHANGED <<lock, log, book, body>>
    BY <1>3 DEF Send, device, database
  <2>2. \A t \in Slots : req'[t] = req[t] \/ req'[t].stage = "guard"
    BY <1>0, <1>3 DEF Send, Free
  <2> QED BY <2>1, <2>2, LookStays
<1>4. ASSUME NEW s \in Slots,
             \/ Guard(s) \/ assertPlan(s) \/ (\E o \in Ops : StartOp(s, o)) \/ FinishBatch(s)
             \/ Emit(s) \/ Receive(s) \/ LoseRequest(s)
      PROVE  LookIsCurrent'
  <2>1. UNCHANGED <<lock, log, book, body>>
    BY <1>4 DEF Guard, assertPlan, StartOp, FinishBatch, Emit, Receive, LoseRequest, device,
                database
  <2>2. /\ \A t \in Slots \ {s} : req'[t] = req[t]
        /\ req'[s].stage # "looked"
    BY <1>0, <1>4 DEF Guard, assertPlan, StartOp, FinishBatch, Emit, Receive, LoseRequest,
                      Answer, Free, Requests
  <2> QED BY <2>1, <2>2, LookStays
<1>5. ASSUME NEW s \in Slots, GiveUp(s) PROVE LookIsCurrent'
  <2>1. UNCHANGED <<lock, log, book, body>>
    BY <1>5 DEF GiveUp, device, database
  <2>2. \A t \in Slots : /\ req'[t].stage = req[t].stage /\ req'[t].op = req[t].op
                        /\ req'[t].seen = req[t].seen /\ req'[t].state = req[t].state
    BY <1>0, <1>5 DEF GiveUp, Requests
  <2> QED BY <2>1, <2>2, LookStays
<1>6. ASSUME NEW s \in Slots, Look(s) PROVE LookIsCurrent'
  <2> DEFINE o == req[s].op
             known == (o \in Recorded)
  <2>1. \A t \in Slots : req[t].stage # "looked"
    BY <1>6, BoundAssumption DEF Look, LookIsCurrent
  <2>2. UNCHANGED <<log, book, body>> /\ lock' = s /\ Recorded' = Recorded
    BY <1>6 DEF Look, device, database, Recorded
  <2>3. /\ req'[s].op = o /\ req'[s].seen = known
        /\ req'[s].state = book[body[o].rec].state
    BY <1>0, <1>6 DEF Look, Requests
  <2>4. \A t \in Slots \ {s} : req'[t] = req[t]
    BY <1>0, <1>6 DEF Look
  <2> HIDE DEF o
  <2> QED BY <2>1, <2>2, <2>3, <2>4 DEF LookIsCurrent
<1>7. ASSUME NEW s \in Slots, Commit(s) \/ CommitUnheard(s) \/ Refuse(s) PROVE LookIsCurrent'
  <2>1. req[s].stage = "looked"
    BY <1>7 DEF Commit, CommitUnheard, Refuse
  <2>2. /\ \A t \in Slots \ {s} : req'[t] = req[t]
        /\ req'[s].stage # "looked"
    BY <1>0, <1>7 DEF Commit, CommitUnheard, Refuse, Answer, Requests
  <2> QED BY <2>1, <2>2, LookEnds DEF LookIsCurrent
<1>8. ASSUME NEW s \in Slots, NEW code \in {"RATE_LIMITED", "INTERNAL"}, Fail(s, code)
      PROVE  LookIsCurrent'
  <2>1. /\ \A t \in Slots \ {s} : req'[t] = req[t]
        /\ req'[s].stage # "looked"
    BY <1>0, <1>8 DEF Fail, Answer, Requests
  <2>2. UNCHANGED <<log, book, body>>
    BY <1>8 DEF Fail, device, database
  <2>3. CASE req[s].stage = "looked"
    BY <2>1, <2>3, LookEnds DEF LookIsCurrent
  <2>4. CASE req[s].stage # "looked"
    BY <1>8, <2>1, <2>2, <2>4, LookStays DEF Fail
  <2> QED BY <2>3, <2>4
<1>9. ASSUME Crash PROVE LookIsCurrent'
  BY <1>9 DEF Crash, Free, LookIsCurrent
<1> QED BY <1>1, <1>2, <1>3, <1>4, <1>5, <1>6, <1>7, <1>8, <1>9 DEF Next, Serve, Disturb

LEMMA CurrentAlways == Spec => [](IInv /\ LookIsCurrent)
<1>1. Init => LookIsCurrent
  BY DEF Init, LookIsCurrent, Free
<1> QED BY <1>1, InitInv, NextKeeps, LookIsCurrentKept, PTL DEF Spec

(* The row of a deleted record is left as it is by the transaction that    *)
(* has read it.                                                            *)
LEMMA DeletedRowStays ==
  ASSUME IInv, LookIsCurrent, NEW s \in Slots, req[s].stage = "looked", Write(s),
         NEW r \in Records, book[r].state = "deleted"
  PROVE  book'[r] = book[r]
<1>1. CASE req[s].seen
  BY <1>1 DEF Write, database
<1>2. CASE ~req[s].seen
  <2> DEFINE rec == body[req[s].op].rec
  <2>1. rec = r => NewRow(s) = book[r]
    <3> SUFFICES ASSUME rec = r PROVE NewRow(s) = book[r]
      OBVIOUS
    <3>1. req[s].state = "deleted"
      BY DEF LookIsCurrent
    <3> QED BY <3>1 DEF NewRow
  <2>2. book' = [book EXCEPT ![rec] = NewRow(s)]
    BY <1>2 DEF Write
  <2> HIDE DEF rec
  <2> QED BY <2>1, <2>2 DEF IInv, TypeOK
<1> QED BY <1>1, <1>2

-----------------------------------------------------------------------------

(* The variables of push have their types in every state, for any book,    *)
(* devices, memberships and bounds.                                        *)
THEOREM TypeCorrect == Spec => []TypeOK
<1>1. IInv => TypeOK
  BY DEF IInv
<1> QED BY <1>1, Inductive, PTL

(* No operation is lost: it is in the queue of its device or in sync_ops,  *)
(* or the person dropped it, whatever was lost, given up or rolled back.   *)
THEOREM NothingIsLost == Spec => []NoLoss
<1>1. IInv => NoLoss
  BY DEF IInv
<1> QED BY <1>1, Inductive, PTL

(* The operations of a device take effect in the order of seq, however     *)
(* requests overlap and whatever becomes of the membership.                *)
THEOREM OrderIsKept == Spec => []NothingOvertaken
<1>1. IInv => NothingOvertaken
  BY DEF IInv
<1> QED BY <1>1, Inductive, PTL

(* Deletion wins: no transaction of any device changes a row that has been *)
(* deleted, because the row it looked at is the row it writes.             *)
THEOREM DeletionWins == Spec => DeleteWins
<1> DEFINE Kept == \A r \in Records : book[r].state = "deleted" => book'[r] = book[r]
<1>1. IInv /\ LookIsCurrent /\ [Next]_vars => [Kept]_vars
  <2> SUFFICES ASSUME IInv, LookIsCurrent, Next PROVE Kept
    OBVIOUS
  <2>1. CASE \E s \in Slots : Commit(s) \/ CommitUnheard(s)
    BY <2>1, DeletedRowStays DEF Commit, CommitUnheard
  <2>2. CASE UNCHANGED book
    BY <2>2
  <2> QED
    BY <2>1, <2>2 DEF Next, Serve, Disturb, enqueue, dropStuck, Send, Receive, GiveUp, LoseRequest,
       Guard, assertPlan, StartOp, FinishBatch, Look, Refuse, Fail, Emit, Crash, ChangeMember,
       ChangePlan, MoveOrder, database
<1> QED BY <1>1, CurrentAlways, PTL DEF DeleteWins, Spec

=============================================================================

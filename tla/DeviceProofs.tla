---------------------------- MODULE DeviceProofs ----------------------------
(***************************************************************************)
(* Theorems about a device that writes and reads (Device), for any records *)
(* and any number of operations and commits.                               *)
(*                                                                         *)
(* The inductive invariant compares the device's copy of a record with the *)
(* server's row by the writes each of them holds.  A copy that holds all   *)
(* the writes of the row differs from it by operations that are waiting    *)
(* and nothing else; a copy that lacks one is going to be read again.      *)
(***************************************************************************)
EXTENDS Device, FiniteSetTheorems, TLAPS

Kinds == {"insert", "update", "softDelete"}
Marks == {"mine", "theirs"} \X Nat
Rows == [there : BOOLEAN, deleted : BOOLEAN, writes : SUBSET Marks, at : Nat]
Copies == [there : BOOLEAN, deleted : BOOLEAN, writes : SUBSET Marks]
Operations == [n : Nat, record : BookIds, kind : Kinds, conflict : BOOLEAN]
Cursors == [from : Nat, until : Nat \cup {NoMark}]
Syncings ==
  [step : {"idle", "push", "pull"}]
    \cup [step : {"sent"}, op : Operations]
    \cup [step : {"answered"}, op : Operations, status : {"done", "retry", "refused"}]
    \cup [step : {"page"}, records : SUBSET (BookIds \X Copies), next : Cursors]

DeviceTyped ==
  /\ serverBook \in [BookIds -> Rows]
  /\ commits \in Nat
  /\ opsSeen \subseteq Nat
  /\ localBook \in [BookIds -> Copies]
  /\ opQueue \subseteq Operations
  /\ opsMade \in Nat
  /\ pullAt \in Cursors
  /\ syncing \in Syncings
  /\ astray \subseteq BookIds

Mine(op) == <<"mine", op.n>>
InFlight == syncing.step \in {"sent", "answered"}
Came == {r[1] : r \in syncing.records}

(* Operations on their way: waiting on the device, or sent.                *)
OnTheWay == opQueue \cup (IF InFlight THEN {syncing.op} ELSE {})

(* The clock of the server: commits are numbered, and nothing that was     *)
(* read or written is later than the last.                                 *)
ClockRight ==
  /\ \A i, j \in BookIds :
       serverBook[i].there /\ serverBook[j].there /\ serverBook[i].at = serverBook[j].at => i = j
  /\ \A i \in BookIds : serverBook[i].at <= commits /\ (serverBook[i].there => serverBook[i].at > 0)
  /\ pullAt.from <= commits /\ pullAt.until <= commits
  /\ SyncAt("page") => syncing.next.from <= commits /\ syncing.next.until <= commits
  /\ opsSeen \subseteq 1..opsMade

(* A write is in a row or a copy only once it was made.                    *)
WrittenBy(ops, time, writes) ==
  \A m \in writes : IF m[1] = "mine" THEN m[2] <= ops ELSE m[2] <= time

RowsRight ==
  /\ \A i \in BookIds :
       LET row == serverBook[i] IN
       /\ row.deleted => row.there /\ row.writes # {}
       /\ ~row.there => row.writes = {}
       /\ \A m \in row.writes : m[1] = "mine" => m[2] \in opsSeen
       /\ WrittenBy(opsMade, commits, row.writes) /\ WrittenBy(opsMade, commits, localBook[i].writes)
  /\ SyncAt("page") => \A r \in syncing.records : WrittenBy(opsMade, commits, r[2].writes)

(* The queue is sent in order, and an operation stays on the device's copy *)
(* while it waits.                                                         *)
QueueRight ==
  /\ \A op \in opQueue :
       /\ op.n \in 1..opsMade
       /\ localBook[op.record].there
       /\ op.n \in opsSeen => serverBook[op.record].there
       /\ \A p \in opQueue : p.n = op.n => p = op
       /\ \A p \in opQueue : p.n < op.n /\ op.n \in opsSeen => p.n \in opsSeen
       /\ \A p \in opQueue :
            p.n < op.n /\ p.record = op.record => p.kind # "softDelete" /\ op.kind # "insert"
  /\ \A op \in OnTheWay :
       op.kind = "insert" /\ op.n \notin opsSeen => ~serverBook[op.record].there

FlightRight ==
  InFlight =>
    LET f == syncing.op IN
    /\ f.n \in 1..opsMade
    /\ \A op \in opQueue : f.n <= op.n /\ (op.n = f.n => op = f)
    /\ ~f.conflict
    /\ f \in opQueue \/ f.n \in opsSeen \/ \A i \in BookIds : Mine(f) \notin localBook[i].writes
    /\ f.kind = "insert" => \A op \in opQueue \ {f} : op.record = f.record => op.kind # "insert"
    /\ SyncAt("answered") => (syncing.status = "done" => f.n \in opsSeen)

(* A record of a page is the row as it is, or one that lacks a write and   *)
(* is to be read again; whatever else the cursor passes over was read.     *)
PageRight ==
  SyncAt("page") =>
    /\ \A r \in syncing.records :
         LET row == serverBook[r[1]] IN
         /\ row.there
         /\ r[2] = Copy(row) \/ (row.at > syncing.next.from /\ ~ row.writes \subseteq r[2].writes)
    /\ \A r, q \in syncing.records : r[1] = q[1] => r = q
    /\ \A i \in BookIds \ (astray \cup Came) :
         serverBook[i].there /\ serverBook[i].at <= syncing.next.from => serverBook[i].at <= pullAt.from

Waiting(i) == {op \in opQueue : op.record = i /\ op.n \notin opsSeen}

CopyRight(i) ==
  LET row == serverBook[i]
      copy == localBook[i]
  IN  /\ row.there /\ row.at <= pullAt.from => copy.there /\ row.writes \subseteq copy.writes
      /\ copy.there /\ ~row.there => Waiting(i) # {}
      /\ row.writes \subseteq copy.writes =>
           /\ \A m \in copy.writes \ row.writes : \E op \in Waiting(i) : m = Mine(op)
           /\ row.deleted => copy.deleted /\ Waiting(i) = {}
           /\ copy.deleted /\ ~row.deleted => \E op \in Waiting(i) : op.kind = "softDelete"

CopiesRight == \A i \in BookIds \ astray : CopyRight(i)

DeviceInv ==
  /\ DeviceTyped /\ ClockRight /\ RowsRight /\ QueueRight /\ FlightRight /\ PageRight
  /\ CopiesRight /\ LocalWritesShown

-----------------------------------------------------------------------------
(* What `syncing` holds in each step.                                      *)

LEMMA SyncingShape ==
  ASSUME DeviceTyped
  PROVE  /\ InFlight => /\ syncing.op \in Operations
                        /\ syncing.op.n \in Nat /\ syncing.op.record \in BookIds
         /\ SyncAt("answered") => syncing.status \in {"done", "retry", "refused"}
         /\ SyncAt("page") => /\ syncing.records \subseteq BookIds \X Copies
                              /\ syncing.next \in Cursors
                              /\ Came \subseteq BookIds
         /\ pullAt.from \in Nat
         /\ \A i \in BookIds : serverBook[i] \in Rows /\ localBook[i] \in Copies
<1>1. /\ InFlight => syncing.op \in Operations
      /\ SyncAt("answered") => syncing.status \in {"done", "retry", "refused"}
      /\ SyncAt("page") => syncing.records \subseteq BookIds \X Copies /\ syncing.next \in Cursors
  BY DEF DeviceTyped, Syncings, InFlight, SyncAt
<1>2. SyncAt("page") => Came \subseteq BookIds
  BY <1>1 DEF Came
<1>3. \A f \in Operations : f.n \in Nat /\ f.record \in BookIds
  BY DEF Operations
<1>4. pullAt.from \in Nat
  BY DEF DeviceTyped, Cursors
<1> QED BY <1>1, <1>2, <1>3, <1>4 DEF DeviceTyped

(* Steps of sync that change nothing else: a request goes out, or is over. *)
LEMMA SyncMoves ==
  ASSUME DeviceInv, UNCHANGED <<serverSide, localBook, opQueue, opsMade, pullAt, astray>>,
         syncing' \in [step : {"idle", "push", "pull"}]
  PROVE  DeviceInv'
<1>1. /\ UNCHANGED <<serverBook, commits, opsSeen, localBook, opQueue, opsMade, pullAt, astray>>
      /\ ~InFlight' /\ ~SyncAt("page")' /\ ~SyncAt("answered")'
  BY DEF serverSide, InFlight, SyncAt
<1>2. DeviceTyped'
  BY <1>1 DEF DeviceInv, DeviceTyped, Syncings
<1>3. ClockRight' /\ RowsRight'
  BY <1>1 DEF DeviceInv, ClockRight, RowsRight, WrittenBy
<1>4. QueueRight' /\ FlightRight' /\ PageRight'
  BY <1>1 DEF DeviceInv, QueueRight, FlightRight, PageRight, OnTheWay
<1>5. CopiesRight' /\ LocalWritesShown'
  BY <1>1 DEF DeviceInv, CopiesRight, CopyRight, Waiting, LocalWritesShown, Mine
<1> QED BY <1>2, <1>3, <1>4, <1>5 DEF DeviceInv

LEMMA SendOpKeeps ==
  ASSUME DeviceInv, SendOp
  PROVE  DeviceInv'
<1>1. CASE syncing' = [step |-> "pull"]
  BY <1>1, SyncMoves DEF SendOp
<1>2. ASSUME NEW f \in opQueue, First(f), ~f.conflict, syncing' = [step |-> "sent", op |-> f]
      PROVE  DeviceInv'
  <2>1. /\ UNCHANGED <<serverBook, commits, opsSeen, localBook, opQueue, opsMade, pullAt, astray>>
        /\ InFlight' /\ ~SyncAt("page")' /\ ~SyncAt("answered")' /\ syncing'.op = f
    BY <1>2 DEF SendOp, serverSide, InFlight, SyncAt
  <2>2. DeviceTyped'
    BY <1>2, <2>1 DEF DeviceInv, DeviceTyped, Syncings
  <2>3. ClockRight' /\ RowsRight'
    BY <2>1 DEF DeviceInv, ClockRight, RowsRight, WrittenBy
  <2>4. OnTheWay' \subseteq OnTheWay
    BY <2>1 DEF OnTheWay
  <2>5. QueueRight'
    BY <2>1, <2>4 DEF DeviceInv, QueueRight
  <2>6. FlightRight'
    <3>1. \A op \in opQueue \ {f} : f.kind = "insert" /\ op.record = f.record => op.kind # "insert"
      <4> SUFFICES ASSUME NEW op \in opQueue, op # f, op.record = f.record
                   PROVE  op.kind # "insert"
        OBVIOUS
      <4>1. op.n # f.n /\ f.n <= op.n /\ f.n \in Nat /\ op.n \in Nat
        BY <1>2 DEF First, DeviceInv, QueueRight, DeviceTyped, Operations
      <4> QED BY <4>1 DEF DeviceInv, QueueRight
    <3> QED BY <1>2, <2>1, <3>1 DEF First, DeviceInv, QueueRight, FlightRight
  <2>7. PageRight' /\ CopiesRight' /\ LocalWritesShown'
    BY <2>1 DEF DeviceInv, PageRight, CopiesRight, CopyRight, Waiting, LocalWritesShown, Mine
  <2> QED BY <2>2, <2>3, <2>5, <2>6, <2>7 DEF DeviceInv
<1> QED BY <1>1, <1>2 DEF SendOp, SyncTo

LEMMA RejectOpKeeps ==
  ASSUME DeviceInv, NEW status \in {"retry", "refused"}, RejectOp(status)
  PROVE  DeviceInv'
<1>1. /\ UNCHANGED <<serverBook, commits, opsSeen, localBook, opQueue, opsMade, pullAt, astray>>
      /\ InFlight /\ InFlight' /\ ~SyncAt("page")' /\ syncing'.op = syncing.op
      /\ syncing'.status = status
      /\ syncing' = [step |-> "answered", op |-> syncing.op, status |-> status]
  BY DEF RejectOp, Answer, serverSide, InFlight, SyncAt
<1>2. DeviceTyped'
  BY <1>1, SyncingShape DEF DeviceInv, DeviceTyped, Syncings
<1>3. ClockRight' /\ RowsRight'
  BY <1>1 DEF DeviceInv, ClockRight, RowsRight, WrittenBy
<1>4. QueueRight' /\ FlightRight'
  BY <1>1 DEF DeviceInv, QueueRight, FlightRight, OnTheWay, Mine
<1>5. PageRight' /\ CopiesRight' /\ LocalWritesShown'
  BY <1>1 DEF DeviceInv, PageRight, CopiesRight, CopyRight, Waiting, LocalWritesShown, Mine
<1> QED BY <1>2, <1>3, <1>4, <1>5 DEF DeviceInv

-----------------------------------------------------------------------------
(* Writes.                                                                 *)

LEMMA WithWriteTyped ==
  ASSUME NEW copy, NEW kind \in Kinds, NEW mark \in Marks,
         copy \in Copies \/ copy \in Rows
  PROVE  LET new == WithWrite(copy, kind, mark) IN
         /\ copy \in Copies => new \in Copies
         /\ copy \in Rows => new \in Rows /\ new.at = copy.at
         /\ new.there /\ new.deleted = (kind = "softDelete")
         /\ new.writes = copy.writes \cup {mark}
BY DEF WithWrite, Copies, Rows

(* What a commit does to the rows.                                         *)
LEMMA CommitRowDoes ==
  ASSUME DeviceTyped, NEW i \in BookIds, NEW kind \in Kinds, NEW mark \in Marks,
         CommitRow(i, kind, mark)
  PROVE  /\ commits' = commits + 1 /\ commits' \in Nat
         /\ serverBook' \in [BookIds -> Rows]
         /\ \A j \in BookIds \ {i} : serverBook'[j] = serverBook[j]
         /\ serverBook'[i].there
         /\ serverBook'[i].deleted = (kind = "softDelete")
         /\ serverBook'[i].writes = serverBook[i].writes \cup {mark}
         /\ serverBook'[i].at = commits + 1
<1> DEFINE new == WithWrite(serverBook[i], kind, mark)
<1>1. /\ commits' = commits + 1 /\ commits \in Nat
      /\ serverBook' = [serverBook EXCEPT ![i] = [new EXCEPT !.at = commits + 1]]
      /\ serverBook[i] \in Rows /\ serverBook \in [BookIds -> Rows]
  BY DEF CommitRow, DeviceTyped
<1>2. /\ new \in Rows /\ new.there /\ new.deleted = (kind = "softDelete")
      /\ new.writes = serverBook[i].writes \cup {mark}
  BY <1>1 DEF WithWrite, Rows
<1> HIDE DEF new
<1>3. /\ [new EXCEPT !.at = commits + 1] \in Rows
      /\ [new EXCEPT !.at = commits + 1].at = commits + 1
      /\ [new EXCEPT !.at = commits + 1].there
      /\ [new EXCEPT !.at = commits + 1].deleted = new.deleted
      /\ [new EXCEPT !.at = commits + 1].writes = new.writes
  BY <1>1, <1>2 DEF Rows
<1> QED BY <1>1, <1>2, <1>3

(* A commit that the device does not know of leaves its copies right: the  *)
(* row has a write that no copy holds, and the cursor is before it.        *)
LEMMA OthersWriteKeeps ==
  ASSUME DeviceInv, NEW i \in BookIds, NEW kind \in Kinds, OthersWrite(i, kind)
  PROVE  DeviceInv'
<1> DEFINE mark == <<"theirs", commits + 1>>
<1>1. /\ MayWrite(serverBook[i], i, kind) /\ CommitRow(i, kind, mark)
      /\ UNCHANGED <<opsSeen, localBook, opQueue, opsMade, pullAt, syncing, astray>>
  BY DEF OthersWrite
<1>2. mark \in Marks /\ mark[1] = "theirs" /\ mark[2] = commits + 1 /\ commits \in Nat
  BY DEF Marks, DeviceInv, DeviceTyped
<1> HIDE DEF mark
<1>3. /\ commits' = commits + 1 /\ commits' \in Nat
      /\ serverBook' \in [BookIds -> Rows]
      /\ \A j \in BookIds \ {i} : serverBook'[j] = serverBook[j]
      /\ serverBook'[i].there
      /\ serverBook'[i].deleted = (kind = "softDelete")
      /\ serverBook'[i].writes = serverBook[i].writes \cup {mark}
      /\ serverBook'[i].at = commits + 1
  BY <1>1, <1>2, CommitRowDoes DEF DeviceInv
<1>4. /\ InFlight' = InFlight /\ OnTheWay' = OnTheWay /\ Came' = Came
      /\ \A step : SyncAt(step)' = SyncAt(step)
      /\ \A j \in BookIds : Waiting(j)' = Waiting(j)
      /\ \A op : Mine(op)' = Mine(op)
  BY <1>1 DEF InFlight, OnTheWay, SyncAt, Came, Waiting, Mine
<1>5. /\ \A j \in BookIds : serverBook[j].at \in Nat /\ serverBook[j].at <= commits
      /\ \A j \in BookIds : mark \notin localBook[j].writes /\ mark \notin serverBook[j].writes
      /\ pullAt.from \in Nat /\ pullAt.from <= commits
      /\ SyncAt("page") => \A r \in syncing.records : mark \notin r[2].writes
  BY <1>2, SyncingShape
     DEF DeviceInv, ClockRight, RowsRight, WrittenBy, DeviceTyped, Rows, Copies, Marks
<1>6. DeviceTyped'
  BY <1>1, <1>3 DEF DeviceInv, DeviceTyped
<1>7. ClockRight'
  <2>1. /\ pullAt.until \in Nat \cup {NoMark}
        /\ SyncAt("page") => syncing.next.from \in Nat /\ syncing.next.until \in Nat \cup {NoMark}
    BY SyncingShape DEF DeviceInv, DeviceTyped, Cursors
  <2>2. /\ \A j \in BookIds : /\ serverBook'[j].at <= commits'
                             /\ serverBook'[j].there => serverBook'[j].at > 0
        /\ \A j, k \in BookIds : serverBook'[j].there /\ serverBook'[k].there
             /\ serverBook'[j].at = serverBook'[k].at => j = k
    BY <1>2, <1>3, <1>5 DEF DeviceInv, ClockRight
  <2> QED BY <1>1, <1>2, <1>3, <1>4, <1>5, <2>1, <2>2 DEF DeviceInv, ClockRight, NoMark
<1>8. RowsRight'
  <2>1. \A W \in SUBSET Marks :
          WrittenBy(opsMade, commits, W) => WrittenBy(opsMade, commits + 1, W \cup {mark})
    BY <1>2 DEF WrittenBy, Marks
  <2>2. \A W \in SUBSET Marks :
          WrittenBy(opsMade, commits, W) => WrittenBy(opsMade, commits + 1, W)
    BY <1>2 DEF WrittenBy, Marks
  <2>3. /\ \A j \in BookIds : serverBook[j].writes \in SUBSET Marks /\ localBook[j].writes \in SUBSET Marks
        /\ SyncAt("page") => \A r \in syncing.records : r[2].writes \in SUBSET Marks
    BY SyncingShape DEF DeviceInv, Rows, Copies
  <2>4. /\ \A j \in BookIds : /\ WrittenBy(opsMade, commits + 1, serverBook'[j].writes)
                            /\ WrittenBy(opsMade, commits + 1, localBook[j].writes)
        /\ SyncAt("page") => \A r \in syncing.records : WrittenBy(opsMade, commits + 1, r[2].writes)
    BY <1>3, <2>1, <2>2, <2>3 DEF DeviceInv, RowsRight
  <2>6. ASSUME NEW j \in BookIds
        PROVE  /\ serverBook'[j].deleted => serverBook'[j].there /\ serverBook'[j].writes # {}
               /\ ~serverBook'[j].there => serverBook'[j].writes = {}
               /\ \A m \in serverBook'[j].writes : m[1] = "mine" => m[2] \in opsSeen
    BY <1>2, <1>3 DEF DeviceInv, RowsRight
  <2> QED BY <1>1, <1>3, <1>4, <2>4, <2>6 DEF RowsRight
<1>9. QueueRight'
  <2>1. ASSUME NEW op \in OnTheWay, op.kind = "insert", op.n \notin opsSeen
        PROVE  op.record # i
    <3>1. ~serverBook[op.record].there
      BY <2>1 DEF DeviceInv, QueueRight
    <3>2. CASE kind = "insert"
      BY <1>1, <2>1, <3>2
         DEF MayWrite, Fresh, DeviceInv, QueueRight, OnTheWay, InFlight, SyncAt
    <3>3. CASE kind # "insert"
      BY <1>1, <3>1, <3>3 DEF MayWrite, LiveCopy
    <3> QED BY <3>2, <3>3
  <2>2. \A op \in OnTheWay : op.record \in BookIds
    BY SyncingShape DEF OnTheWay, DeviceInv, DeviceTyped, Operations
  <2> QED BY <1>1, <1>3, <1>4, <2>1, <2>2 DEF DeviceInv, QueueRight, OnTheWay
<1>10. FlightRight'
  BY <1>1, <1>4 DEF DeviceInv, FlightRight
<1>11. PageRight'
  <2> SUFFICES ASSUME SyncAt("page") PROVE PageRight'
    BY <1>4 DEF PageRight
  <2>1. syncing.records \subseteq BookIds \X Copies /\ syncing.next.from \in Nat
        /\ syncing.next.from <= commits
    BY SyncingShape DEF DeviceInv, Cursors, ClockRight
  <2>2. ASSUME NEW r \in syncing.records
        PROVE  /\ serverBook'[r[1]].there
               /\ r[2] = Copy(serverBook'[r[1]])
                    \/ (serverBook'[r[1]].at > syncing.next.from
                          /\ ~ serverBook'[r[1]].writes \subseteq r[2].writes)
    <3>1. r[1] \in BookIds
      BY <2>1
    <3> QED BY <1>2, <1>3, <1>5, <2>1, <3>1 DEF DeviceInv, PageRight
  <2>3. ASSUME NEW j \in BookIds \ (astray \cup Came), serverBook'[j].there,
               serverBook'[j].at <= syncing.next.from
        PROVE  serverBook'[j].at <= pullAt.from
    BY <1>2, <1>3, <2>1, <2>3 DEF DeviceInv, PageRight
  <2> QED BY <1>1, <1>4, <2>2, <2>3 DEF DeviceInv, PageRight
<1>12. CopiesRight'
  <2> SUFFICES ASSUME NEW j \in BookIds \ astray PROVE CopyRight(j)'
    BY <1>1 DEF CopiesRight
  <2>1. CASE j = i
    BY <1>1, <1>2, <1>3, <1>5, <2>1 DEF CopyRight
  <2>2. CASE j # i
    BY <1>1, <1>3, <1>4, <2>2 DEF CopyRight, DeviceInv, CopiesRight
  <2> QED BY <2>1, <2>2
<1>13. LocalWritesShown'
  BY <1>1 DEF DeviceInv, LocalWritesShown
<1> QED BY <1>6, <1>7, <1>8, <1>9, <1>10, <1>11, <1>12, <1>13 DEF DeviceInv

(* A person writes: the copy has the write, and the operation waits.       *)
LEMMA LocalWriteKeeps ==
  ASSUME DeviceInv, NEW i \in BookIds, NEW kind \in Kinds, LocalWrite(i, kind)
  PROVE  DeviceInv'
<1> DEFINE made == opsMade + 1
           mark == <<"mine", made>>
           o == [n |-> made, record |-> i, kind |-> kind, conflict |-> FALSE]
<1>1. /\ MayWrite(localBook[i], i, kind)
      /\ localBook' = [localBook EXCEPT ![i] = WithWrite(localBook[i], kind, mark)]
      /\ opQueue' = opQueue \cup {o} /\ opsMade' = made
      /\ UNCHANGED <<serverBook, commits, opsSeen, pullAt, syncing, astray>>
  BY DEF LocalWrite, serverSide
<1>2. /\ made \in Nat /\ mark \in Marks /\ mark[1] = "mine" /\ mark[2] = made
      /\ made \notin opsSeen /\ \A n \in opsSeen : n < made
      /\ opsMade \in Nat /\ opsMade < made
  <2>1. opsMade \in Nat
    BY DEF DeviceInv, DeviceTyped
  <2>2. made \in Nat /\ opsMade < made
    BY <2>1
  <2>3. opsSeen \subseteq 1..opsMade
    BY DEF DeviceInv, ClockRight
  <2>4. \A n \in opsSeen : n < made
    BY <2>1, <2>3
  <2>5. made \notin opsSeen
    BY <2>2, <2>4
  <2>6. mark \in Marks /\ mark[1] = "mine" /\ mark[2] = made
    BY <2>2 DEF Marks
  <2> QED BY <2>1, <2>2, <2>4, <2>5, <2>6
<1>3. o \in Operations /\ o.n = made /\ o.record = i /\ o.kind = kind /\ ~o.conflict /\ Mine(o) = mark
  BY <1>2 DEF Operations, Mine
<1> HIDE DEF o, mark, made
<1>4. /\ localBook' \in [BookIds -> Copies]
      /\ \A j \in BookIds \ {i} : localBook'[j] = localBook[j]
      /\ localBook'[i].there
      /\ localBook'[i].deleted = (kind = "softDelete")
      /\ localBook'[i].writes = localBook[i].writes \cup {mark}
  <2>1. localBook[i] \in Copies /\ localBook \in [BookIds -> Copies]
    BY DEF DeviceInv, DeviceTyped
  <2> QED BY <1>1, <1>2, <2>1 DEF WithWrite, Copies
<1>5. /\ InFlight' = InFlight /\ Came' = Came
      /\ \A step : SyncAt(step)' = SyncAt(step)
      /\ \A op : Mine(op)' = Mine(op)
      /\ OnTheWay' = OnTheWay \cup {o}
      /\ Waiting(i)' = Waiting(i) \cup {o}
      /\ \A j \in BookIds \ {i} : Waiting(j)' = Waiting(j)
  BY <1>1, <1>2, <1>3 DEF InFlight, OnTheWay, SyncAt, Came, Waiting, Mine
<1>6. /\ \A j \in BookIds : mark \notin serverBook[j].writes
      /\ \A op \in opQueue : op.n \in Nat /\ op.n < made /\ op.record \in BookIds
  BY <1>2 DEF DeviceInv, RowsRight, QueueRight, DeviceTyped, Operations
<1>7. \A op \in opQueue : op.record = i => op.kind # "softDelete" /\ kind # "insert"
  <2> SUFFICES ASSUME NEW op \in opQueue, op.record = i
               PROVE  op.kind # "softDelete" /\ kind # "insert"
    OBVIOUS
  <2>1. localBook[i].there /\ (op.kind = "softDelete" => localBook[i].deleted)
    BY DEF DeviceInv, QueueRight, LocalWritesShown
  <2> QED BY <1>1, <2>1 DEF MayWrite, LiveCopy, Fresh
<1>8. kind = "insert" => /\ ~serverBook[i].there
                         /\ InFlight => syncing.op.record # i
  BY <1>1 DEF MayWrite, Fresh, InFlight
<1>9. DeviceTyped'
  BY <1>1, <1>2, <1>3, <1>4 DEF DeviceInv, DeviceTyped
<1>10. ClockRight'
  BY <1>1, <1>2, <1>5 DEF DeviceInv, ClockRight
<1>11. RowsRight'
  <2>1. \A W \in SUBSET Marks :
          WrittenBy(opsMade, commits, W) => WrittenBy(made, commits, W \cup {mark})
    BY <1>2 DEF WrittenBy, Marks
  <2>2. \A W \in SUBSET Marks :
          WrittenBy(opsMade, commits, W) => WrittenBy(made, commits, W)
    BY <1>2 DEF WrittenBy, Marks
  <2>3. /\ \A j \in BookIds : serverBook[j].writes \in SUBSET Marks /\ localBook[j].writes \in SUBSET Marks
        /\ SyncAt("page") => \A r \in syncing.records : r[2].writes \in SUBSET Marks
    BY SyncingShape DEF DeviceInv, Rows, Copies
  <2>4. /\ \A j \in BookIds : /\ WrittenBy(made, commits, serverBook[j].writes)
                            /\ WrittenBy(made, commits, localBook'[j].writes)
        /\ SyncAt("page") => \A r \in syncing.records : WrittenBy(made, commits, r[2].writes)
    BY <1>4, <2>1, <2>2, <2>3 DEF DeviceInv, RowsRight
  <2> QED BY <1>1, <1>5, <2>4 DEF DeviceInv, RowsRight
<1>12. QueueRight'
  <2>1. \A op \in OnTheWay \cup {o} :
          op.kind = "insert" /\ op.n \notin opsSeen => ~serverBook[op.record].there
    BY <1>3, <1>8 DEF DeviceInv, QueueRight
  <2>2. ASSUME NEW op \in opQueue'
        PROVE  /\ op.n \in 1..made
               /\ localBook'[op.record].there
               /\ op.n \in opsSeen => serverBook[op.record].there
    BY <1>1, <1>2, <1>3, <1>4, <1>6 DEF DeviceInv, QueueRight
  <2>3. ASSUME NEW op \in opQueue', NEW p \in opQueue'
        PROVE  /\ p.n = op.n => p = op
               /\ p.n < op.n /\ op.n \in opsSeen => p.n \in opsSeen
               /\ p.n < op.n /\ p.record = op.record => p.kind # "softDelete" /\ op.kind # "insert"
    <3>1. CASE op = o
      BY <1>1, <1>2, <1>3, <1>6, <1>7, <3>1
    <3>2. CASE op # o /\ p = o
      BY <1>1, <1>2, <1>3, <1>6, <3>2
    <3>3. CASE op # o /\ p # o
      BY <1>1, <3>3 DEF DeviceInv, QueueRight
    <3> QED BY <3>1, <3>2, <3>3
  <2> QED BY <1>1, <1>5, <2>1, <2>2, <2>3 DEF QueueRight
<1>13. FlightRight'
  <2> SUFFICES ASSUME InFlight PROVE FlightRight'
    BY <1>5 DEF FlightRight
  <2> DEFINE f == syncing.op
  <2>1. f.n \in 1..opsMade /\ f.n \in Nat /\ f.n # made /\ f.n < made
    BY <1>2 DEF DeviceInv, FlightRight
  <2>2. f \in opQueue \/ f.n \in opsSeen \/ \A j \in BookIds : Mine(f) \notin localBook'[j].writes
    <3>1. Mine(f) # mark
      BY <1>2, <2>1 DEF Mine
    <3> QED BY <1>4, <3>1 DEF DeviceInv, FlightRight
  <2>3. f.kind = "insert" => \A op \in opQueue' \ {f} : op.record = f.record => op.kind # "insert"
    BY <1>1, <1>3, <1>8 DEF DeviceInv, FlightRight
  <2>4. \A op \in opQueue' : f.n <= op.n /\ (op.n = f.n => op = f)
    <3>1. f.n <= o.n /\ o.n # f.n
      BY <1>2, <1>3, <2>1
    <3>2. \A op \in opQueue : f.n <= op.n /\ (op.n = f.n => op = f)
      BY DEF DeviceInv, FlightRight
    <3> HIDE DEF f
    <3> QED BY <1>1, <3>1, <3>2
  <2>5. 1..opsMade \subseteq 1..made
    BY <1>2
  <2> QED BY <1>1, <1>5, <2>1, <2>2, <2>3, <2>4, <2>5 DEF DeviceInv, FlightRight
<1>14. PageRight'
  BY <1>1, <1>5 DEF DeviceInv, PageRight
<1>15. CopiesRight'
  <2> SUFFICES ASSUME NEW j \in BookIds \ astray PROVE CopyRight(j)'
    BY <1>1 DEF CopiesRight
  <2>1. CASE j # i
    BY <1>1, <1>4, <1>5, <2>1 DEF CopyRight, DeviceInv, CopiesRight
  <2>2. CASE j = i
    <3>1. CopyRight(i)
      BY <2>2 DEF DeviceInv, CopiesRight
    <3>2. serverBook[i].writes \subseteq localBook'[i].writes
            => serverBook[i].writes \subseteq localBook[i].writes
      BY <1>4, <1>6
    <3>3. serverBook[i].writes \subseteq localBook[i].writes => ~serverBook[i].deleted
      <4>1. serverBook[i].deleted => serverBook[i].there
        BY DEF DeviceInv, RowsRight
      <4> QED BY <1>1, <1>8, <3>1, <4>1 DEF CopyRight, MayWrite, LiveCopy
    <3>4. ASSUME serverBook[i].writes \subseteq localBook'[i].writes
          PROVE  \A m \in localBook'[i].writes \ serverBook[i].writes :
                    \E op \in Waiting(i) \cup {o} : m = Mine(op)
      BY <1>3, <1>4, <3>1, <3>2, <3>4 DEF CopyRight
    <3>5. localBook'[i].deleted => o.kind = "softDelete"
      BY <1>3, <1>4
    <3>6. serverBook'[i].there /\ serverBook'[i].at <= pullAt'.from
            => localBook'[i].there /\ serverBook[i].writes \subseteq localBook'[i].writes
      BY <1>1, <1>4, <3>1 DEF CopyRight
    <3>7. o \in Waiting(i)'
      BY <1>5
    <3>8. CopyRight(i)'
      BY <1>1, <1>4, <1>5, <3>2, <3>3, <3>4, <3>5, <3>6, <3>7 DEF CopyRight
    <3> QED BY <2>2, <3>8
  <2> QED BY <2>1, <2>2
<1>16. LocalWritesShown'
  <2> SUFFICES ASSUME NEW op \in opQueue'
               PROVE  /\ Mine(op) \in localBook'[op.record].writes
                      /\ op.kind = "softDelete" => localBook'[op.record].deleted
    BY DEF LocalWritesShown, Mine
  <2>1. CASE op = o
    BY <1>3, <1>4, <2>1
  <2>2. CASE op # o
    BY <1>1, <1>4, <1>6, <1>7, <2>2 DEF DeviceInv, LocalWritesShown, Mine
  <2> QED BY <2>1, <2>2
<1> QED BY <1>9, <1>10, <1>11, <1>12, <1>13, <1>14, <1>15, <1>16 DEF DeviceInv

-----------------------------------------------------------------------------
(* The server applies the operation that was sent, and the device hears.   *)

(* It is recorded and writes nothing: it was recorded before, or its       *)
(* record is deleted.                                                      *)
LEMMA RecordOnlyKeeps ==
  ASSUME DeviceInv, NEW status \in {"done", "retry"}, ApplyOp(status),
         UNCHANGED <<serverBook, commits>>,
         \/ syncing.op.n \in opsSeen
         \/ serverBook[syncing.op.record].deleted
         \/ syncing.op.kind = "insert" /\ serverBook[syncing.op.record].there
  PROVE  DeviceInv'
<1> DEFINE f == syncing.op
<1>1. /\ SyncAt("sent") /\ InFlight /\ opsSeen' = opsSeen \cup {f.n}
      /\ UNCHANGED <<serverBook, commits, localBook, opQueue, opsMade, pullAt, astray>>
      /\ syncing' = [step |-> "answered", op |-> f, status |-> status]
  BY DEF ApplyOp, Answer, SyncAt, InFlight
<1>2. /\ f \in Operations /\ f.n \in Nat /\ f.record \in BookIds /\ f.n \in 1..opsMade
      /\ \A op \in opQueue : f.n <= op.n /\ (op.n = f.n => op = f)
  BY <1>1, SyncingShape DEF DeviceInv, FlightRight
<1>3. /\ InFlight' /\ ~SyncAt("page")' /\ syncing'.op = f /\ OnTheWay' = OnTheWay
      /\ f \in OnTheWay
  BY <1>1 DEF InFlight, SyncAt, OnTheWay
<1>4. serverBook[f.record].deleted => serverBook[f.record].there
  BY <1>2 DEF DeviceInv, RowsRight
<1>5. f.n \in opsSeen \/ serverBook[f.record].deleted
  BY <1>3 DEF DeviceInv, QueueRight
<1> HIDE DEF f
<1>6. DeviceTyped'
  BY <1>1, <1>2 DEF DeviceInv, DeviceTyped, Syncings
<1>7. ClockRight' /\ RowsRight'
  BY <1>1, <1>2, <1>3 DEF DeviceInv, ClockRight, RowsRight, WrittenBy
<1>8. QueueRight'
  <2>1. ASSUME NEW op \in opQueue
        PROVE  /\ op.n \in opsSeen' => serverBook[op.record].there
               /\ \A p \in opQueue : p.n < op.n /\ op.n \in opsSeen' => p.n \in opsSeen'
    <3>1. op.n \in Nat /\ \A p \in opQueue : p.n \in Nat
      BY DEF DeviceInv, DeviceTyped, Operations
    <3>2. op.n = f.n => op = f /\ \A p \in opQueue : ~(p.n < op.n)
      BY <1>2, <3>1
    <3>3. op.n = f.n => serverBook[op.record].there
      BY <1>4, <1>5, <3>2 DEF DeviceInv, QueueRight
    <3> QED BY <1>1, <3>2, <3>3 DEF DeviceInv, QueueRight
  <2> QED BY <1>1, <1>3, <2>1 DEF DeviceInv, QueueRight
<1>9. FlightRight'
  <2>1. /\ syncing'.status = status /\ SyncAt("answered")' /\ f.n \in opsSeen'
        /\ ~f.conflict
        /\ f.kind = "insert" => \A op \in opQueue \ {f} : op.record = f.record => op.kind # "insert"
    BY <1>1 DEF DeviceInv, FlightRight, SyncAt, f
  <2> QED BY <1>1, <1>2, <1>3, <2>1 DEF FlightRight
<1>10. PageRight' /\ LocalWritesShown'
  BY <1>1, <1>3 DEF DeviceInv, PageRight, LocalWritesShown
<1>11. CopiesRight'
  <2> SUFFICES ASSUME NEW j \in BookIds \ astray PROVE CopyRight(j)'
    BY <1>1 DEF CopiesRight
  <2>1. CopyRight(j)
    BY DEF DeviceInv, CopiesRight
  <2>2. Waiting(j)' = {op \in Waiting(j) : op.n # f.n}
    BY <1>1 DEF Waiting
  <2>3. CASE f.n \in opsSeen \/ j # f.record
    <3>1. Waiting(j)' = Waiting(j)
      BY <1>2, <2>2, <2>3 DEF Waiting
    <3> QED BY <1>1, <2>1, <3>1 DEF CopyRight, Mine
  <2>4. CASE f.n \notin opsSeen /\ j = f.record
    <3>1. serverBook[j].deleted /\ serverBook[j].there
      BY <1>4, <1>5, <2>4
    <3>2. Waiting(j)' \subseteq Waiting(j)
      BY <2>2
    <3> QED BY <1>1, <2>1, <3>1, <3>2 DEF CopyRight, Mine
  <2> QED BY <2>3, <2>4
<1> QED BY <1>6, <1>7, <1>8, <1>9, <1>10, <1>11 DEF DeviceInv

(* It commits: the row has the write that the copy has had all along.      *)
LEMMA ApplyCommitKeeps ==
  ASSUME DeviceInv, NEW status \in {"done", "retry"}, ApplyOp(status),
         syncing.op.n \notin opsSeen, ~serverBook[syncing.op.record].deleted,
         ~(syncing.op.kind = "insert" /\ serverBook[syncing.op.record].there),
         CommitRow(syncing.op.record, syncing.op.kind, Mine(syncing.op))
  PROVE  DeviceInv'
<1> DEFINE f == syncing.op
           i == f.record
           mark == Mine(f)
<1>1. /\ SyncAt("sent") /\ InFlight /\ opsSeen' = opsSeen \cup {f.n}
      /\ UNCHANGED <<localBook, opQueue, opsMade, pullAt, astray>>
      /\ syncing' = [step |-> "answered", op |-> f, status |-> status]
      /\ serverBook[i].there \/ f.kind = "insert"
      /\ f.n \notin opsSeen /\ ~serverBook[i].deleted
      /\ CommitRow(i, f.kind, mark)
  BY DEF ApplyOp, Answer, SyncAt, InFlight
<1>2. /\ f \in Operations /\ f.n \in Nat /\ i \in BookIds /\ f.n \in 1..opsMade
      /\ f.kind \in Kinds /\ ~f.conflict
      /\ \A op \in opQueue : f.n <= op.n /\ (op.n = f.n => op = f)
      /\ f \in opQueue \/ \A j \in BookIds : mark \notin localBook[j].writes
      /\ f.kind = "insert" => \A op \in opQueue \ {f} : op.record = f.record => op.kind # "insert"
  BY <1>1, SyncingShape DEF DeviceInv, FlightRight, Operations
<1>3. /\ InFlight' /\ ~SyncAt("page")' /\ syncing'.op = f /\ OnTheWay' = OnTheWay
      /\ OnTheWay = opQueue \cup {f}
      /\ \A op : Mine(op)' = Mine(op)
  BY <1>1 DEF InFlight, SyncAt, OnTheWay, Mine
<1>4. mark \in Marks /\ mark[1] = "mine" /\ mark[2] = f.n
  BY <1>2 DEF Mine, Marks
<1>5. commits \in Nat /\ pullAt.from \in Nat /\ pullAt.from <= commits
      /\ \A op \in opQueue : op.n \in Nat /\ op.record \in BookIds
  BY SyncingShape DEF DeviceInv, DeviceTyped, ClockRight, Operations
<1> HIDE DEF f, i
<1>6. /\ commits' = commits + 1 /\ commits' \in Nat
      /\ serverBook' \in [BookIds -> Rows]
      /\ \A j \in BookIds \ {i} : serverBook'[j] = serverBook[j]
      /\ serverBook'[i].there
      /\ serverBook'[i].deleted = (f.kind = "softDelete")
      /\ serverBook'[i].writes = serverBook[i].writes \cup {mark}
      /\ serverBook'[i].at = commits + 1
  <2> HIDE DEF mark
  <2> QED BY <1>1, <1>2, <1>4, CommitRowDoes DEF DeviceInv
<1>7. \A op \in opQueue : Mine(op) = mark => op = f
  BY <1>2, <1>5 DEF Mine
<1> HIDE DEF mark
<1>8. DeviceTyped'
  BY <1>1, <1>2, <1>6 DEF DeviceInv, DeviceTyped, Syncings
<1>9. ClockRight'
  <2>1. /\ \A j \in BookIds : serverBook[j].at \in Nat /\ serverBook[j].at <= commits
        /\ pullAt.until \in Nat \cup {NoMark}
    BY SyncingShape DEF DeviceInv, DeviceTyped, Rows, ClockRight, Cursors
  <2>2. ASSUME NEW j \in BookIds
        PROVE  serverBook'[j].at <= commits' /\ (serverBook'[j].there => serverBook'[j].at > 0)
    BY <1>5, <1>6, <2>1 DEF DeviceInv, ClockRight
  <2>5. ASSUME NEW j \in BookIds, NEW k \in BookIds, serverBook'[j].there, serverBook'[k].there,
               serverBook'[j].at = serverBook'[k].at
        PROVE  j = k
    BY <1>5, <1>6, <2>1, <2>5 DEF DeviceInv, ClockRight
  <2>3. pullAt'.from <= commits' /\ pullAt'.until <= commits'
    BY <1>1, <1>5, <1>6, <2>1 DEF DeviceInv, ClockRight, NoMark
  <2>4. opsSeen' \subseteq 1..opsMade'
    BY <1>1, <1>2 DEF DeviceInv, ClockRight
  <2> QED BY <1>3, <2>2, <2>3, <2>4, <2>5 DEF ClockRight
<1>10. RowsRight'
  <2>1. opsMade \in Nat
    BY DEF DeviceInv, DeviceTyped
  <2>2. \A W \in SUBSET Marks : WrittenBy(opsMade, commits, W) =>
          WrittenBy(opsMade, commits + 1, W) /\ WrittenBy(opsMade, commits + 1, W \cup {mark})
    BY <1>2, <1>4, <1>5, <2>1 DEF WrittenBy, Marks
  <2>3. \A j \in BookIds : serverBook[j].writes \in SUBSET Marks /\ localBook[j].writes \in SUBSET Marks
    BY SyncingShape DEF DeviceInv, Rows, Copies
  <2>4. \A j \in BookIds : /\ WrittenBy(opsMade, commits + 1, serverBook'[j].writes)
                          /\ WrittenBy(opsMade, commits + 1, localBook[j].writes)
    BY <1>6, <2>2, <2>3 DEF DeviceInv, RowsRight
  <2>6. ASSUME NEW j \in BookIds
        PROVE  /\ serverBook'[j].deleted => serverBook'[j].there /\ serverBook'[j].writes # {}
               /\ ~serverBook'[j].there => serverBook'[j].writes = {}
               /\ \A m \in serverBook'[j].writes : m[1] = "mine" => m[2] \in opsSeen'
    BY <1>1, <1>4, <1>6 DEF DeviceInv, RowsRight
  <2> QED BY <1>1, <1>3, <1>6, <2>4, <2>6 DEF RowsRight
<1>11. QueueRight'
  <2>1. ASSUME NEW op \in OnTheWay, op.kind = "insert", op.n \notin opsSeen'
        PROVE  ~serverBook'[op.record].there
    <3>1. op \in opQueue /\ op # f /\ op.n \notin opsSeen
      BY <1>1, <1>3, <2>1
    <3>2. ~serverBook[op.record].there
      BY <2>1, <3>1 DEF DeviceInv, QueueRight
    <3>3. op.record # i
      BY <1>1, <1>2, <2>1, <3>1, <3>2 DEF i
    <3> QED BY <1>5, <1>6, <3>1, <3>2, <3>3
  <2>2. ASSUME NEW op \in opQueue
        PROVE  /\ op.n \in opsSeen' => serverBook'[op.record].there
               /\ \A p \in opQueue : p.n < op.n /\ op.n \in opsSeen' => p.n \in opsSeen'
    <3>1. op.n = f.n => op = f /\ \A p \in opQueue : ~(p.n < op.n)
      BY <1>2, <1>5
    <3>2. op.n \in opsSeen' => serverBook'[op.record].there
      BY <1>1, <1>5, <1>6, <3>1 DEF DeviceInv, QueueRight, i
    <3> QED BY <1>1, <3>1, <3>2 DEF DeviceInv, QueueRight
  <2> QED BY <1>1, <1>3, <2>1, <2>2 DEF DeviceInv, QueueRight
<1>12. FlightRight'
  <2>1. f.n \in opsSeen'
    BY <1>1
  <2> QED BY <1>1, <1>2, <1>3, <2>1 DEF FlightRight
<1>13. PageRight' /\ LocalWritesShown'
  BY <1>1, <1>3 DEF DeviceInv, PageRight, LocalWritesShown
<1>14. CopiesRight'
  <2> SUFFICES ASSUME NEW j \in BookIds \ astray PROVE CopyRight(j)'
    BY <1>1 DEF CopiesRight
  <2>1. CopyRight(j)
    BY DEF DeviceInv, CopiesRight
  <2>2. Waiting(j)' = {op \in Waiting(j) : op.n # f.n}
    BY <1>1 DEF Waiting
  <2>3. CASE j # i
    <3>1. Waiting(j)' = Waiting(j)
      BY <1>2, <2>2, <2>3 DEF Waiting, i
    <3> QED BY <1>1, <1>3, <1>6, <2>1, <2>3, <3>1 DEF CopyRight
  <2>4. CASE j = i
    <3>1. /\ serverBook'[j].there /\ serverBook'[j].deleted = (f.kind = "softDelete")
          /\ serverBook'[j].writes = serverBook[j].writes \cup {mark}
          /\ serverBook'[j].at = commits + 1
          /\ ~serverBook[j].deleted
      BY <1>1, <1>6, <2>4
    <3>2. ~(serverBook'[j].at <= pullAt'.from)
      BY <1>1, <1>5, <3>1
    <3>3. ASSUME serverBook'[j].writes \subseteq localBook'[j].writes
          PROVE  /\ \A m \in localBook'[j].writes \ serverBook'[j].writes :
                      \E op \in Waiting(j)' : m = Mine(op)
                 /\ serverBook'[j].deleted => localBook'[j].deleted /\ Waiting(j)' = {}
                 /\ localBook'[j].deleted /\ ~serverBook'[j].deleted
                      => \E op \in Waiting(j)' : op.kind = "softDelete"
      <4>1. serverBook[j].writes \subseteq localBook[j].writes /\ mark \in localBook[j].writes
            /\ localBook'[j] = localBook[j]
        BY <1>1, <3>1, <3>3
      <4>2. f \in opQueue
        BY <1>2, <4>1
      <4>3. /\ \A m \in localBook[j].writes \ serverBook[j].writes :
                 \E op \in Waiting(j) : m = Mine(op)
            /\ localBook[j].deleted => \E op \in Waiting(j) : op.kind = "softDelete"
        BY <2>1, <3>1, <4>1 DEF CopyRight
      <4>4. ASSUME NEW m \in localBook[j].writes \ serverBook'[j].writes
            PROVE  \E op \in Waiting(j)' : m = Mine(op)
        <5>1. m \in localBook[j].writes \ serverBook[j].writes /\ m # mark
          BY <3>1
        <5>2. PICK op \in Waiting(j) : m = Mine(op)
          BY <4>3, <5>1
        <5>3. op.n # f.n
          BY <1>4, <5>1, <5>2, <4>2, <1>2 DEF Mine, Waiting, mark
        <5> QED BY <2>2, <5>2, <5>3
      <4>5. f.kind = "softDelete" => localBook[j].deleted /\ Waiting(j)' = {}
        <5> SUFFICES ASSUME f.kind = "softDelete" PROVE localBook[j].deleted /\ Waiting(j)' = {}
          OBVIOUS
        <5>1. localBook[j].deleted
          BY <2>4, <4>2 DEF DeviceInv, LocalWritesShown, i
        <5>2. ASSUME NEW op \in Waiting(j), op.n # f.n PROVE FALSE
          <6>1. op \in opQueue /\ op.record = f.record /\ f.n < op.n
            BY <1>2, <1>5, <2>4, <5>2 DEF Waiting, i
          <6> QED BY <4>2, <6>1 DEF DeviceInv, QueueRight
        <5> QED BY <2>2, <5>1, <5>2
      <4>6. ASSUME localBook[j].deleted, f.kind # "softDelete"
            PROVE  \E op \in Waiting(j)' : op.kind = "softDelete"
        <5>1. PICK op \in Waiting(j) : op.kind = "softDelete"
          BY <4>3, <4>6
        <5>2. op.n # f.n
          BY <1>2, <4>6, <5>1 DEF Waiting
        <5> QED BY <2>2, <5>1, <5>2
      <4> QED BY <3>1, <4>1, <4>4, <4>5, <4>6
    <3>4. CopyRight(j)'
      BY <1>3, <3>1, <3>2, <3>3 DEF CopyRight
    <3> QED BY <3>4
  <2> QED BY <2>3, <2>4
<1> QED BY <1>8, <1>9, <1>10, <1>11, <1>12, <1>13, <1>14 DEF DeviceInv

LEMMA ApplyOpKeeps ==
  ASSUME DeviceInv, NEW status \in {"done", "retry"}, ApplyOp(status)
  PROVE  DeviceInv'
<1> DEFINE f == syncing.op
<1>1. CASE f.n \in opsSeen \/ serverBook[f.record].deleted
             \/ (f.kind = "insert" /\ serverBook[f.record].there)
  <2>1. UNCHANGED <<serverBook, commits>>
    BY <1>1 DEF ApplyOp
  <2> QED BY <1>1, <2>1, RecordOnlyKeeps
<1>2. CASE ~(f.n \in opsSeen \/ serverBook[f.record].deleted
               \/ (f.kind = "insert" /\ serverBook[f.record].there))
  <2>1. CommitRow(f.record, f.kind, Mine(f))
    BY <1>2 DEF ApplyOp, Mine
  <2> QED BY <1>2, <2>1, ApplyCommitKeeps
<1> QED BY <1>1, <1>2

-----------------------------------------------------------------------------
(* The device takes an answer, reads, merges.                              *)

(* What was done leaves the queue; what was refused stays, marked.         *)
LEMMA TakeAnswerKeeps ==
  ASSUME DeviceInv, TakeAnswer
  PROVE  DeviceInv'
<1> DEFINE f == syncing.op
           marked(op) == [op EXCEPT !.conflict = @ \/ op.n = f.n]
<1>1. /\ SyncAt("answered") /\ InFlight
      /\ UNCHANGED <<serverBook, commits, opsSeen, localBook, opsMade, pullAt, astray>>
      /\ syncing' \in [step : {"idle", "push", "pull"}]
      /\ ~InFlight' /\ ~SyncAt("page")' /\ ~SyncAt("answered")'
  BY DEF TakeAnswer, SyncAt, SyncTo, serverSide, InFlight
<1>2. /\ f \in Operations
      /\ syncing.status = "done" => f.n \in opsSeen
  BY <1>1, SyncingShape DEF DeviceInv, FlightRight
<1>3. \/ opQueue' = opQueue
      \/ opQueue' \subseteq opQueue /\ \A op \in opQueue \ opQueue' : op.n \in opsSeen
      \/ opQueue' = {marked(op) : op \in opQueue}
  BY <1>1, <1>2 DEF TakeAnswer
<1>4. CASE opQueue' = opQueue
  BY <1>1, <1>4, SyncMoves DEF serverSide
<1>5. CASE opQueue' \subseteq opQueue /\ \A op \in opQueue \ opQueue' : op.n \in opsSeen
  <2>1. DeviceTyped'
    BY <1>1, <1>5 DEF DeviceInv, DeviceTyped, Syncings
  <2>2. ClockRight' /\ RowsRight'
    BY <1>1 DEF DeviceInv, ClockRight, RowsRight, WrittenBy
  <2>3. OnTheWay' \subseteq OnTheWay
    BY <1>1, <1>5 DEF OnTheWay
  <2>4. QueueRight' /\ FlightRight' /\ PageRight' /\ LocalWritesShown'
    BY <1>1, <1>5, <2>3 DEF DeviceInv, QueueRight, FlightRight, PageRight, LocalWritesShown
  <2>5. \A j \in BookIds : Waiting(j)' = Waiting(j)
    BY <1>1, <1>5 DEF Waiting
  <2>6. CopiesRight'
    BY <1>1, <2>5 DEF DeviceInv, CopiesRight, CopyRight, Mine
  <2> QED BY <2>1, <2>2, <2>4, <2>6 DEF DeviceInv
<1>6. CASE opQueue' = {marked(op) : op \in opQueue}
  <2>1. \A op \in opQueue : /\ marked(op) \in Operations /\ marked(op).n = op.n
                            /\ marked(op).record = op.record /\ marked(op).kind = op.kind
    BY DEF DeviceInv, DeviceTyped, Operations
  <2> HIDE DEF marked, f
  <2>2. DeviceTyped'
    BY <1>1, <1>6, <2>1 DEF DeviceInv, DeviceTyped, Syncings
  <2>3. ClockRight' /\ RowsRight'
    BY <1>1 DEF DeviceInv, ClockRight, RowsRight, WrittenBy
  <2>4. OnTheWay' = {marked(op) : op \in opQueue} /\ opQueue \subseteq OnTheWay
    BY <1>1, <1>6 DEF OnTheWay
  <2>5. QueueRight'
    <3>1. ASSUME NEW op \in opQueue
          PROVE  /\ marked(op).n \in 1..opsMade
                 /\ localBook[marked(op).record].there
                 /\ marked(op).n \in opsSeen => serverBook[marked(op).record].there
                 /\ marked(op).kind = "insert" /\ marked(op).n \notin opsSeen
                      => ~serverBook[marked(op).record].there
      BY <2>1, <2>4 DEF DeviceInv, QueueRight
    <3>2. ASSUME NEW op \in opQueue, NEW p \in opQueue
          PROVE  /\ marked(p).n = marked(op).n => marked(p) = marked(op)
                 /\ marked(p).n < marked(op).n /\ marked(op).n \in opsSeen => marked(p).n \in opsSeen
                 /\ marked(p).n < marked(op).n /\ marked(p).record = marked(op).record
                      => marked(p).kind # "softDelete" /\ marked(op).kind # "insert"
      BY <2>1 DEF DeviceInv, QueueRight
    <3> QED BY <1>1, <1>6, <2>4, <3>1, <3>2 DEF QueueRight
  <2>6. FlightRight' /\ PageRight'
    BY <1>1 DEF FlightRight, PageRight
  <2>7. LocalWritesShown'
    <3>1. ASSUME NEW op \in opQueue
          PROVE  /\ <<"mine", marked(op).n>> \in localBook[marked(op).record].writes
                 /\ marked(op).kind = "softDelete" => localBook[marked(op).record].deleted
      BY <2>1 DEF DeviceInv, LocalWritesShown
    <3> QED BY <1>1, <1>6, <3>1 DEF LocalWritesShown
  <2>8. ASSUME NEW j \in BookIds
        PROVE  Waiting(j)' = {marked(op) : op \in Waiting(j)}
    BY <1>1, <1>6, <2>1 DEF Waiting
  <2>9. \A j \in BookIds : \A op \in Waiting(j) :
          Mine(marked(op)) = Mine(op) /\ marked(op).kind = op.kind
    BY <2>1 DEF Waiting, Mine
  <2>10. CopiesRight'
    <3> SUFFICES ASSUME NEW j \in BookIds \ astray PROVE CopyRight(j)'
      BY <1>1 DEF CopiesRight
    <3>1. CopyRight(j)
      BY DEF DeviceInv, CopiesRight
    <3>2. /\ Waiting(j) = {} <=> Waiting(j)' = {}
          /\ \A m : (\E op \in Waiting(j) : m = Mine(op)) => \E op \in Waiting(j)' : m = Mine(op)
          /\ (\E op \in Waiting(j) : op.kind = "softDelete")
               => \E op \in Waiting(j)' : op.kind = "softDelete"
      BY <2>8, <2>9
    <3>3. \A op : Mine(op)' = Mine(op)
      BY DEF Mine
    <3> QED BY <1>1, <3>1, <3>2, <3>3 DEF CopyRight
  <2> QED BY <2>2, <2>3, <2>5, <2>6, <2>7, <2>10 DEF DeviceInv
<1> QED BY <1>3, <1>4, <1>5, <1>6

(* A page holds the earliest row that was not read.                        *)
LEMMA ReadPageKeeps ==
  ASSUME DeviceInv, NEW from \in 0..pullAt.from, ReadPage(from)
  PROVE  DeviceInv'
<1> DEFINE until == IF pullAt.until = NoMark THEN commits ELSE pullAt.until
           left == {i \in BookIds : serverBook[i].there /\ serverBook[i].at \in (from + 1)..until}
<1>1. /\ UNCHANGED <<serverBook, commits, opsSeen, localBook, opQueue, opsMade, pullAt, astray>>
      /\ SyncAt("pull") /\ ~InFlight
      /\ \/ left = {} /\ syncing' = [step |-> "page", records |-> {},
                                     next |-> [from |-> until, until |-> NoMark]]
         \/ \E i \in left :
              /\ \A j \in left : serverBook[i].at <= serverBook[j].at
              /\ syncing' = [step |-> "page", records |-> {<<i, Copy(serverBook[i])>>},
                             next |-> [from |-> serverBook[i].at, until |-> until]]
  BY DEF ReadPage, serverSide, SyncAt, InFlight
<1>2. /\ pullAt.from \in Nat /\ from \in Nat /\ from <= pullAt.from
      /\ until \in Nat /\ until <= commits /\ NoMark <= commits
      /\ \A j \in BookIds : serverBook[j].at \in Nat /\ serverBook[j].at <= commits
      /\ \A j \in BookIds : serverBook[j] \in Rows
  BY SyncingShape DEF DeviceInv, DeviceTyped, Cursors, ClockRight, NoMark, Rows
<1> HIDE DEF until
<1>3. /\ SyncAt("page")' /\ ~InFlight'
      /\ syncing'.next \in Cursors /\ syncing'.next.from <= commits /\ syncing'.next.until <= commits
      /\ syncing'.records \subseteq BookIds \X Copies
      /\ syncing' \in Syncings
      /\ \A r \in syncing'.records : /\ r[1] \in BookIds /\ serverBook[r[1]].there
                                     /\ r[2] = Copy(serverBook[r[1]])
      /\ \A r, q \in syncing'.records : r = q
  <2>1. CASE left = {} /\ syncing' = [step |-> "page", records |-> {},
                                      next |-> [from |-> until, until |-> NoMark]]
    BY <1>2, <2>1 DEF SyncAt, InFlight, Cursors, Syncings
  <2>2. ASSUME NEW i \in left,
               syncing' = [step |-> "page", records |-> {<<i, Copy(serverBook[i])>>},
                           next |-> [from |-> serverBook[i].at, until |-> until]]
        PROVE  /\ SyncAt("page")' /\ ~InFlight'
               /\ syncing'.next \in Cursors
               /\ syncing'.next.from <= commits /\ syncing'.next.until <= commits
               /\ syncing'.records \subseteq BookIds \X Copies
               /\ syncing' \in Syncings
               /\ \A r \in syncing'.records : /\ r[1] \in BookIds /\ serverBook[r[1]].there
                                              /\ r[2] = Copy(serverBook[r[1]])
               /\ \A r, q \in syncing'.records : r = q
    <3>1. i \in BookIds /\ serverBook[i].there /\ Copy(serverBook[i]) \in Copies
      BY <1>2 DEF Copy, Copies, Rows
    <3>2. <<i, Copy(serverBook[i])>> \in BookIds \X Copies
      BY <3>1
    <3> HIDE DEF left
    <3>3. [from |-> serverBook[i].at, until |-> until] \in Cursors
      BY <1>2, <3>1 DEF Cursors
    <3>4. syncing' \in Syncings
      BY <2>2, <3>2, <3>3 DEF Syncings
    <3> QED BY <1>2, <2>2, <3>1, <3>2, <3>3, <3>4 DEF SyncAt, InFlight
  <2> QED BY <1>1, <2>1, <2>2
<1>4. ASSUME NEW j \in BookIds, j \notin Came', serverBook[j].there,
             serverBook[j].at <= syncing'.next.from
      PROVE  serverBook[j].at <= pullAt.from
  <2>1. CASE left = {} /\ syncing' = [step |-> "page", records |-> {},
                                      next |-> [from |-> until, until |-> NoMark]]
    <3>1. ~(serverBook[j].at \in (from + 1)..until) /\ serverBook[j].at <= until
      BY <1>4, <2>1
    <3> QED BY <1>2, <3>1
  <2>2. ASSUME NEW i \in left, \A k \in left : serverBook[i].at <= serverBook[k].at,
               syncing' = [step |-> "page", records |-> {<<i, Copy(serverBook[i])>>},
                           next |-> [from |-> serverBook[i].at, until |-> until]]
        PROVE  serverBook[j].at <= pullAt.from
    <3>1. serverBook[j].at <= serverBook[i].at /\ j # i
      BY <1>4, <2>2 DEF Came
    <3>2. serverBook[j].at # serverBook[i].at
      BY <1>4, <3>1 DEF DeviceInv, ClockRight
    <3>3. j \notin left
      BY <1>2, <2>2, <3>1, <3>2
    <3>4. serverBook[i].at \in (from + 1)..until
      OBVIOUS
    <3>5. ~(serverBook[j].at \in (from + 1)..until)
      BY <1>4, <3>3
    <3> QED BY <1>2, <3>1, <3>4, <3>5
  <2> QED BY <1>1, <2>1, <2>2
<1> HIDE DEF left
<1>5. DeviceTyped'
  BY <1>1, <1>3 DEF DeviceInv, DeviceTyped
<1>6. ClockRight'
  BY <1>1, <1>3 DEF DeviceInv, ClockRight
<1>7. RowsRight'
  <2>1. ASSUME NEW r \in syncing'.records PROVE WrittenBy(opsMade, commits, r[2].writes)
    <3>1. r[1] \in BookIds /\ r[2] = Copy(serverBook[r[1]])
      BY <1>3
    <3>2. r[2].writes = serverBook[r[1]].writes
      BY <3>1 DEF Copy
    <3> QED BY <3>1, <3>2 DEF DeviceInv, RowsRight
  <2> QED BY <1>1, <2>1 DEF DeviceInv, RowsRight
<1>8. OnTheWay' = OnTheWay
  BY <1>1, <1>3 DEF OnTheWay
<1>9. QueueRight' /\ FlightRight'
  BY <1>1, <1>3, <1>8 DEF DeviceInv, QueueRight, FlightRight
<1>10. PageRight'
  <2>1. \A j : (j \in BookIds \ (astray \cup Came))' => j \in BookIds /\ j \notin Came'
    BY <1>1
  <2> QED BY <1>1, <1>3, <1>4, <2>1 DEF PageRight
<1>11. CopiesRight' /\ LocalWritesShown'
  BY <1>1 DEF DeviceInv, CopiesRight, CopyRight, Waiting, LocalWritesShown, Mine
<1> QED BY <1>5, <1>6, <1>7, <1>9, <1>10, <1>11 DEF DeviceInv

(* Merged records are the rows, or will be read again; a record that was   *)
(* passed over for an operation that waits lacks nothing, or goes astray.  *)
LEMMA MergeKeeps ==
  ASSUME DeviceInv, Merge
  PROVE  DeviceInv'
<1> DEFINE record(i) == (CHOOSE r \in syncing.records : r[1] = i)[2]
           kept == {i \in Came : Pending(i)}
<1>1. /\ SyncAt("page") /\ ~InFlight
      /\ localBook' = [i \in BookIds |-> IF i \in Came \ kept THEN record(i) ELSE localBook[i]]
      /\ astray' = (astray \ (Came \ kept))
                      \cup {i \in kept : ~ record(i).writes \subseteq localBook[i].writes}
      /\ pullAt' = syncing.next
      /\ syncing' \in [step : {"idle", "pull"}]
      /\ UNCHANGED <<serverBook, commits, opsSeen, opQueue, opsMade>>
  BY DEF Merge, Came, SyncAt, SyncTo, InFlight, serverSide
<1>2. /\ syncing.records \subseteq BookIds \X Copies /\ syncing.next \in Cursors
      /\ Came \subseteq BookIds
      /\ pullAt.from \in Nat /\ syncing.next.from \in Nat
      /\ \A j \in BookIds : serverBook[j] \in Rows /\ localBook[j] \in Copies
  BY <1>1, SyncingShape DEF DeviceInv, Cursors
<1>3. ASSUME NEW j \in Came
      PROVE  /\ record(j) \in Copies /\ serverBook[j].there
             /\ WrittenBy(opsMade, commits, record(j).writes)
             /\ record(j) = Copy(serverBook[j])
                  \/ (serverBook[j].at > syncing.next.from
                        /\ ~ serverBook[j].writes \subseteq record(j).writes)
  <2>1. PICK r \in syncing.records : r[1] = j
    BY DEF Came
  <2>2. \A q \in syncing.records : q[1] = j => q = r
    BY <1>1, <2>1 DEF DeviceInv, PageRight
  <2>3. record(j) = r[2]
    BY <2>1, <2>2
  <2> HIDE DEF record
  <2> QED BY <1>1, <1>2, <2>1, <2>3 DEF DeviceInv, PageRight, RowsRight
<1> HIDE DEF record
<1>4. ~InFlight' /\ ~SyncAt("page")' /\ ~SyncAt("answered")' /\ OnTheWay' = OnTheWay
  BY <1>1 DEF InFlight, SyncAt, OnTheWay
<1>5. \A op \in opQueue : op.record \in BookIds /\ op.record \notin Came \ kept
  BY DEF Pending, DeviceInv, DeviceTyped, Operations
<1>6. \A op \in opQueue : localBook'[op.record] = localBook[op.record]
  BY <1>1, <1>5
<1>7. \A j \in BookIds : Waiting(j)' = Waiting(j) /\ (j \in Came \ kept => Waiting(j) = {})
  BY <1>1 DEF Waiting, Pending
<1>8. DeviceTyped'
  <2>1. localBook' \in [BookIds -> Copies]
    BY <1>1, <1>2, <1>3
  <2>2. astray' \subseteq BookIds
    BY <1>1, <1>2 DEF DeviceInv, DeviceTyped
  <2> QED BY <1>1, <1>2, <2>1, <2>2 DEF DeviceInv, DeviceTyped, Syncings
<1>9. ClockRight'
  BY <1>1, <1>4 DEF DeviceInv, ClockRight
<1>10. RowsRight'
  <2>1. \A j \in BookIds : WrittenBy(opsMade, commits, localBook'[j].writes)
    BY <1>1, <1>3 DEF DeviceInv, RowsRight
  <2> QED BY <1>1, <1>4, <2>1 DEF DeviceInv, RowsRight
<1>11. QueueRight' /\ FlightRight' /\ PageRight' /\ LocalWritesShown'
  BY <1>1, <1>4, <1>6 DEF DeviceInv, QueueRight, FlightRight, PageRight, LocalWritesShown
<1>12. CopiesRight'
  <2> SUFFICES ASSUME NEW j \in BookIds, j \notin astray' PROVE CopyRight(j)'
    BY DEF CopiesRight
  <2>1. \A op : Mine(op)' = Mine(op)
    BY DEF Mine
  <2>2. CASE j \in Came \ kept
    <3>1. localBook'[j] = record(j) /\ Waiting(j)' = {}
      BY <1>1, <1>7, <2>2
    <3>2. CASE record(j) = Copy(serverBook[j])
      <4>1. /\ localBook'[j].there /\ localBook'[j].writes = serverBook[j].writes
            /\ localBook'[j].deleted = serverBook[j].deleted
        BY <1>3, <2>2, <3>1, <3>2 DEF Copy
      <4> QED BY <1>1, <1>3, <2>2, <3>1, <4>1 DEF CopyRight
    <3>3. CASE /\ serverBook[j].at > syncing.next.from
               /\ ~ serverBook[j].writes \subseteq record(j).writes
      <4>1. serverBook[j].at \in Nat
        BY <1>2 DEF Rows
      <4> QED BY <1>1, <1>2, <1>3, <2>2, <3>1, <3>3, <4>1 DEF CopyRight
    <3> QED BY <1>3, <2>2, <3>2, <3>3
  <2>3. CASE j \in kept
    <3>1. /\ j \notin astray /\ record(j).writes \subseteq localBook[j].writes
          /\ localBook'[j] = localBook[j] /\ localBook[j].there
      BY <1>1, <2>3 DEF Pending, DeviceInv, QueueRight
    <3>2. serverBook[j].at <= syncing.next.from => serverBook[j].writes \subseteq localBook[j].writes
      <4>1. serverBook[j].at \in Nat
        BY <1>2 DEF Rows
      <4> QED BY <1>2, <1>3, <2>3, <3>1, <4>1 DEF Copy
    <3>3. CopyRight(j)
      BY <3>1 DEF DeviceInv, CopiesRight
    <3> QED BY <1>1, <1>7, <2>1, <3>1, <3>2, <3>3 DEF CopyRight
  <2>4. CASE j \notin Came
    <3>1. j \notin astray /\ localBook'[j] = localBook[j]
      BY <1>1, <2>4
    <3>2. serverBook[j].there /\ serverBook[j].at <= syncing.next.from
            => serverBook[j].at <= pullAt.from
      BY <1>1, <2>4, <3>1 DEF DeviceInv, PageRight
    <3>3. CopyRight(j)
      BY <3>1 DEF DeviceInv, CopiesRight
    <3> QED BY <1>1, <1>7, <2>1, <3>1, <3>2, <3>3 DEF CopyRight
  <2> QED BY <2>2, <2>3, <2>4
<1> QED BY <1>8, <1>9, <1>10, <1>11, <1>12 DEF DeviceInv

-----------------------------------------------------------------------------
(* The two buttons.                                                        *)

LEMMA DropStuckKeeps ==
  ASSUME DeviceInv, dropStuckOps
  PROVE  DeviceInv'
<1>1. /\ opQueue' = {op \in opQueue : ~op.conflict}
      /\ astray' = astray \cup {op.record : op \in {p \in opQueue : p.conflict}}
      /\ UNCHANGED <<serverBook, commits, opsSeen, localBook, opsMade, pullAt, syncing>>
  BY DEF dropStuckOps, serverSide
<1>2. /\ InFlight' = InFlight /\ Came' = Came /\ OnTheWay' \subseteq OnTheWay
      /\ \A step : SyncAt(step)' = SyncAt(step)
      /\ \A op : Mine(op)' = Mine(op)
  BY <1>1 DEF InFlight, Came, OnTheWay, SyncAt, Mine
<1>3. \A op \in opQueue : op.record \in BookIds
  BY DEF DeviceInv, DeviceTyped, Operations
<1>4. DeviceTyped'
  BY <1>1, <1>3 DEF DeviceInv, DeviceTyped
<1>5. ClockRight' /\ RowsRight'
  BY <1>1, <1>2 DEF DeviceInv, ClockRight, RowsRight, WrittenBy
<1>6. QueueRight'
  BY <1>1, <1>2 DEF DeviceInv, QueueRight
<1>7. FlightRight'
  BY <1>1, <1>2 DEF DeviceInv, FlightRight
<1>8. PageRight' /\ LocalWritesShown'
  BY <1>1, <1>2 DEF DeviceInv, PageRight, LocalWritesShown
<1>9. CopiesRight'
  <2> SUFFICES ASSUME NEW j \in BookIds, j \notin astray' PROVE CopyRight(j)'
    BY DEF CopiesRight
  <2>1. j \notin astray /\ Waiting(j)' = Waiting(j)
    BY <1>1 DEF Waiting
  <2> QED BY <1>1, <1>2, <2>1 DEF CopyRight, DeviceInv, CopiesRight
<1> QED BY <1>4, <1>5, <1>6, <1>7, <1>8, <1>9 DEF DeviceInv

LEMMA ClearBookKeeps ==
  ASSUME DeviceInv, ClearBook
  PROVE  DeviceInv'
<1>1. /\ localBook' = [i \in BookIds |-> Absent] /\ opQueue' = {}
      /\ pullAt' = [from |-> 0, until |-> NoMark]
      /\ astray' = IF SyncAt("page") THEN BookIds ELSE {}
      /\ UNCHANGED <<serverBook, commits, opsSeen, opsMade, syncing>>
  BY DEF ClearBook, serverSide
<1>2. /\ InFlight' = InFlight /\ Came' = Came /\ OnTheWay' \subseteq OnTheWay
      /\ \A step : SyncAt(step)' = SyncAt(step)
      /\ \A op : Mine(op)' = Mine(op)
  BY <1>1 DEF InFlight, Came, OnTheWay, SyncAt, Mine
<1>3. \A j \in BookIds : /\ ~localBook'[j].there /\ ~localBook'[j].deleted
                         /\ localBook'[j].writes = {} /\ localBook'[j] \in Copies
  BY <1>1 DEF Absent, Copies
<1>4. DeviceTyped'
  BY <1>1, <1>3 DEF DeviceInv, DeviceTyped, Cursors, NoMark
<1>5. ClockRight'
  <2>1. commits \in Nat
    BY DEF DeviceInv, DeviceTyped
  <2> QED BY <1>1, <1>2, <2>1 DEF DeviceInv, ClockRight, NoMark
<1>6. RowsRight'
  BY <1>1, <1>2, <1>3 DEF DeviceInv, RowsRight, WrittenBy
<1>7. QueueRight' /\ LocalWritesShown'
  BY <1>1, <1>2 DEF DeviceInv, QueueRight, LocalWritesShown
<1>8. FlightRight'
  BY <1>1, <1>2, <1>3 DEF DeviceInv, FlightRight
<1>9. PageRight'
  BY <1>1, <1>2 DEF DeviceInv, PageRight
<1>10. CopiesRight'
  <2> SUFFICES ASSUME NEW j \in BookIds, j \notin astray' PROVE CopyRight(j)'
    BY DEF CopiesRight
  <2>1. serverBook[j].there => ~(serverBook[j].at <= pullAt'.from)
    <3>1. serverBook[j].at \in Nat
      BY DEF DeviceInv, DeviceTyped, Rows
    <3> QED BY <1>1, <3>1 DEF DeviceInv, ClockRight
  <2>2. serverBook[j].deleted => serverBook[j].writes # {}
    BY DEF DeviceInv, RowsRight
  <2> QED BY <1>1, <1>3, <2>1, <2>2 DEF CopyRight
<1> QED BY <1>4, <1>5, <1>6, <1>7, <1>8, <1>9, <1>10 DEF DeviceInv

-----------------------------------------------------------------------------
(* The specification.                                                      *)

LEMMA DeviceInitRight ==
  ASSUME DeviceInit
  PROVE  DeviceInv
<1>1. commits = Cardinality(FirstIds) /\ commits \in Nat
  BY DeviceAssumption, FS_CardinalityType DEF DeviceInit
<1>2. PICK at \in [FirstIds -> 1..commits] :
        /\ \A i, j \in FirstIds : at[i] = at[j] => i = j
        /\ serverBook = [i \in BookIds |->
             [there |-> i \in FirstIds, deleted |-> FALSE, writes |-> {},
              at |-> IF i \in FirstIds THEN at[i] ELSE 0]]
  BY DEF DeviceInit
<1>3. /\ localBook = [i \in BookIds |-> Copy(serverBook[i])]
      /\ opsSeen = {} /\ opQueue = {} /\ opsMade = 0 /\ astray = {}
      /\ pullAt = [from |-> commits, until |-> NoMark]
      /\ syncing = [step |-> "idle"]
      /\ ~InFlight /\ ~SyncAt("page") /\ OnTheWay = {}
  BY DEF DeviceInit, InFlight, SyncAt, OnTheWay
<1>4. ASSUME NEW j \in BookIds
      PROVE  /\ serverBook[j] \in Rows /\ (serverBook[j].there <=> j \in FirstIds)
             /\ ~serverBook[j].deleted /\ serverBook[j].writes = {}
             /\ j \in FirstIds => serverBook[j].at = at[j] /\ serverBook[j].at \in 1..commits
             /\ j \notin FirstIds => serverBook[j].at = 0
             /\ localBook[j] = Copy(serverBook[j])
  <2>1. j \in FirstIds => at[j] \in 1..commits
    OBVIOUS
  <2>2. serverBook[j] = [there |-> j \in FirstIds, deleted |-> FALSE, writes |-> {},
                         at |-> IF j \in FirstIds THEN at[j] ELSE 0]
    BY <1>2
  <2>3. localBook[j] = Copy(serverBook[j])
    BY <1>3
  <2>4. (IF j \in FirstIds THEN at[j] ELSE 0) \in Nat
    BY <1>1, <2>1
  <2>5. serverBook[j] \in Rows
    BY <2>2, <2>4 DEF Rows
  <2>6. serverBook[j].there <=> j \in FirstIds
    <3> DEFINE first == j \in FirstIds
               row == [there |-> first, deleted |-> FALSE, writes |-> {},
                       at |-> IF j \in FirstIds THEN at[j] ELSE 0]
    <3>1. serverBook[j] = row
      BY <2>2
    <3>2. row.there = first
      <4> HIDE DEF first
      <4> QED OBVIOUS
    <3> QED BY <3>1, <3>2
  <2>7. /\ ~serverBook[j].deleted /\ serverBook[j].writes = {}
        /\ serverBook[j].at = IF j \in FirstIds THEN at[j] ELSE 0
    BY <2>2
  <2> QED BY <2>1, <2>3, <2>5, <2>6, <2>7
<1>5. ASSUME NEW j \in BookIds
      PROVE  /\ localBook[j] \in Copies /\ localBook[j].there = serverBook[j].there
             /\ localBook[j].deleted = serverBook[j].deleted /\ localBook[j].writes = {}
  <2>1. localBook[j] = Copy(serverBook[j]) /\ serverBook[j] \in Rows /\ serverBook[j].writes = {}
    BY <1>4
  <2> QED BY <2>1 DEF Copy, Copies, Rows
<1>6. DeviceTyped
  BY <1>1, <1>2, <1>3, <1>4, <1>5 DEF DeviceTyped, Cursors, Syncings
<1>7. ClockRight
  BY <1>1, <1>2, <1>3, <1>4 DEF ClockRight, NoMark
<1>8. RowsRight
  BY <1>3, <1>4, <1>5 DEF RowsRight, WrittenBy
<1>9. QueueRight /\ FlightRight /\ PageRight /\ LocalWritesShown
  BY <1>3 DEF QueueRight, FlightRight, PageRight, LocalWritesShown
<1>10. CopiesRight
  BY <1>4, <1>5 DEF CopiesRight, CopyRight
<1> QED BY <1>6, <1>7, <1>8, <1>9, <1>10 DEF DeviceInv

LEMMA DeviceStepKeeps ==
  ASSUME DeviceInv, [DeviceNext]_deviceVars
  PROVE  DeviceInv'
<1>1. CASE UNCHANGED deviceVars
  <2>1. UNCHANGED <<serverBook, commits, opsSeen, localBook, opQueue, opsMade, pullAt,
                    syncing, astray>>
    BY <1>1 DEF deviceVars
  <2>2. DeviceTyped' /\ ClockRight' /\ RowsRight' /\ QueueRight'
    BY <2>1 DEF DeviceInv, DeviceTyped, ClockRight, RowsRight, WrittenBy, QueueRight, OnTheWay,
         InFlight, SyncAt
  <2>3. FlightRight' /\ PageRight'
    BY <2>1 DEF DeviceInv, FlightRight, PageRight, InFlight, SyncAt, Came, Mine
  <2>4. CopiesRight' /\ LocalWritesShown'
    BY <2>1 DEF DeviceInv, CopiesRight, CopyRight, Waiting, LocalWritesShown, Mine
  <2> QED BY <2>2, <2>3, <2>4 DEF DeviceInv
<1>2. ASSUME NEW i \in BookIds, NEW kind \in {"insert", "update", "softDelete"},
             OthersWrite(i, kind) \/ LocalWrite(i, kind)
      PROVE  DeviceInv'
  BY <1>2, OthersWriteKeeps, LocalWriteKeeps DEF Kinds
<1>3. CASE StartSync \/ LoseAnswer
  BY <1>3, SyncMoves DEF StartSync, LoseAnswer, SyncTo
<1>4. CASE SendOp \/ TakeAnswer
  BY <1>4, SendOpKeeps, TakeAnswerKeeps
<1>5. ASSUME NEW status \in {"done", "retry"}, ApplyOp(status) PROVE DeviceInv'
  BY <1>5, ApplyOpKeeps
<1>6. ASSUME NEW status \in {"retry", "refused"}, RejectOp(status) PROVE DeviceInv'
  BY <1>6, RejectOpKeeps
<1>7. ASSUME NEW from \in 0..pullAt.from, ReadPage(from) PROVE DeviceInv'
  BY <1>7, ReadPageKeeps
<1>8. CASE Merge \/ dropStuckOps \/ ClearBook
  BY <1>8, MergeKeeps, DropStuckKeeps, ClearBookKeeps
<1> QED BY <1>1, <1>2, <1>3, <1>4, <1>5, <1>6, <1>7, <1>8 DEF DeviceNext

(* A copy that holds what the row holds, with nothing waiting, is the row. *)
LEMMA CopiesAgreeAtRest ==
  ASSUME DeviceInv
  PROVE  AgreesAtRest
<1> SUFFICES ASSUME CaughtUp, NEW i \in BookIds \ astray
             PROVE  localBook[i] = Copy(serverBook[i])
  BY DEF AgreesAtRest
<1> DEFINE row == serverBook[i]
           copy == localBook[i]
<1>1. row \in Rows /\ copy \in Copies /\ CopyRight(i) /\ Waiting(i) = {}
  BY SyncingShape DEF DeviceInv, CopiesRight, CaughtUp, Waiting
<1>2. row.at <= pullAt.from
  BY DEF CaughtUp
<1>3. (row.there <=> copy.there) /\ row.writes \subseteq copy.writes
  BY <1>1, <1>2 DEF CopyRight, DeviceInv, RowsRight
<1>4. copy.writes = row.writes /\ (row.deleted <=> copy.deleted)
  BY <1>1, <1>3 DEF CopyRight
<1> QED BY <1>1, <1>3, <1>4 DEF Copy, Rows, Copies

(* The device loses nothing that was written on it, and a device at rest   *)
(* holds the server's book (sync.js), whatever the number of records,      *)
(* operations and commits.                                                 *)
THEOREM DeviceIsSound == DeviceSpec => []DeviceSound
<1>1. DeviceInit => DeviceInv
  BY DeviceInitRight
<1>2. DeviceInv /\ [DeviceNext]_deviceVars => DeviceInv'
  BY DeviceStepKeeps
<1>3. DeviceInv => DeviceSound
  BY CopiesAgreeAtRest DEF DeviceInv, DeviceSound
<1> QED BY <1>1, <1>2, <1>3, PTL DEF DeviceSpec

=============================================================================

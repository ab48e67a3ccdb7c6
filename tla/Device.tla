------------------------------- MODULE Device -------------------------------
(***************************************************************************)
(* One device that writes and reads (sync.js): it writes in its own book   *)
(* first, sends the operations of its queue one by one, then pulls, and    *)
(* keeps its own copy of a record that still has an operation waiting,     *)
(* while others write on the server.  Batches and requests that outlive    *)
(* the device's patience are in SyncPush, commits that come late in        *)
(* SyncPull; here both halves of sync share one book.                      *)
(***************************************************************************)
EXTENDS Integers, FiniteSets

CONSTANTS
  BookIds,                  \* ids of records, made by a device or by others
  FirstIds,                 \* those that are on the server and the device at the start
  MaxCommits,               \* bound: others commit no more once the server has this many
  MaxMade                   \* bound: operations the device makes

ASSUME DeviceAssumption == FirstIds \subseteq BookIds /\ IsFiniteSet(FirstIds)

VARIABLES
  serverBook,               \* id -> the row: there, deleted, writes in it, at (updated_at)
  commits,                  \* commits so far, the server's clock
  opsSeen,                  \* sync_ops: operations recorded
  localBook,                \* id -> the device's copy, without at
  opQueue, opsMade,         \* the queue, ordered by n, and how many operations were made
  pullAt,                   \* the cursor: read up to from; until # NoMark inside a round
  syncing,                  \* where sync is: between two awaits
  astray                    \* history: ids whose copy was left behind (see AgreesAtRest)

deviceVars ==
  <<serverBook, commits, opsSeen, localBook, opQueue, opsMade, pullAt, syncing, astray>>

serverSide == <<serverBook, commits, opsSeen>>
NoMark == -1
Absent == [there |-> FALSE, deleted |-> FALSE, writes |-> {}]
LiveCopy(copy) == copy.there /\ ~copy.deleted
Copy(row) == [there |-> row.there, deleted |-> row.deleted, writes |-> row.writes]

First(op) == \A p \in opQueue : op.n <= p.n

(* Slip: only the operation that is sent next counts as waiting. *)
NextPending(i) == \E op \in opQueue : First(op) /\ op.record = i

Pending(i) == \E op \in opQueue : op.record = i

SyncAt(step) == syncing.step = step
SyncTo(step) == syncing' = [step |-> step]

(* A copy with one more write in it. *)
WithWrite(copy, kind, mark) ==
  [copy EXCEPT !.there = TRUE, !.deleted = (kind = "softDelete"), !.writes = @ \cup {mark}]

(* A new id is a random uuid: nobody has made it, nor is making it. *)
Fresh(i) ==
  /\ ~serverBook[i].there /\ ~localBook[i].there
  /\ syncing.step \in {"sent", "answered"} => syncing.op.record # i

MayWrite(copy, i, kind) == IF kind = "insert" THEN Fresh(i) ELSE LiveCopy(copy)

DeviceInit ==
  /\ commits = Cardinality(FirstIds)
  /\ \E at \in [FirstIds -> 1..commits] :
       /\ \A i, j \in FirstIds : at[i] = at[j] => i = j
       /\ serverBook = [i \in BookIds |->
            [there |-> i \in FirstIds, deleted |-> FALSE, writes |-> {},
             at |-> IF i \in FirstIds THEN at[i] ELSE 0]]
  /\ localBook = [i \in BookIds |-> Copy(serverBook[i])]
  /\ opsSeen = {}
  /\ opQueue = {}
  /\ opsMade = 0
  /\ pullAt = [from |-> commits, until |-> NoMark]
  /\ syncing = [step |-> "idle"]
  /\ astray = {}

CommitRow(i, kind, mark) ==
  /\ commits' = commits + 1
  /\ serverBook' = [serverBook EXCEPT ![i] = [WithWrite(@, kind, mark) EXCEPT !.at = commits + 1]]

-----------------------------------------------------------------------------
(* Somebody else's device writes. *)
OthersWrite(i, kind) ==
  /\ commits < MaxCommits
  /\ MayWrite(serverBook[i], i, kind)
  /\ CommitRow(i, kind, <<"theirs", commits + 1>>)
  /\ UNCHANGED <<opsSeen, localBook, opQueue, opsMade, pullAt, syncing, astray>>

(* A person writes on the device, at any moment of a sync: the copy first,  *)
(* then the queue (enqueue).                                                *)
LocalWrite(i, kind) ==
  LET made == opsMade + 1
  IN  /\ made <= MaxMade
      /\ MayWrite(localBook[i], i, kind)
      /\ localBook' = [localBook EXCEPT ![i] = WithWrite(@, kind, <<"mine", made>>)]
      /\ opQueue' = opQueue \cup {[n |-> made, record |-> i, kind |-> kind, conflict |-> FALSE]}
      /\ opsMade' = made
      /\ UNCHANGED <<serverSide, pullAt, syncing, astray>>

(* sync: push while the head may be sent, else go on to pull. *)
StartSync ==
  /\ SyncAt("idle") /\ SyncTo("push")
  /\ UNCHANGED <<serverSide, localBook, opQueue, opsMade, pullAt, astray>>

SendOp ==
  /\ SyncAt("push")
  /\ \/ \E op \in opQueue :
          First(op) /\ ~op.conflict /\ syncing' = [step |-> "sent", op |-> op]
     \/ (\A op \in opQueue : First(op) => op.conflict) /\ SyncTo("pull")
  /\ UNCHANGED <<serverSide, localBook, opQueue, opsMade, pullAt, astray>>

(* The server's answers.  Deletion wins: an update of a deleted record is   *)
(* applied with a warning and writes nothing, a second deletion is a        *)
(* duplicate; both are recorded.  A commit that the server does not hear of *)
(* is answered INTERNAL: retry.                                             *)
Answer(status) == syncing' = [step |-> "answered", op |-> syncing.op, status |-> status]

ApplyOp(status) ==
  LET op == syncing.op
      row == serverBook[op.record]
  IN  /\ SyncAt("sent")
      /\ op.n \in opsSeen \/ row.there \/ op.kind = "insert"
      /\ Answer(status)
      /\ opsSeen' = opsSeen \cup {op.n}
      /\ IF op.n \in opsSeen \/ row.deleted \/ (op.kind = "insert" /\ row.there)
         THEN UNCHANGED <<serverBook, commits>>
         ELSE CommitRow(op.record, op.kind, <<"mine", op.n>>)
      /\ UNCHANGED <<localBook, opQueue, opsMade, pullAt, astray>>

(* Nothing is written: retry is PARENT_MISSING, RATE_LIMITED or INTERNAL,   *)
(* refused a refusal for good.                                              *)
RejectOp(status) ==
  /\ SyncAt("sent") /\ syncing.op.n \notin opsSeen
  /\ Answer(status)
  /\ UNCHANGED <<serverSide, localBook, opQueue, opsMade, pullAt, astray>>

(* The device takes the answer.  A refusal of an operation that is no more  *)
(* in the queue (the book was cleared meanwhile) throws and ends the sync.  *)
TakeAnswer ==
  LET sent == syncing.op.n
      there == \E op \in opQueue : op.n = sent
  IN  /\ SyncAt("answered")
      /\ \/ /\ syncing.status = "done"
            /\ opQueue' = {op \in opQueue : op.n # sent}
            /\ SyncTo("push")
         \/ /\ syncing.status = "retry"
            /\ UNCHANGED opQueue
            /\ SyncTo("pull")
         \/ /\ syncing.status = "refused"
            /\ opQueue' = {[op EXCEPT !.conflict = @ \/ op.n = sent] : op \in opQueue}
            /\ SyncTo(IF there THEN "pull" ELSE "idle")
      /\ UNCHANGED <<serverSide, localBook, opsMade, pullAt, astray>>

(* Offline, or an answer that never comes: the queue and the cursor stay.   *)
LoseAnswer ==
  /\ syncing.step \in {"sent", "answered", "pull", "page"}
  /\ SyncTo("idle")
  /\ UNCHANGED <<serverSide, localBook, opQueue, opsMade, pullAt, astray>>

-----------------------------------------------------------------------------
(* A page of one record; a round that begins reads again what the overlap   *)
(* covers, as much of it as time allows.                                    *)
ReadPage(from) ==
  LET until == IF pullAt.until = NoMark THEN commits ELSE pullAt.until
      left == {i \in BookIds : serverBook[i].there /\ serverBook[i].at \in (from + 1)..until}
  IN  /\ SyncAt("pull")
      /\ from <= pullAt.from /\ (pullAt.until # NoMark => from = pullAt.from)
      /\ IF left = {}
         THEN syncing' = [step |-> "page", records |-> {},
                          next |-> [from |-> until, until |-> NoMark]]
         ELSE \E i \in left :
                /\ \A j \in left : serverBook[i].at <= serverBook[j].at
                /\ syncing' = [step |-> "page", records |-> {<<i, Copy(serverBook[i])>>},
                               next |-> [from |-> serverBook[i].at, until |-> until]]
      /\ UNCHANGED <<serverSide, localBook, opQueue, opsMade, pullAt, astray>>

(* merge by id, passing over what still has an operation waiting, and the   *)
(* cursor moves on all the same.                                            *)
Merge ==
  LET came == {r[1] : r \in syncing.records}
      record(i) == (CHOOSE r \in syncing.records : r[1] = i)[2]
      kept == {i \in came : Pending(i)}
  IN  /\ SyncAt("page")
      /\ localBook' = [i \in BookIds |-> IF i \in came \ kept THEN record(i) ELSE localBook[i]]
      /\ astray' = (astray \ (came \ kept))
                     \cup {i \in kept : ~ record(i).writes \subseteq localBook[i].writes}
      /\ pullAt' = syncing.next
      /\ SyncTo(IF syncing.next.until = NoMark THEN "idle" ELSE "pull")
      /\ UNCHANGED <<serverSide, opQueue, opsMade>>

(* The two buttons of the page, at any moment: dropping what was refused,   *)
(* and clearing the device's book, after which a page that was on its way   *)
(* still sets the cursor.                                                   *)
dropStuckOps ==
  /\ \E op \in opQueue : op.conflict
  /\ opQueue' = {op \in opQueue : ~op.conflict}
  /\ astray' = astray \cup {op.record : op \in {p \in opQueue : p.conflict}}
  /\ UNCHANGED <<serverSide, localBook, opsMade, pullAt, syncing>>

ClearBook ==
  /\ localBook' = [i \in BookIds |-> Absent]
  /\ opQueue' = {}
  /\ pullAt' = [from |-> 0, until |-> NoMark]
  /\ astray' = IF SyncAt("page") THEN BookIds ELSE {}
  /\ UNCHANGED <<serverSide, opsMade, syncing>>

DeviceNext ==
  \/ \E i \in BookIds, kind \in {"insert", "update", "softDelete"} :
       OthersWrite(i, kind) \/ LocalWrite(i, kind)
  \/ StartSync \/ SendOp \/ TakeAnswer \/ LoseAnswer
  \/ \E status \in {"done", "retry"} : ApplyOp(status)
  \/ \E status \in {"retry", "refused"} : RejectOp(status)
  \/ \E from \in 0..pullAt.from : ReadPage(from)
  \/ Merge \/ dropStuckOps \/ ClearBook

DeviceSpec == DeviceInit /\ [][DeviceNext]_deviceVars

-----------------------------------------------------------------------------
(* What a person wrote and has not been sent stays in what they see,        *)
(* whatever the server sends meanwhile (FRONTEND.md 882).                   *)
LocalWritesShown ==
  \A op \in opQueue :
    /\ <<"mine", op.n>> \in localBook[op.record].writes
    /\ op.kind = "softDelete" => localBook[op.record].deleted

(* Once the queue is empty and everything is read, the device's book is the *)
(* server's, except for records that went astray: a change of somebody else *)
(* was passed over while an operation waited that then wrote nothing, a     *)
(* refused operation was dropped, or the book was cleared while a page was  *)
(* on its way.  An operation that does write brings its record again, with  *)
(* all that was passed over.                                                *)
CaughtUp ==
  /\ SyncAt("idle") /\ opQueue = {}
  /\ \A i \in BookIds : serverBook[i].at <= pullAt.from

AgreesAtRest == CaughtUp => \A i \in BookIds \ astray : localBook[i] = Copy(serverBook[i])

(* The device loses nothing that was written on it, and the server's book   *)
(* reaches it.                                                              *)
DeviceSound == LocalWritesShown /\ AgreesAtRest
=============================================================================

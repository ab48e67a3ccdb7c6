------------------------------- MODULE Chain -------------------------------
(***************************************************************************)
(* What the parts of the chain between organisations share: the requests   *)
(* that the API is serving, the organisations with their row locks, the    *)
(* domain events emitted after a commit (domain-events.ts) and the         *)
(* notifications that a listener writes from them for the other side       *)
(* (notifications.listener.ts).  Links, Orders and Trade extend it.        *)
(*                                                                         *)
(* A request is one READ COMMITTED transaction of two steps: it reads what *)
(* others have committed and decides (it appears in `req`), then writes    *)
(* and commits.  Anything may happen between the two.                      *)
(***************************************************************************)
EXTENDS Integers, Sequences, FiniteSets, Bags, BagsExt

CONSTANTS
  Orgs, NoOrg,
  May,        \* [Orgs -> SUBSET Permission]: permissions of the person at work in each
  Workers,    \* requests that can be open at the same time
  NoReq,
  Refs,       \* what notifications are about: orders and links
  NoNotice,
  MaxFaults   \* bound: lost events, stops of the server, failures of other systems

VARIABLES
  present,    \* organizations: those not deleted
  locked,     \* rows of it that an account deletion holds (select ... for update)
  req,        \* the open request of each worker
  events,     \* events emitted whose listener has not run yet (a bag)
  notices,    \* notifications: for each organisation, the newest about each order and link
  lost,       \* orders and links of which an event was never told
  faults

chain == <<present, locked, req, events, notices, lost, faults>>

Permission == {"order:create", "order:respond", "partner:manage", "linked:read"}

ASSUME ChainAssumption ==
  /\ NoOrg \notin Orgs
  /\ May \in [Orgs -> SUBSET Permission]
  /\ MaxFaults \in Nat

Can(org, permission) == org \in present /\ permission \in May[org]

ChainInit ==
  /\ present = Orgs /\ locked = {}
  /\ req = [w \in Workers |-> NoReq]
  /\ events = EmptyBag
  /\ notices = [o \in Orgs |-> [r \in Refs |-> NoNotice]]
  /\ lost = {} /\ faults = 0

Open(w, request) == req[w] = NoReq /\ req' = [req EXCEPT ![w] = request]
Serving(w, ops) == req[w] # NoReq /\ req[w].op \in ops
Close(w) == req' = [req EXCEPT ![w] = NoReq]

(* A row that refers to an organisation: its foreign key takes FOR KEY     *)
(* SHARE on the organisation, so the statement waits for a deletion and    *)
(* fails once it has committed.                                            *)
Waits(orgs) == orgs \cap locked # {}

(* Slip: nothing refers to an organisation by a key.                       *)
KeysUnchecked(orgs) == TRUE

KeysHold(orgs) == orgs \subseteq present

Event(kind, ref, actor) == [kind |-> kind, ref |-> ref, actor |-> actor]
emit(event) == events' = BagAdd(events, event)

Tell(to, ref, notice) == notices' = [notices EXCEPT ![to][ref] = notice]

(* safely(): the listener runs once per event, in any order; what goes     *)
(* wrong in it is logged and counted, never tried again.                   *)
ListenerFails ==
  /\ faults < MaxFaults
  /\ \E e \in BagToSet(events) :
       /\ events' = BagRemove(events, e)
       /\ lost' = lost \cup {e.ref}
  /\ faults' = faults + 1
  /\ UNCHANGED <<present, locked, req, notices>>

(* The process stops: open transactions roll back, events waiting in       *)
(* memory are gone.                                                        *)
Restart ==
  /\ faults < MaxFaults
  /\ req # [w \in Workers |-> NoReq] \/ events # EmptyBag \/ locked # {}
  /\ req' = [w \in Workers |-> NoReq]
  /\ locked' = {}
  /\ events' = EmptyBag
  /\ lost' = lost \cup {e.ref : e \in BagToSet(events)}
  /\ faults' = faults + 1
  /\ UNCHANGED <<present, notices>>
=============================================================================

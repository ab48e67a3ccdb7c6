------------------------------- MODULE Trade -------------------------------
(***************************************************************************)
(* Links, orders and their notifications together with the deletion of the *)
(* account of an owner (DELETE /v1/me, account-deletion.service.ts):       *)
(* photos in the outside store, then the data in one transaction of        *)
(* PrivilegedDatabase that takes the organisation out of the orders and    *)
(* links of others, then the login.  Any of the three may fail; the app    *)
(* reports it and the person calls again.                                  *)
(*                                                                         *)
(* The transaction locks the row of the organisation, reads the orders,    *)
(* reads the links, then writes.  Its writes are one step here, the last:  *)
(* rows it has written are locked, so nobody can tell them from rows       *)
(* written at the commit.                                                  *)
(***************************************************************************)
EXTENDS Orders

CONSTANTS
  HasBook,    \* organisations that keep a book: traders and enterprises
  Deleters,   \* organisations whose owner may delete the account
  NoSeen

ASSUME TradeAssumption == HasBook \subseteq Orgs /\ Deleters \subseteq Orgs

VARIABLES
  del,    \* how far the deletion of each account has come
  seen    \* what its open transaction has read

vars == <<chain, partnerLinks, tradeOrders, del, seen>>

Stage == {"none", "files", "data", "links", "purge", "login", "done", "failed"}
Busy(d) == del[d] \in {"files", "data", "links", "purge", "login"}

Seen == [orders: SUBSET [order: OrderIds, other: Orgs, open: BOOLEAN, status: Status],
         dropped: SUBSET OrderIds,
         watched: SUBSET [link: LinkIds, to: Orgs, active: {TRUE}],
         live: SUBSET [link: LinkIds, to: Orgs, active: BOOLEAN]]

Init ==
  /\ ChainInit /\ LinksInit /\ OrdersInit
  /\ del = [d \in Deleters |-> "none"]
  /\ seen = [d \in Deleters |-> NoSeen]

TypeOK ==
  /\ LinksTypeOK /\ OrdersTypeOK
  /\ present \subseteq Orgs /\ locked \subseteq present
  /\ \A w \in Workers : req[w] # NoReq => req[w].org \in Orgs
  /\ del \in [Deleters -> Stage]
  /\ \A d \in Deleters : IF del[d] \in {"links", "purge"} THEN seen[d] \in Seen ELSE seen[d] = NoSeen

-----------------------------------------------------------------------------
Goto(d, stage) == del' = [del EXCEPT ![d] = stage]

(* Slip: what was read outlives the transaction.                           *)
RollbackHalf(d) == Goto(d, "failed") /\ locked' = locked \ {d} /\ UNCHANGED seen

Rollback(d) ==
  /\ Goto(d, "failed")
  /\ locked' = locked \ {d}
  /\ seen' = [seen EXCEPT ![d] = NoSeen]

Untouched == UNCHANGED <<present, req, events, notices, lost, partnerLinks, tradeOrders>>

Ask(d) ==
  /\ del[d] \in {"none", "failed"}
  /\ Goto(d, "files")
  /\ Untouched /\ UNCHANGED <<locked, faults, seen>>

(* 1. The photos of the organisation, as far as it is still there.         *)
RemoveFolder(d) ==
  /\ del[d] = "files"
  /\ Goto(d, "data")
  /\ Untouched /\ UNCHANGED <<locked, faults, seen>>

(* Slip: the row of the organisation is not locked.                        *)
LockNone(d) == locked

LockRow(d) == locked \cup {d}

(* Slip: its own row of the address book is asked for, not theirs.         *)
KeepsByOwnRow(d, o) ==
  /\ Other(o, d) # NoOrg /\ Other(o, d) \in present \cap HasBook
  /\ IF orders[o].seller = d THEN orders[o].buyerPartner ELSE orders[o].sellerPartner

(* detachOrders: an order stays when the other side is still there, keeps  *)
(* a book and has a row for this organisation in it.                       *)
Keeps(d, o) ==
  /\ Other(o, d) # NoOrg /\ Other(o, d) \in present \cap HasBook
  /\ IF orders[o].seller = d THEN orders[o].sellerPartner ELSE orders[o].buyerPartner

(* Slip: an organisation that is not found is an error.                    *)
NotFound(d) == Goto(d, "failed")

NothingToDo(d) == Goto(d, "login")

(* 2. The data: the row is locked first.  An organisation deleted by an    *)
(* earlier call leaves nothing to do.                                      *)
ReadOrders(d) ==
  /\ del[d] = "data"
  /\ IF d \in present
       THEN LET mine == {o \in OrderIds : Placed(o) /\ d \in Sides(o)}
            IN  /\ locked' = LockRow(d)
                /\ seen' = [seen EXCEPT ![d] =
                     [orders |-> {[order |-> o, other |-> Other(o, d), status |-> orders[o].status,
                                   open |-> orders[o].status \in OpenStatus] :
                                    o \in {x \in mine : Keeps(d, x)}},
                      dropped |-> {o \in mine : ~Keeps(d, o)},
                      watched |-> {}, live |-> {}]]
                /\ Goto(d, "links")
       ELSE NothingToDo(d) /\ UNCHANGED <<locked, seen>>
  /\ Untouched /\ UNCHANGED faults

ReadLinks(d) ==
  /\ del[d] = "links"
  /\ seen' = [seen EXCEPT
       ![d].watched = {[link |-> l, to |-> links[l].linked, active |-> TRUE] : l \in {k \in LinkIds :
                         Exists(k) /\ Owner(k) = d /\ links[k].status = "active"}},
       ![d].live = {[link |-> l, to |-> Owner(l), active |-> links[l].status = "active"] :
                      l \in {k \in LinkIds :
                         Exists(k) /\ links[k].linked = d /\ links[k].status # "revoked"}}]
  /\ Goto(d, "purge")
  /\ Untouched /\ UNCHANGED <<locked, faults>>

(* Whom this deletion tells, and of what.                                  *)
Told(d) ==
  {<<k.other, k.order>> : k \in {x \in seen[d].orders : x.open}}
  \cup {<<x.to, x.link>> : x \in seen[d].watched \cup {y \in seen[d].live : y.active}}
Listeners(d) == {t[1] : t \in Told(d)}

(* Whether every statement goes through: the guards of both tables and the *)
(* foreign keys of the notifications.                                      *)
Goes(d) ==
  /\ KeysHold(Listeners(d))
  /\ \A k \in seen[d].orders :
       Placed(k.order) /\ (k.open => Arrow(orders[k.order].status, "cancelled"))
  /\ \A l \in LinkIds : Exists(l) /\ links[l].linked = d /\ links[l].status # "revoked" =>
       Owner(l) = d \/ \E x \in seen[d].live : x.link = l

Without(org, d) == IF org = d THEN NoOrg ELSE org

(* An order without d; cancelled when it was read open.  (An order that    *)
(* was not read loses d by its foreign key, ON DELETE SET NULL.)           *)
Detached(d, o) ==
  LET left == [orders[o] EXCEPT !.seller = Without(@, d), !.buyer = Without(@, d),
                                !.creator = Without(@, d)]
  IN  IF \E k \in seen[d].orders : k.order = o /\ k.open
        THEN [left EXCEPT !.status = "cancelled", !.version = @ + 1] ELSE left

Purge(d) ==
  /\ del[d] = "purge"
  /\ Listeners(d) \cap (locked \ {d}) = {}
  /\ Goes(d)
  /\ orders' = [o \in OrderIds |->
       IF o \in seen[d].dropped THEN GoneOrder
       ELSE IF Placed(o) /\ d \in Sides(o) THEN Detached(d, o) ELSE orders[o]]
  /\ steps' = [o \in OrderIds |->
       IF o \in seen[d].dropped THEN <<>>
       ELSE IF \E k \in seen[d].orders : k.order = o /\ k.open
         THEN Append(steps[o], [from |-> (CHOOSE k \in seen[d].orders : k.order = o).status,
                                to |-> "cancelled", by |-> d])
       ELSE steps[o]]
  /\ links' = [l \in LinkIds |->
       IF ~Exists(l) THEN links[l]
       ELSE IF Owner(l) = d THEN GoneLink
       ELSE IF links[l].linked = d
         THEN [links[l] EXCEPT !.status = "revoked", !.linked = NoOrg, !.code = 0, !.age = "over"]
       ELSE links[l]]
  /\ notices' = [org \in Orgs |-> [r \in Refs |->
       IF org = d THEN NoNotice
       ELSE IF <<org, r>> \notin Told(d) THEN notices[org][r]
       ELSE IF r \in LinkIds THEN [kind |-> "link.revoked", from |-> d]
       ELSE [status |-> "cancelled", from |-> d]]]
  /\ present' = present \ {d}
  /\ locked' = locked \ {d}
  /\ seen' = [seen EXCEPT ![d] = NoSeen]
  /\ Goto(d, "login")
  /\ UNCHANGED <<req, events, lost, faults, codes, trail>>

PurgeFails(d) ==
  /\ del[d] = "purge"
  /\ Listeners(d) \cap (locked \ {d}) = {}
  /\ ~Goes(d)
  /\ Rollback(d)
  /\ Untouched /\ UNCHANGED faults

(* Two deletions that have to tell each other wait for each other's row:   *)
(* the database ends one of them.                                          *)
Deadlock(d) ==
  /\ del[d] = "purge"
  /\ \E e \in Deleters \ {d} : del[e] = "purge" /\ e \in Listeners(d) /\ d \in Listeners(e)
  /\ Rollback(d)
  /\ Untouched /\ UNCHANGED faults

(* 3. The login.                                                           *)
DeleteLogin(d) ==
  /\ del[d] = "login"
  /\ Goto(d, "done")
  /\ Untouched /\ UNCHANGED <<locked, faults, seen>>

(* The store, the database or the login service fails.                     *)
DeletionFails(d) ==
  /\ faults < MaxFaults /\ Busy(d)
  /\ faults' = faults + 1
  /\ Rollback(d)
  /\ Untouched

ServerRestarts ==
  /\ Restart
  /\ del' = [d \in Deleters |-> IF Busy(d) THEN "failed" ELSE del[d]]
  /\ seen' = [d \in Deleters |-> NoSeen]
  /\ UNCHANGED <<partnerLinks, tradeOrders>>

Delete(d) ==
  \/ RemoveFolder(d) \/ ReadOrders(d) \/ ReadLinks(d)
  \/ Purge(d) \/ PurgeFails(d) \/ Deadlock(d) \/ DeleteLogin(d)

Next ==
  \/ LinksNext /\ UNCHANGED <<tradeOrders, del, seen>>
  \/ OrdersNext /\ UNCHANGED <<del, seen>>
  \/ ListenerFails /\ UNCHANGED <<partnerLinks, tradeOrders, del, seen>>
  \/ ServerRestarts
  \/ \E d \in Deleters : Ask(d) \/ Delete(d) \/ DeletionFails(d)

Spec == Init /\ [][Next]_vars

(* The server goes on with a deletion; a row lock that it waits for is     *)
(* given to it before whoever asks later; and whoever asked for a deletion *)
(* and was told that it failed asks again (account-deletion.service.ts:315)*)
FairSpec ==
  /\ Spec
  /\ \A d \in Deleters :
       /\ WF_vars(Delete(d)) /\ SF_vars(Purge(d) \/ PurgeFails(d))
       /\ WF_vars(del[d] = "failed" /\ Ask(d))

-----------------------------------------------------------------------------
(* What is over stays over: a finished or cancelled order keeps its status *)
(* and its version, although two sides, a receipt and a deletion that read *)
(* the order while it was open write to it at once                         *)
(* (account-deletion.service.ts:99); only a deletion takes the row away.   *)
FinalIsFinal ==
  [][\A o \in OrderIds :
       Placed(o) /\ orders[o].status \in {"fulfilled", "cancelled"} /\ Placed(o)' =>
         orders[o]'.status = orders[o].status /\ orders[o]'.version = orders[o].version]_vars

(* Nobody waits for someone who is gone: an order without one of its sides *)
(* is over, also when it was made or moved while the account was being     *)
(* deleted.                                                                *)
NoOpenOrderWithoutSide ==
  \A o \in OrderIds : Placed(o) /\ orders[o].status \in OpenStatus => BothSides(o)

(* A deleted organisation is nowhere: no order, link or notification names *)
(* it, whatever was being written while it was deleted.                    *)
NothingLeft ==
  /\ \A o \in OrderIds : Placed(o) => Sides(o) \subseteq present
  /\ \A l \in LinkIds : Exists(l) =>
       /\ Owner(l) \in present /\ links[l].linked \in present \cup {NoOrg}
       /\ links[l].status = "active" => links[l].linked # NoOrg
  /\ \A org \in Orgs \ present : \A r \in Refs : notices[org][r] = NoNotice

(* The book of the other side stays (decision of 18/10/2026): an order     *)
(* disappears only with its last side that keeps a book and knows the      *)
(* other one, and no side that is still there is taken out of an order.    *)
BookKept ==
  [][\A o \in OrderIds : Placed(o) =>
       /\ ~Placed(o)' =>
            \E d \in Sides(o) : d \notin present' /\
              (Other(o, d) \in present' \cap HasBook =>
                 ~(IF orders[o].seller = d THEN orders[o].sellerPartner ELSE orders[o].buyerPartner))
       /\ Placed(o)' => Sides(o) \cap present' \subseteq Sides(o)']_vars

(* A deletion that was asked for comes to its end: neither a failure of    *)
(* the store, the database or the login, nor orders that are moved while   *)
(* it runs, nor two deletions that wait for each other keep the account.   *)
DeletionEnds == \A d \in Deleters : del[d] = "files" ~> del[d] = "done"

(* What the deletion of a side does to an order is a step of its history    *)
(* like any other, and leaves no order open with nobody to move it.         *)
OrdersSound == HistoryIsChain /\ NoOpenOrderWithoutSide

(* The other side keeps its records: what it booked stays, and an order     *)
(* that is over is never changed into another end.                          *)
RecordsKept == BookKept /\ FinalIsFinal
=============================================================================

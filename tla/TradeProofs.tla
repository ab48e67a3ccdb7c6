---------------------------- MODULE TradeProofs ----------------------------
(***************************************************************************)
(* Theorems about Trade (links, orders and the deletion of accounts) for   *)
(* any organisations, permissions, address books, workers and bounds.      *)
(*                                                                         *)
(* The inductive invariant has one part for each table.  What holds them   *)
(* together: a request that has read an order knows its status as long as  *)
(* the version stays; a deletion that holds the row of its organisation    *)
(* has read every order of it, and those it read closed stay closed.       *)
(*                                                                         *)
(* A second invariant on top of it says what the other side has heard.     *)
(***************************************************************************)
EXTENDS Trade, SequenceTheorems, TLAPS

Ops == {"link.create", "link.renew", "link.accept", "link.revoke", "order.create", "order.move"}

RowsFine == present \subseteq Orgs /\ locked \subseteq present

(* A link is with organisations that exist, and as its log says.           *)
LinkFine(l) ==
  /\ links[l] = NoLink => trail[l] = <<>>
  /\ Exists(l) =>
       /\ links[l].code # 0 => links[l].status = "pending"
       /\ Owner(l) \in present /\ links[l].linked \in present \cup {NoOrg}
       /\ links[l].status = "pending" =>
            \A i \in DOMAIN trail[l] : trail[l][i].action \notin {"accepted", "revoked"}
       /\ links[l].status = "active" =>
            /\ links[l].linked # NoOrg
            /\ \E i \in DOMAIN trail[l] : trail[l][i] = [action |-> "accepted", org |-> links[l].linked]
            /\ \A i \in DOMAIN trail[l] :
                 /\ trail[l][i].action # "revoked"
                 /\ trail[l][i].action = "accepted" => trail[l][i].org = links[l].linked

LinksFine ==
  /\ links \in [LinkIds -> Link \cup {NoLink, GoneLink}]
  /\ trail \in [LinkIds -> Seq(Trail)]
  /\ codes \in 0..MaxCodes
  /\ \A l \in LinkIds : LinkFine(l)

(* An order is with organisations that exist, with both as long as it is   *)
(* open, and its steps lead to it.                                         *)
Chained(o) ==
  /\ Len(steps[o]) = orders[o].version
  /\ steps[o][Len(steps[o])].to = orders[o].status
  /\ \A i \in 2..Len(steps[o]) :
       \/ steps[o][i].from = steps[o][i - 1].to
       \/ i = Len(steps[o]) /\ steps[o][i].by \notin present

SidesFine(o) ==
  /\ orders[o].seller \in present \cup {NoOrg} /\ orders[o].buyer \in present \cup {NoOrg}
  /\ orders[o].status \in OpenStatus =>
       orders[o].seller # NoOrg /\ orders[o].buyer # NoOrg /\ orders[o].seller # orders[o].buyer

(* An order is closed by a deletion only once, as its last step.           *)
ClosedByGone(o) ==
  orders[o].status \in OpenStatus =>
    \A i \in 2..Len(steps[o]) : steps[o][i].from = steps[o][i - 1].to

OrdersFine ==
  /\ OrdersTypeOK
  /\ \A o \in OrderIds :
       /\ orders[o] = NoOrder => steps[o] = <<>>
       /\ Placed(o) => SidesFine(o) /\ Chained(o) /\ ClosedByGone(o)

(* What a request has read is true as long as the version says so.         *)
RequestFine(r) ==
  /\ r.op \in Ops /\ r.org \in Orgs
  /\ r.op = "link.create" => r.partner \in Partners /\ r.org = OwnerOf[r.partner]
  /\ r.op \in {"link.renew", "link.accept", "link.revoke"} => r.link \in LinkIds
  /\ r.op = "order.create" =>
       /\ r.order \in OrderIds /\ orders[r.order] = NoOrder
       /\ r.seller \in Orgs /\ r.buyer \in Orgs /\ r.seller # r.buyer
       /\ r.sellerPartner \in BOOLEAN /\ r.buyerPartner \in BOOLEAN
  /\ r.op = "order.move" =>
       /\ r.order \in OrderIds /\ r.step \in StepNames
       /\ orders[r.order] # NoOrder
       /\ r.version \in Nat /\ r.status \in Status
       /\ Placed(r.order) =>
            /\ r.version <= orders[r.order].version
            /\ r.version = orders[r.order].version => r.status = orders[r.order].status

RequestsFine ==
  /\ req = [w \in Workers |-> req[w]]
  /\ \A w \in Workers : req[w] # NoReq => RequestFine(req[w])
  /\ \A w, x \in Workers :
       w # x /\ Serving(w, {"order.create"}) /\ Serving(x, {"order.create"}) => req[w].order # req[x].order

(* A deletion holds its row and has read every order with its organisation.*)
ReadFine(d) ==
  /\ d \in locked
  /\ \A o \in OrderIds : Placed(o) /\ d \in Sides(o) =>
       o \in seen[d].dropped \/ \E k \in seen[d].orders : k.order = o
  /\ \A k \in seen[d].orders :
       /\ k.order \notin seen[d].dropped /\ orders[k.order] # NoOrder
       /\ Placed(k.order) => d \in Sides(k.order) /\ (~k.open => orders[k.order].status \notin OpenStatus)
  /\ \A o \in seen[d].dropped :
       orders[o] # NoOrder /\ (Placed(o) => d \in Sides(o) /\ ~Keeps(d, o))

DeletionsFine ==
  /\ del \in [Deleters -> Stage]
  /\ seen = [d \in Deleters |-> seen[d]]
  /\ \A d \in Deleters : IF del[d] \in {"links", "purge"} THEN seen[d] \in Seen /\ ReadFine(d)
                                                          ELSE seen[d] = NoSeen

NoticesFine ==
  /\ DOMAIN notices = Orgs
  /\ \A org \in Orgs \ present : \A r \in Refs : notices[org][r] = NoNotice

EventsFine ==
  \A e \in BagToSet(events) :
    /\ e.kind \in {"link.accepted", "link.revoked"} => e.ref \in LinkIds
    /\ e.kind \in Status => e.ref \in OrderIds

IInv ==
  RowsFine /\ LinksFine /\ OrdersFine /\ RequestsFine /\ DeletionsFine /\ NoticesFine /\ EventsFine

-----------------------------------------------------------------------------
(* Frames: a part of the invariant stays when its tables stay.             *)

LEMMA LinksStay ==
  ASSUME LinksFine, UNCHANGED <<partnerLinks, present>>
  PROVE  LinksFine'
BY DEF LinksFine, LinkFine, partnerLinks, Exists, Owner

LEMMA OrdersStay ==
  ASSUME OrdersFine, UNCHANGED <<tradeOrders, present>>
  PROVE  OrdersFine'
BY DEF OrdersFine, OrdersTypeOK, SidesFine, Chained, ClosedByGone, tradeOrders, Placed

LEMMA RequestsStay ==
  ASSUME RequestsFine, UNCHANGED <<req, orders>>
  PROVE  RequestsFine'
BY DEF RequestsFine, RequestFine, Placed, Serving

LEMMA NoticesStay ==
  ASSUME NoticesFine, UNCHANGED <<notices, present>>
  PROVE  NoticesFine'
BY DEF NoticesFine

LEMMA EventsStay ==
  ASSUME EventsFine, UNCHANGED events
  PROVE  EventsFine'
BY DEF EventsFine

LEMMA EventHandled ==
  ASSUME EventsFine, NEW e, events' = BagRemove(events, e)
  PROVE  EventsFine'
<1>1. DOMAIN events' \subseteq DOMAIN events
  BY DEF BagRemove
<1> QED BY <1>1 DEF EventsFine, BagToSet

LEMMA LinkEventEmitted ==
  ASSUME EventsFine, NEW kind \in {"link.accepted", "link.revoked"}, NEW l \in LinkIds, NEW org,
         emit(Event(kind, l, org))
  PROVE  EventsFine'
<1>1. DOMAIN events' = DOMAIN events \cup {Event(kind, l, org)}
  BY DEF BagAdd, emit
<1>2. Event(kind, l, org).kind \notin Status /\ Event(kind, l, org).ref = l
  BY DEF Event, Status, OpenStatus
<1> QED BY <1>1, <1>2 DEF EventsFine, BagToSet

LEMMA OrderEventEmitted ==
  ASSUME EventsFine, NEW kind \in Status, NEW o \in OrderIds, NEW org, emit(Event(kind, o, org))
  PROVE  EventsFine'
<1>1. DOMAIN events' = DOMAIN events \cup {Event(kind, o, org)}
  BY DEF BagAdd, emit
<1>2. Event(kind, o, org).kind \notin {"link.accepted", "link.revoked"} /\ Event(kind, o, org).ref = o
  BY DEF Event, Status, OpenStatus
<1> QED BY <1>1, <1>2 DEF EventsFine, BagToSet

(* What a request may do to an order: nothing that a deletion has to fear. *)
Advance ==
  \A o \in OrderIds :
    /\ orders[o] # NoOrder => orders'[o] # NoOrder
    /\ Placed(o)' =>
         \/ /\ Placed(o)
            /\ orders'[o].seller = orders[o].seller /\ orders'[o].buyer = orders[o].buyer
            /\ orders'[o].sellerPartner = orders[o].sellerPartner
            /\ orders'[o].buyerPartner = orders[o].buyerPartner
            /\ orders[o].status \notin OpenStatus => orders'[o].status \notin OpenStatus
         \/ /\ orders[o] = NoOrder
            /\ Sides(o)' \cap locked = {}

LEMMA DeletionsStay ==
  ASSUME DeletionsFine, Advance, UNCHANGED <<del, seen, locked, present>>
  PROVE  DeletionsFine'
<1> SUFFICES ASSUME NEW d \in Deleters, del[d] \in {"links", "purge"}
             PROVE  ReadFine(d)'
  BY DEF DeletionsFine
<1>1. ReadFine(d) /\ seen[d] \in Seen
  BY DEF DeletionsFine
<1>2. d \in locked'
  BY <1>1 DEF ReadFine
<1>3. ASSUME NEW o \in OrderIds, Placed(o)', d \in Sides(o)'
      PROVE  Placed(o) /\ d \in Sides(o)
  BY <1>1, <1>3 DEF Advance, Sides, ReadFine
<1>4. ASSUME NEW k \in seen[d].orders
      PROVE  /\ k.order \notin seen[d].dropped /\ orders'[k.order] # NoOrder
             /\ Placed(k.order)' => /\ d \in Sides(k.order)'
                                    /\ ~k.open => orders'[k.order].status \notin OpenStatus
  <2>1. k.order \in OrderIds
    BY <1>1, <1>4 DEF Seen
  <2> QED BY <1>1, <1>4, <2>1 DEF ReadFine, Advance, Placed, Sides
<1>5. ASSUME NEW o \in seen[d].dropped
      PROVE  orders'[o] # NoOrder /\ (Placed(o)' => d \in Sides(o)' /\ ~Keeps(d, o)')
  <2>1. o \in OrderIds
    BY <1>1, <1>5 DEF Seen
  <2> QED BY <1>1, <1>5, <2>1 DEF ReadFine, Advance, Placed, Sides, Keeps, Other
<1> QED
  BY <1>1, <1>2, <1>3, <1>4, <1>5 DEF ReadFine

(* A request is opened, or answered.                                       *)
LEMMA RequestOpened ==
  ASSUME RequestsFine, UNCHANGED orders, NEW w \in Workers, NEW r, Open(w, r), RequestFine(r),
         r.op = "order.create" =>
           \A x \in Workers : Serving(x, {"order.create"}) => req[x].order # r.order
  PROVE  RequestsFine'
<1>1. req' = [req EXCEPT ![w] = r] /\ req[w] = NoReq
  BY DEF Open
<1>2. /\ req'[w] = r
      /\ \A x \in Workers \ {w} : req'[x] = req[x]
      /\ req' = [x \in Workers |-> req'[x]]
  BY <1>1 DEF RequestsFine
<1>3. \A q : RequestFine(q) => RequestFine(q)'
  BY DEF RequestFine, Placed
<1>4. \A x \in Workers : req'[x] # NoReq => RequestFine(req[x])'
  BY <1>2, <1>3 DEF RequestsFine
<1>5. \A x, y \in Workers :
        x # y /\ Serving(x, {"order.create"})' /\ Serving(y, {"order.create"})' => req'[x].order # req'[y].order
  BY <1>2 DEF RequestsFine, Serving
<1> QED
  BY <1>2, <1>4, <1>5 DEF RequestsFine, RequestFine

LEMMA RequestClosed ==
  ASSUME RequestsFine, NEW w \in Workers, Close(w),
         \A x \in Workers \ {w} : req[x] # NoReq => RequestFine(req[x])'
  PROVE  RequestsFine'
<1>1. /\ req'[w] = NoReq
      /\ \A x \in Workers \ {w} : req'[x] = req[x]
      /\ req' = [x \in Workers |-> req'[x]]
  BY DEF RequestsFine, Close
<1> QED
  BY <1>1 DEF RequestsFine, RequestFine, Serving

-----------------------------------------------------------------------------
(* Links.                                                                  *)

(* What Append does to a log.                                              *)
LEMMA Appended ==
  ASSUME NEW S, NEW s \in Seq(S), NEW e \in S
  PROVE  /\ Append(s, e) \in Seq(S)
         /\ Len(s) \in Nat /\ DOMAIN s = 1..Len(s)
         /\ Len(Append(s, e)) = Len(s) + 1
         /\ DOMAIN Append(s, e) = 1..(Len(s) + 1)
         /\ \A i \in 1..Len(s) : Append(s, e)[i] = s[i]
         /\ Append(s, e)[Len(s) + 1] = e
BY AppendProperties, LenProperties

LEMMA LinkAction ==
  ASSUME IInv, UNCHANGED <<present, locked, tradeOrders, del, seen>>,
         LinksFine', RequestsFine', NoticesFine', EventsFine'
  PROVE  IInv'
<1>1. OrdersFine'
  BY OrdersStay DEF IInv
<1>2. DeletionsFine'
  BY DeletionsStay DEF IInv, Advance, tradeOrders, Placed
<1> QED
  BY <1>1, <1>2 DEF IInv, RowsFine

(* One link changes.                                                       *)
LEMMA OneLink ==
  ASSUME LinksFine, present' = present, codes' \in 0..MaxCodes,
         NEW l \in LinkIds, NEW new \in Link, NEW entries \in Seq(Trail),
         links' = [links EXCEPT ![l] = new], trail' = [trail EXCEPT ![l] = entries],
         LinkFine(l)'
  PROVE  LinksFine'
<1>1. /\ links' \in [LinkIds -> Link \cup {NoLink, GoneLink}]
      /\ trail' \in [LinkIds -> Seq(Trail)]
  BY DEF LinksFine
<1>2. ASSUME NEW k \in LinkIds \ {l} PROVE LinkFine(k)'
  <2>1. links'[k] = links[k] /\ trail'[k] = trail[k]
    BY DEF LinksFine
  <2> QED BY <2>1 DEF LinksFine, LinkFine, Exists, Owner
<1> QED
  BY <1>1, <1>2 DEF LinksFine

LEMMA GuardedRow ==
  ASSUME NEW old \in Link, NEW new \in Link, ~Frozen(old, new)
  PROVE  /\ Guarded(old, new) \in Link
         /\ Guarded(old, new).partner = new.partner
         /\ Guarded(old, new).linked = new.linked
         /\ Guarded(old, new).status = new.status
         /\ new.status # "pending" => Guarded(old, new).code = 0
<1>1. CASE new.status = "pending"
  BY <1>1 DEF Guarded
<1>2. CASE new.status # "pending"
  <2>1. 0 \in 0..MaxCodes
    BY LinksAssumption
  <2>2. Guarded(old, new) = [new EXCEPT !.code = 0, !.age = "over"]
    BY <1>2 DEF Guarded
  <2> QED BY <1>2, <2>1, <2>2 DEF Link
<1> QED BY <1>1, <1>2

(* An entry in the log that changes nothing of what the link says, or says *)
(* what the link has become.                                               *)
LEMMA LinkLogged ==
  ASSUME IInv, present' = present, codes' \in 0..MaxCodes,
         NEW l \in LinkIds, Exists(l), NEW new \in Link, ~Frozen(links[l], new), Update(l, new),
         new.partner = links[l].partner, new.linked \in present \cup {NoOrg},
         NEW action, NEW org \in Orgs, trail' = Logged(l, action, org),
         \/ action = "renewed" /\ new.status = links[l].status /\ new.linked = links[l].linked
         \/ action = "accepted" /\ new.status = "active" /\ new.linked = org
         \/ action = "revoked" /\ new.status = "revoked"
  PROVE  LinksFine'
<1> DEFINE entry == [action |-> action, org |-> org]
           row == Guarded(links[l], new)
<1>1. links[l] \in Link /\ trail[l] \in Seq(Trail) /\ LinkFine(l)
  BY DEF IInv, LinksFine, Exists
<1>2. entry \in Trail
  BY DEF Trail
<1>3. /\ row \in Link
      /\ row.partner = links[l].partner /\ row.linked = new.linked /\ row.status = new.status
      /\ row.status # "pending" => row.code = 0
  BY <1>1, GuardedRow
<1>4. links' = [links EXCEPT ![l] = row] /\ links'[l] = row
  BY DEF Update, IInv, LinksFine
<1>5. trail' = [trail EXCEPT ![l] = Append(trail[l], entry)] /\ trail'[l] = Append(trail[l], entry)
  BY DEF Logged, IInv, LinksFine
<1>6. Append(trail[l], entry) \in Seq(Trail)
  BY <1>1, <1>2, Appended
<1>7. LinkFine(l)'
  <2>1. /\ \A i \in DOMAIN trail[l] : i \in DOMAIN trail'[l] /\ trail'[l][i] = trail[l][i]
        /\ \E i \in DOMAIN trail'[l] : trail'[l][i] = entry
        /\ \A i \in DOMAIN trail'[l] :
             (i \in DOMAIN trail[l] /\ trail'[l][i] = trail[l][i]) \/ trail'[l][i] = entry
    <3> HIDE DEF entry
    <3> QED BY <1>1, <1>2, <1>5, Appended
  <2>2. Exists(l)' /\ links'[l] # NoLink
    BY <1>3, <1>4, LinksAssumption DEF Exists
  <2>3. Owner(l)' \in present
    BY <1>1, <1>3, <1>4 DEF Owner, LinkFine
  <2>4. links[l].status = "pending" \/ links[l].status = "active" \/ links[l].status = "revoked"
    BY <1>1 DEF Link
  <2>5. entry.action = action /\ entry.org = org
    OBVIOUS
  <2> HIDE DEF row
  <2>7. CASE action = "renewed"
    BY <1>1, <1>3, <1>4, <2>1, <2>2, <2>3, <2>4, <2>5, <2>7 DEF LinkFine
  <2>8. CASE action = "accepted"
    <3>1. links[l].status = "pending" \/ (links[l].status = "active" /\ links[l].linked = org)
      <4>1. new.status = "active" /\ new.linked = org
        BY <2>8
      <4>2. links[l].status = "active" => links[l].linked # NoOrg
        BY <1>1 DEF LinkFine
      <4> QED BY <2>4, <4>1, <4>2 DEF Frozen
    <3>2. org # NoOrg
      BY ChainAssumption
    <3> QED BY <1>1, <1>3, <1>4, <2>1, <2>2, <2>3, <2>5, <2>8, <3>1, <3>2 DEF LinkFine
  <2>9. CASE action = "revoked"
    BY <1>1, <1>3, <1>4, <2>1, <2>2, <2>3, <2>4, <2>5, <2>9 DEF LinkFine
  <2> QED BY <2>7, <2>8, <2>9
<1> HIDE DEF entry, row
<1> QED
  BY <1>3, <1>4, <1>5, <1>6, <1>7, OneLink DEF IInv

LEMMA InviteKeeps ==
  ASSUME IInv, NEW w \in Workers, NEW p \in Partners, Invite(w, p), UNCHANGED <<tradeOrders, del, seen>>
  PROVE  IInv'
<1>1. LinksFine' /\ NoticesFine' /\ EventsFine'
  BY LinksStay, NoticesStay, EventsStay DEF IInv, Invite
<1>2. ASSUME NEW op \in {"link.create", "link.renew"}, NEW l, NEW status,
             op = "link.renew" => l \in LinkIds,
             Open(w, LinkRequest(op, OwnerOf[p], p, l, status))
      PROVE  RequestsFine'
  <2> DEFINE r == LinkRequest(op, OwnerOf[p], p, l, status)
  <2>1. RequestFine(r)
    BY <1>2, LinksAssumption DEF RequestFine, LinkRequest, Ops
  <2>2. r.op # "order.create"
    BY DEF LinkRequest
  <2>3. UNCHANGED orders
    BY DEF tradeOrders
  <2> HIDE DEF r
  <2> QED BY <1>2, <2>1, <2>2, <2>3, RequestOpened DEF IInv, r
<1>3. RequestsFine'
  BY <1>2 DEF Invite, Live
<1> QED
  BY <1>1, <1>3, LinkAction DEF Invite

LEMMA AcceptOrRevokeKeeps ==
  ASSUME IInv, NEW w \in Workers, NEW org \in Orgs, NEW l \in LinkIds,
         Accept(w, org, l) \/ Revoke(w, org, l), UNCHANGED <<tradeOrders, del, seen>>
  PROVE  IInv'
<1>1. LinksFine' /\ NoticesFine' /\ EventsFine'
  BY LinksStay, NoticesStay, EventsStay DEF IInv, Accept, Revoke
<1>2. ASSUME NEW op \in {"link.accept", "link.revoke"}, NEW status,
             Open(w, LinkRequest(op, org, links[l].partner, l, status))
      PROVE  RequestsFine'
  <2> DEFINE r == LinkRequest(op, org, links[l].partner, l, status)
  <2>1. RequestFine(r)
    BY <1>2 DEF RequestFine, LinkRequest, Ops
  <2>2. r.op # "order.create"
    BY DEF LinkRequest
  <2>3. UNCHANGED orders
    BY DEF tradeOrders
  <2> HIDE DEF r
  <2> QED BY <1>2, <2>1, <2>2, <2>3, RequestOpened DEF IInv, r
<1>3. RequestsFine'
  BY <1>2 DEF Accept, Revoke
<1> QED
  BY <1>1, <1>3, LinkAction DEF Accept, Revoke

(* The requests of links leave the orders alone.                           *)
LEMMA LinkAnswered ==
  ASSUME IInv, NEW w \in Workers, Close(w), UNCHANGED orders
  PROVE  RequestsFine'
<1>1. \A q : RequestFine(q) => RequestFine(q)'
  BY DEF RequestFine, Placed
<1>2. \A x \in Workers \ {w} : req'[x] = req[x]
  BY DEF IInv, RequestsFine, Close
<1>3. \A x \in Workers \ {w} : req[x] # NoReq => RequestFine(req[x])'
  BY <1>1, <1>2 DEF IInv, RequestsFine
<1> QED
  BY <1>3, RequestClosed DEF IInv

LEMMA InsertInviteKeeps ==
  ASSUME IInv, NEW w \in Workers, InsertInvite(w), UNCHANGED <<tradeOrders, del, seen>>
  PROVE  IInv'
<1>1. RequestsFine' /\ NoticesFine' /\ EventsFine'
  BY LinkAnswered, NoticesStay, EventsStay DEF IInv, InsertInvite, tradeOrders
<1>2. CASE UNCHANGED partnerLinks
  <2>1. LinksFine'
    BY <1>2, LinksStay DEF IInv, InsertInvite
  <2> QED BY <1>1, <2>1, LinkAction DEF InsertInvite
<1>3. CASE ~UNCHANGED partnerLinks
  <2> DEFINE new == [partner |-> req[w].partner, linked |-> NoOrg, status |-> "pending",
                     code |-> codes + 1, age |-> "fresh"]
             org == req[w].org
  <2>1. RequestFine(req[w]) /\ req[w].op = "link.create"
    BY DEF InsertInvite, Serving, IInv, RequestsFine
  <2>2. PICK l \in Unused : /\ KeysHold({org}) /\ codes < MaxCodes
                            /\ links' = [links EXCEPT ![l] = new]
                            /\ codes' = codes + 1
                            /\ trail' = Logged(l, "invited", org)
    BY <1>3 DEF InsertInvite
  <2>3. l \in LinkIds /\ links[l] = NoLink /\ trail[l] = <<>>
    BY DEF Unused, IInv, LinksFine, LinkFine
  <2>4. codes' \in 0..MaxCodes /\ codes + 1 \in 0..MaxCodes
    BY <2>2, LinksAssumption DEF IInv, LinksFine
  <2>5. new \in Link
    BY <2>1, <2>4 DEF Link, RequestFine
  <2> DEFINE entry == [action |-> "invited", org |-> org]
  <2>6. entry \in Trail /\ <<>> \in Seq(Trail)
    BY <2>1 DEF Trail, RequestFine
  <2>7. /\ Append(<<>>, entry) \in Seq(Trail)
        /\ DOMAIN Append(<<>>, entry) = 1..1
        /\ Append(<<>>, entry)[1] = entry
    BY <2>6, Appended
  <2>8. trail' = [trail EXCEPT ![l] = Append(<<>>, entry)]
    BY <2>2, <2>3 DEF Logged, IInv, LinksFine
  <2>9. links'[l] = new /\ trail'[l] = Append(<<>>, entry)
    BY <2>2, <2>3, <2>8 DEF IInv, LinksFine
  <2>10. Exists(l)' /\ links'[l] # NoLink
    BY <2>5, <2>9, LinksAssumption DEF Exists
  <2>11. Owner(l)' \in present
    BY <2>1, <2>2, <2>9 DEF Owner, RequestFine, KeysHold
  <2>12. LinkFine(l)'
    <3>1. present' = present /\ entry.action = "invited"
      BY DEF InsertInvite
    <3>2. /\ links'[l].status = "pending" /\ links'[l].linked = NoOrg
      BY <2>9
    <3>3. \A i \in DOMAIN trail'[l] : trail'[l][i] = entry
      <4>1. \A i \in 1..1 : i = 1
        OBVIOUS
      <4> HIDE DEF entry
      <4> QED BY <2>7, <2>9, <4>1
    <3> HIDE DEF new, entry
    <3> QED BY <2>9, <2>10, <2>11, <3>1, <3>2, <3>3 DEF LinkFine
  <2> HIDE DEF new, entry
  <2>13. LinksFine'
    BY <2>2, <2>3, <2>4, <2>5, <2>7, <2>8, <2>12, OneLink DEF InsertInvite, IInv
  <2> QED BY <1>1, <2>13, LinkAction DEF InsertInvite
<1> QED
  BY <1>2, <1>3

LEMMA RenewInviteKeeps ==
  ASSUME IInv, NEW w \in Workers, RenewInvite(w), UNCHANGED <<tradeOrders, del, seen>>
  PROVE  IInv'
<1> DEFINE l == req[w].link
           new == [links[l] EXCEPT !.code = codes + 1, !.age = "fresh"]
<1>1. RequestsFine' /\ NoticesFine' /\ EventsFine'
  BY LinkAnswered, NoticesStay, EventsStay DEF IInv, RenewInvite, tradeOrders
<1>2. CASE UNCHANGED partnerLinks
  <2>1. LinksFine'
    BY <1>2, LinksStay DEF IInv, RenewInvite
  <2> QED BY <1>1, <2>1, LinkAction DEF RenewInvite
<1>3. CASE ~UNCHANGED partnerLinks
  <2>1. /\ Exists(l) /\ codes < MaxCodes /\ Update(l, new) /\ codes' = codes + 1
        /\ trail' = Logged(l, "renewed", req[w].org)
    BY <1>3 DEF RenewInvite
  <2>2. req[w].org \in Orgs /\ l \in LinkIds
    BY DEF RenewInvite, Serving, IInv, RequestsFine, RequestFine
  <2>3. codes' \in 0..MaxCodes /\ codes + 1 \in 0..MaxCodes
    BY <2>1, LinksAssumption DEF IInv, LinksFine
  <2>4. links[l] \in Link /\ LinkFine(l)
    BY <2>1, <2>2 DEF IInv, LinksFine, Exists
  <2>5. /\ new \in Link /\ ~Frozen(links[l], new) /\ new.partner = links[l].partner
        /\ new.status = links[l].status /\ new.linked = links[l].linked
        /\ new.linked \in present \cup {NoOrg}
    BY <2>1, <2>3, <2>4 DEF Link, Frozen, LinkFine
  <2> HIDE DEF new, l
  <2>6. LinksFine'
    BY <2>1, <2>2, <2>3, <2>5, LinkLogged DEF RenewInvite
  <2> QED BY <1>1, <2>6, LinkAction DEF RenewInvite
<1> QED BY <1>2, <1>3

LEMMA DoAcceptKeeps ==
  ASSUME IInv, NEW w \in Workers, DoAccept(w), UNCHANGED <<tradeOrders, del, seen>>
  PROVE  IInv'
<1> DEFINE l == req[w].link
           new == [links[l] EXCEPT !.status = "active"]
<1>1. RequestsFine' /\ NoticesFine' /\ codes' \in 0..MaxCodes
  BY LinkAnswered, NoticesStay DEF IInv, DoAccept, tradeOrders, LinksFine
<1>4. l \in LinkIds
  BY DEF DoAccept, Serving, IInv, RequestsFine, RequestFine
<1>2. CASE UNCHANGED partnerLinks
  <2>1. LinksFine'
    BY <1>2, LinksStay DEF IInv, DoAccept
  <2>2. EventsFine'
    <3>1. CASE UNCHANGED events
      BY <3>1, EventsStay DEF IInv
    <3>2. CASE emit(Event("link.accepted", l, req[w].org))
      BY <3>2, <1>4, LinkEventEmitted DEF IInv
    <3> QED BY <3>1, <3>2 DEF DoAccept
  <2> QED BY <1>1, <2>1, <2>2, LinkAction DEF DoAccept
<1>3. CASE ~UNCHANGED partnerLinks
  <2>1. /\ Exists(l) /\ links[l].linked = req[w].org /\ Accepted(l, new) /\ Update(l, new)
        /\ trail' = Logged(l, "accepted", req[w].org)
    BY <1>3 DEF DoAccept, partnerLinks
  <2>2. req[w].org \in Orgs /\ l \in LinkIds
    BY DEF DoAccept, Serving, IInv, RequestsFine, RequestFine
  <2>3. links[l] \in Link /\ LinkFine(l)
    BY <2>1, <2>2 DEF IInv, LinksFine, Exists
  <2>4. /\ new \in Link /\ ~Frozen(links[l], new) /\ new.partner = links[l].partner
        /\ new.status = "active" /\ new.linked = req[w].org /\ new.linked \in present \cup {NoOrg}
    BY <2>1, <2>3 DEF Link, Accepted, LinkFine
  <2>6. EventsFine'
    BY <1>3, <1>4, LinkEventEmitted DEF DoAccept, IInv, partnerLinks
  <2> HIDE DEF new, l
  <2>5. LinksFine'
    BY <1>1, <2>1, <2>2, <2>4, LinkLogged DEF DoAccept
  <2> QED BY <1>1, <2>5, <2>6, LinkAction DEF DoAccept
<1> QED BY <1>2, <1>3

LEMMA DoRevokeKeeps ==
  ASSUME IInv, NEW w \in Workers, DoRevoke(w), UNCHANGED <<tradeOrders, del, seen>>
  PROVE  IInv'
<1> DEFINE l == req[w].link
           new == [links[l] EXCEPT !.status = "revoked"]
<1>1. RequestsFine' /\ NoticesFine' /\ codes' \in 0..MaxCodes
  BY LinkAnswered, NoticesStay DEF IInv, DoRevoke, tradeOrders, LinksFine
<1>4. l \in LinkIds
  BY DEF DoRevoke, Serving, IInv, RequestsFine, RequestFine
<1>2. CASE UNCHANGED partnerLinks
  <2>1. LinksFine'
    BY <1>2, LinksStay DEF IInv, DoRevoke
  <2>2. EventsFine'
    <3>1. CASE UNCHANGED events
      BY <3>1, EventsStay DEF IInv
    <3>2. CASE emit(Event("link.revoked", l, req[w].org))
      BY <3>2, <1>4, LinkEventEmitted DEF IInv
    <3> QED BY <3>1, <3>2 DEF DoRevoke
  <2> QED BY <1>1, <2>1, <2>2, LinkAction DEF DoRevoke
<1>3. CASE ~UNCHANGED partnerLinks
  <2>1. Exists(l) /\ Update(l, new) /\ trail' = Logged(l, "revoked", req[w].org)
    BY <1>3 DEF DoRevoke, partnerLinks
  <2>2. req[w].org \in Orgs /\ l \in LinkIds
    BY DEF DoRevoke, Serving, IInv, RequestsFine, RequestFine
  <2>3. links[l] \in Link /\ LinkFine(l)
    BY <2>1, <2>2 DEF IInv, LinksFine, Exists
  <2>4. /\ new \in Link /\ ~Frozen(links[l], new) /\ new.partner = links[l].partner
        /\ new.status = "revoked" /\ new.linked \in present \cup {NoOrg}
    BY <2>1, <2>3 DEF Link, Frozen, LinkFine
  <2>6. EventsFine'
    BY <1>3, <1>4, LinkEventEmitted DEF DoRevoke, IInv, partnerLinks
  <2> HIDE DEF new, l
  <2>5. LinksFine'
    BY <1>1, <2>1, <2>2, <2>4, LinkLogged DEF DoRevoke
  <2> QED BY <1>1, <2>5, <2>6, LinkAction DEF DoRevoke
<1> QED BY <1>2, <1>3

LEMMA CodeAgesKeeps ==
  ASSUME IInv, NEW l \in LinkIds, CodeAges(l), UNCHANGED <<tradeOrders, del, seen>>
  PROVE  IInv'
<1> DEFINE new == [links[l] EXCEPT !.age = IF @ = "fresh" THEN "late" ELSE "over"]
<1>1. /\ UNCHANGED <<present, locked, req, notices, events, codes, trail, orders>> /\ Exists(l)
      /\ links' = [links EXCEPT ![l] = new]
  BY DEF CodeAges, chain, tradeOrders
<1>2. links[l] \in Link /\ LinkFine(l) /\ trail[l] \in Seq(Trail)
  BY <1>1 DEF IInv, LinksFine, Exists
<1>3. /\ new \in Link /\ new.partner = links[l].partner /\ new.code = links[l].code
      /\ new.status = links[l].status /\ new.linked = links[l].linked
  BY <1>2 DEF Link
<1> HIDE DEF new
<1>4. links'[l] = new
  BY <1>1 DEF IInv, LinksFine
<1>5. Exists(l)' /\ links'[l] # NoLink
  BY <1>3, <1>4, LinksAssumption DEF Exists
<1>6. LinkFine(l)'
  BY <1>1, <1>2, <1>3, <1>4, <1>5 DEF LinkFine, Owner
<1>7. trail' = [trail EXCEPT ![l] = trail[l]] /\ codes' \in 0..MaxCodes
  BY <1>1 DEF IInv, LinksFine
<1>8. LinksFine'
  BY <1>1, <1>2, <1>3, <1>6, <1>7, OneLink DEF IInv
<1>9. RequestsFine' /\ NoticesFine' /\ EventsFine'
  BY <1>1, RequestsStay, NoticesStay, EventsStay DEF IInv
<1> QED
  BY <1>1, <1>8, <1>9, LinkAction

LEMMA ClaimKeeps ==
  ASSUME IInv, NEW org \in Orgs, NEW code, claim(org, code), UNCHANGED <<tradeOrders, del, seen>>
  PROVE  IInv'
<1>1. RequestsFine' /\ NoticesFine' /\ codes' \in 0..MaxCodes
  BY RequestsStay, NoticesStay DEF IInv, claim, tradeOrders, LinksFine
<1>2. PICK l \in LinkIds : /\ Opens(l, org, code)
                           /\ Update(l, [links[l] EXCEPT !.linked = org, !.status = "active"])
                           /\ trail' = Logged(l, "accepted", org)
                           /\ emit(Event("link.accepted", l, org))
  BY DEF claim
<1> DEFINE new == [links[l] EXCEPT !.linked = org, !.status = "active"]
<1>3. links[l] \in Link /\ Exists(l) /\ org # NoOrg /\ org \in present
  BY <1>2, ChainAssumption DEF IInv, LinksFine, Exists, Opens, claim, Can
<1>4. /\ new \in Link /\ ~Frozen(links[l], new) /\ new.partner = links[l].partner
      /\ new.status = "active" /\ new.linked = org /\ new.linked \in present \cup {NoOrg}
  BY <1>2, <1>3 DEF Link, Frozen, Opens
<1>5. Update(l, new)
  BY <1>2
<1> HIDE DEF new
<1>6. LinksFine'
  BY <1>1, <1>2, <1>3, <1>4, <1>5, LinkLogged DEF claim
<1>7. EventsFine'
  BY <1>2, LinkEventEmitted DEF IInv
<1> QED BY <1>1, <1>6, <1>7, LinkAction DEF claim

LEMMA NotifyLinkKeeps ==
  ASSUME IInv, NotifyLink, UNCHANGED <<tradeOrders, del, seen>>
  PROVE  IInv'
<1>1. LinksFine' /\ RequestsFine'
  BY LinksStay, RequestsStay DEF IInv, NotifyLink, tradeOrders
<1>2. EventsFine'
  BY EventHandled DEF IInv, NotifyLink
<1>3. NoticesFine'
  <2>1. PICK e \in BagToSet(events) :
          LET l == e.ref
              to == IF Owner(l) = e.actor THEN links[l].linked ELSE Owner(l)
          IN  /\ e.kind \in {"link.accepted", "link.revoked"}
              /\ IF Exists(l) /\ e.actor \in {Owner(l), links[l].linked} /\ to # NoOrg
                   THEN Tell(to, l, [kind |-> e.kind, from |-> e.actor])
                   ELSE UNCHANGED notices
    BY DEF NotifyLink
  <2> DEFINE to == IF Owner(e.ref) = e.actor THEN links[e.ref].linked ELSE Owner(e.ref)
  <2>2. CASE UNCHANGED notices
    BY <2>2, NoticesStay DEF IInv, NotifyLink
  <2>3. CASE ~UNCHANGED notices
    <3>1. /\ Exists(e.ref) /\ to # NoOrg
          /\ notices' = [notices EXCEPT ![to][e.ref] = [kind |-> e.kind, from |-> e.actor]]
      BY <2>1, <2>3 DEF Tell
    <3>2. to \in present
      BY <2>1, <3>1 DEF IInv, EventsFine, LinksFine, LinkFine
    <3> QED BY <3>1, <3>2 DEF IInv, NoticesFine, NotifyLink
  <2> QED BY <2>2, <2>3
<1> QED BY <1>1, <1>2, <1>3, LinkAction DEF NotifyLink

LEMMA DiscoverKeeps ==
  ASSUME IInv, NEW org \in Orgs, discover(org), UNCHANGED <<tradeOrders, del, seen>>
  PROVE  IInv'
<1>1. /\ UNCHANGED <<chain, codes, trail>> /\ org \in present
  BY DEF discover, Can
<1>2. RequestsFine' /\ NoticesFine' /\ EventsFine'
  BY <1>1, RequestsStay, NoticesStay, EventsStay DEF IInv, chain, tradeOrders
<1> DEFINE Mine == {l \in LinkIds : /\ Exists(l) /\ links[l].status = "pending"
                                    /\ links[l].linked = NoOrg /\ Owner(l) # org
                                    /\ PhoneOf[links[l].partner] = Verified[org]}
           New  == {p \in Partners :
                      /\ OwnerOf[p] \in present \ {org} /\ PhoneOf[p] = Verified[org]
                      /\ Live(p) = {}
                      /\ \A l \in LinkIds : Exists(l) /\ links[l].partner = p => links[l].linked # org}
           Row(p) == [partner |-> p, linked |-> org, status |-> "pending", code |-> 0, age |-> "over"]
<1>3. PICK row \in [New -> Unused] :
        links' = [l \in LinkIds |->
                   IF l \in Mine THEN [links[l] EXCEPT !.linked = org]
                   ELSE IF \E p \in New : row[p] = l THEN Row(CHOOSE p \in New : row[p] = l)
                   ELSE links[l]]
  BY DEF discover
<1>4. ASSUME NEW l \in LinkIds
      PROVE  links'[l] \in Link \cup {NoLink, GoneLink} /\ LinkFine(l)'
  <2>1. LinkFine(l) /\ links[l] \in Link \cup {NoLink, GoneLink}
    BY DEF IInv, LinksFine
  <2>2. CASE l \in Mine
    <3> DEFINE new == [links[l] EXCEPT !.linked = org]
    <3>1. links'[l] = new
      BY <1>3, <2>2
    <3>2. /\ links[l] \in Link /\ Exists(l) /\ new \in Link /\ new.code = links[l].code
          /\ new.status = "pending" /\ links[l].status = "pending"
          /\ new.linked = org /\ new.partner = links[l].partner
      BY <2>1, <2>2 DEF Exists, Link
    <3> HIDE DEF new
    <3>3. links'[l] # NoLink /\ Owner(l)' = Owner(l)
      BY <3>1, <3>2, LinksAssumption DEF Owner
    <3> QED BY <1>1, <2>1, <3>1, <3>2, <3>3 DEF LinkFine, chain
  <2>3. CASE l \notin Mine /\ \E p \in New : row[p] = l
    <3>1. PICK p \in New : links'[l] = Row(p)
      <4>1. links'[l] = Row(CHOOSE p \in New : row[p] = l)
        BY <1>3, <2>3
      <4>2. (CHOOSE p \in New : row[p] = l) \in New
        BY <2>3
      <4> QED BY <4>1, <4>2
    <3>2. links[l] = NoLink /\ trail[l] = <<>>
      BY <2>1, <2>3 DEF Unused, LinkFine
    <3>3. /\ Row(p) \in Link /\ Row(p).status = "pending" /\ Row(p).code = 0
          /\ Row(p).linked = org /\ OwnerOf[Row(p).partner] \in present
      BY <3>1, LinksAssumption DEF Link
    <3> HIDE DEF Row
    <3>4. links'[l] # NoLink /\ Owner(l)' \in present
      BY <3>1, <3>3, LinksAssumption DEF Owner
    <3>5. trail'[l] = <<>> /\ DOMAIN <<>> = {}
      BY <1>1, <3>2
    <3> QED BY <1>1, <3>1, <3>3, <3>4, <3>5 DEF LinkFine, chain
  <2>4. CASE l \notin Mine /\ ~\E p \in New : row[p] = l
    <3>1. links'[l] = links[l]
      BY <1>3, <2>4
    <3> QED BY <1>1, <2>1, <3>1 DEF LinkFine, Exists, Owner, chain
  <2> QED BY <2>2, <2>3, <2>4
<1>5. \E f : links' = [l \in LinkIds |-> f[l]]
  <2>1. links' = [l \in LinkIds |-> links'[l]]
    BY <1>3
  <2> QED BY <2>1
<1> HIDE DEF Mine, New, Row
<1>6. links' \in [LinkIds -> Link \cup {NoLink, GoneLink}]
  BY <1>4, <1>5
<1>7. LinksFine'
  BY <1>1, <1>4, <1>6 DEF LinksFine, IInv
<1> QED
  BY <1>1, <1>2, <1>7, LinkAction DEF chain

LEMMA LinksNextKeeps ==
  ASSUME IInv, LinksNext, UNCHANGED <<tradeOrders, del, seen>>
  PROVE  IInv'
<1>1. ASSUME NEW w \in Workers, NEW p \in Partners, Invite(w, p) PROVE IInv'
  BY <1>1, InviteKeeps
<1>2. ASSUME NEW w \in Workers, NEW org \in Orgs, NEW l \in LinkIds,
             Accept(w, org, l) \/ Revoke(w, org, l)
      PROVE  IInv'
  BY <1>2, AcceptOrRevokeKeeps
<1>3. ASSUME NEW w \in Workers, InsertInvite(w) \/ RenewInvite(w) \/ DoAccept(w) \/ DoRevoke(w)
      PROVE  IInv'
  BY <1>3, InsertInviteKeeps, RenewInviteKeeps, DoAcceptKeeps, DoRevokeKeeps
<1>4. ASSUME NEW org \in Orgs, NEW code, claim(org, code) \/ discover(org) PROVE IInv'
  BY <1>4, ClaimKeeps, DiscoverKeeps
<1>5. ASSUME NEW l \in LinkIds, CodeAges(l) PROVE IInv'
  BY <1>5, CodeAgesKeeps
<1>6. ASSUME NotifyLink PROVE IInv'
  BY <1>6, NotifyLinkKeeps
<1> QED
  BY <1>1, <1>2, <1>3, <1>4, <1>5, <1>6 DEF LinksNext

-----------------------------------------------------------------------------
(* Orders.                                                                 *)

LEMMA OrderAction ==
  ASSUME IInv, UNCHANGED <<present, locked, partnerLinks, del, seen>>, Advance,
         OrdersFine', RequestsFine', NoticesFine', EventsFine'
  PROVE  IInv'
<1>1. LinksFine' /\ DeletionsFine'
  BY LinksStay, DeletionsStay DEF IInv
<1> QED
  BY <1>1 DEF IInv, RowsFine

LEMMA OrdersRest ==
  ASSUME UNCHANGED orders
  PROVE  Advance
BY DEF Advance, Placed

(* One order changes.                                                      *)
LEMMA OneOrder ==
  ASSUME OrdersFine, present' = present,
         NEW o \in OrderIds, NEW new \in Order, NEW entries \in Seq(Step),
         orders' = [orders EXCEPT ![o] = new], steps' = [steps EXCEPT ![o] = entries],
         SidesFine(o)', Chained(o)', ClosedByGone(o)'
  PROVE  OrdersFine'
<1>1. orders'[o] = new /\ new # NoOrder /\ new # GoneOrder
  BY OrdersAssumption DEF OrdersFine, OrdersTypeOK
<1>2. OrdersTypeOK'
  BY DEF OrdersFine, OrdersTypeOK
<1>3. ASSUME NEW p \in OrderIds \ {o}
      PROVE  /\ orders'[p] = NoOrder => steps'[p] = <<>>
             /\ Placed(p)' => SidesFine(p)' /\ Chained(p)' /\ ClosedByGone(p)'
  <2>1. orders'[p] = orders[p] /\ steps'[p] = steps[p]
    BY DEF OrdersFine, OrdersTypeOK
  <2>2. Placed(p)' => Placed(p) /\ SidesFine(p) /\ Chained(p) /\ ClosedByGone(p)
    BY <2>1 DEF OrdersFine, Placed
  <2>3. Placed(p)' => SidesFine(p)' /\ Chained(p)'
    BY <2>1, <2>2 DEF SidesFine, Chained
  <2>4. Placed(p)' => ClosedByGone(p)'
    BY <2>1, <2>2 DEF ClosedByGone
  <2> QED BY <2>1, <2>3, <2>4 DEF OrdersFine
<1> QED
  BY <1>1, <1>2, <1>3 DEF OrdersFine

(* An order that is open moves: its history goes on where it ended, and    *)
(* whoever has read it has read an older version.                          *)
LEMMA OrderMoved ==
  ASSUME IInv, present' = present, NEW o \in OrderIds, Placed(o), NEW to \in Status, NEW org \in Orgs,
         orders[o].status \in OpenStatus,
         orders' = [orders EXCEPT ![o].status = to, ![o].version = @ + 1],
         logStep(o, orders[o].status, to, org)
  PROVE  /\ OrdersFine' /\ Advance
         /\ \A q : RequestFine(q) => RequestFine(q)'
<1> DEFINE old == orders[o]
           new == [old EXCEPT !.status = to, !.version = old.version + 1]
           entry == [from |-> old.status, to |-> to, by |-> org]
<1>1. /\ old \in Order /\ steps[o] \in Seq(Step)
      /\ SidesFine(o) /\ Chained(o) /\ ClosedByGone(o)
  BY DEF IInv, OrdersFine, OrdersTypeOK, Placed
<1>2. /\ new \in Order /\ new.status = to /\ new.version = old.version + 1
      /\ old.version \in Nat \ {0}
      /\ new.seller = old.seller /\ new.buyer = old.buyer
      /\ new.sellerPartner = old.sellerPartner /\ new.buyerPartner = old.buyerPartner
  <2>1. old.version \in Nat \ {0} /\ old.version + 1 \in Nat \ {0}
    BY <1>1 DEF Order
  <2> QED BY <1>1, <2>1 DEF Order
<1>3. entry \in Step /\ entry.from = old.status /\ entry.to = to
  BY <1>1 DEF Step, Order
<1>4. orders' = [orders EXCEPT ![o] = new] /\ orders'[o] = new
  BY DEF IInv, OrdersFine, OrdersTypeOK
<1>5. steps' = [steps EXCEPT ![o] = Append(steps[o], entry)] /\ steps'[o] = Append(steps[o], entry)
  BY DEF IInv, OrdersFine, OrdersTypeOK, logStep
<1> HIDE DEF new, entry
<1>6. /\ Append(steps[o], entry) \in Seq(Step)
      /\ Len(steps[o]) \in Nat /\ Len(steps'[o]) = Len(steps[o]) + 1
      /\ \A i \in 1..Len(steps[o]) : steps'[o][i] = steps[o][i]
      /\ steps'[o][Len(steps[o]) + 1] = entry
  BY <1>1, <1>3, <1>5, Appended
<1>7. SidesFine(o)'
  BY <1>1, <1>2, <1>4 DEF SidesFine
<1>8. \A i \in 2..Len(steps'[o]) : steps'[o][i].from = steps'[o][i - 1].to
  <2>1. /\ Len(steps[o]) = old.version /\ steps[o][Len(steps[o])].to = old.status
        /\ \A i \in 2..Len(steps[o]) : steps[o][i].from = steps[o][i - 1].to
    BY <1>1 DEF Chained, ClosedByGone
  <2> SUFFICES ASSUME NEW i \in 2..Len(steps'[o]) PROVE steps'[o][i].from = steps'[o][i - 1].to
    OBVIOUS
  <2>2. i - 1 \in 1..Len(steps[o])
    BY <1>6
  <2>3. steps'[o][i - 1] = steps[o][i - 1]
    BY <1>6, <2>2
  <2>4. CASE i \in 2..Len(steps[o])
    <3>1. i \in 1..Len(steps[o])
      BY <2>4
    <3>2. steps'[o][i] = steps[o][i]
      BY <1>6, <3>1
    <3> QED BY <2>1, <2>3, <2>4, <3>2
  <2>5. CASE i = Len(steps[o]) + 1
    <3>1. i - 1 = Len(steps[o])
      BY <1>6, <2>5
    <3> QED BY <1>3, <1>6, <2>1, <2>3, <2>5, <3>1
  <2> QED BY <1>6, <2>4, <2>5
<1>9. Chained(o)' /\ ClosedByGone(o)'
  BY <1>1, <1>2, <1>3, <1>4, <1>6, <1>8 DEF Chained, ClosedByGone
<1>10. OrdersFine'
  BY <1>1, <1>2, <1>4, <1>5, <1>6, <1>7, <1>9, OneOrder DEF IInv
<1>11. /\ \A p \in OrderIds \ {o} : orders'[p] = orders[p]
       /\ new # NoOrder /\ new # GoneOrder
  BY <1>2, <1>4, OrdersAssumption DEF IInv, OrdersFine, OrdersTypeOK
<1>12. Advance
  BY <1>2, <1>4, <1>11 DEF Advance, Placed
<1>13. ASSUME NEW q, RequestFine(q) PROVE RequestFine(q)'
  <2>1. CASE q.op = "order.create"
    BY <1>11, <1>13, <2>1 DEF RequestFine, Placed
  <2>2. CASE q.op = "order.move" /\ q.order = o
    BY <1>2, <1>4, <1>11, <1>13, <2>2 DEF RequestFine, Placed
  <2>3. CASE q.op = "order.move" /\ q.order # o
    BY <1>11, <1>13, <2>3 DEF RequestFine, Placed
  <2>4. CASE q.op \notin {"order.create", "order.move"}
    BY <1>13, <2>4 DEF RequestFine
  <2> QED BY <2>1, <2>2, <2>3, <2>4
<1> QED BY <1>10, <1>12, <1>13

LEMMA CreateKeeps ==
  ASSUME IInv, NEW w \in Workers, NEW org \in Orgs, NEW o \in OrderIds, NEW other \in Orgs,
         NEW role \in {"seller", "buyer"}, Create(w, org, o, other, role), UNCHANGED <<del, seen>>
  PROVE  IInv'
<1> DEFINE seller == IF role = "seller" THEN org ELSE other
           buyer  == IF role = "seller" THEN other ELSE org
           r == [op |-> "order.create", org |-> org, order |-> o, seller |-> seller, buyer |-> buyer,
                 sellerPartner |-> Connected(buyer, seller, "supplier"),
                 buyerPartner |-> Connected(seller, buyer, "buyer")]
<1>1. OrdersFine' /\ NoticesFine' /\ EventsFine' /\ Advance
  BY OrdersStay, NoticesStay, EventsStay, OrdersRest DEF IInv, Create, tradeOrders
<1>2. Open(w, r) /\ orders[o] = NoOrder /\ org # other /\ UNCHANGED orders
  BY DEF Create, tradeOrders
<1>3. \A a, b, kind : Connected(a, b, kind) \in BOOLEAN
  BY DEF Connected
<1>4. RequestFine(r)
  BY <1>2, <1>3 DEF RequestFine, Ops
<1>5. \A x \in Workers : Serving(x, {"order.create"}) => req[x].order # r.order
  BY DEF Create
<1> HIDE DEF r
<1>6. RequestsFine'
  BY <1>2, <1>4, <1>5, RequestOpened DEF IInv
<1> QED
  BY <1>1, <1>6, OrderAction DEF Create

LEMMA MoveKeeps ==
  ASSUME IInv, NEW w \in Workers, NEW org \in Orgs, NEW o \in OrderIds, NEW step \in StepNames,
         Move(w, org, o, step), UNCHANGED <<del, seen>>
  PROVE  IInv'
<1> DEFINE r == [op |-> "order.move", org |-> org, order |-> o, step |-> step,
                 version |-> orders[o].version, status |-> orders[o].status]
<1>1. OrdersFine' /\ NoticesFine' /\ EventsFine' /\ Advance
  BY OrdersStay, NoticesStay, EventsStay, OrdersRest DEF IInv, Move, tradeOrders
<1>2. Open(w, r) /\ Placed(o) /\ UNCHANGED orders
  BY DEF Move, tradeOrders
<1>3. orders[o] \in Order /\ orders[o] # NoOrder
  BY <1>2 DEF Placed, IInv, OrdersFine, OrdersTypeOK
<1>4. RequestFine(r) /\ r.op # "order.create"
  BY <1>2, <1>3 DEF RequestFine, Ops, Order
<1> HIDE DEF r
<1>5. RequestsFine'
  BY <1>2, <1>4, RequestOpened DEF IInv
<1> QED
  BY <1>1, <1>5, OrderAction DEF Move

LEMMA UpdateOrderKeeps ==
  ASSUME IInv, NEW w \in Workers, UpdateOrder(w), UNCHANGED <<del, seen>>
  PROVE  IInv'
<1> DEFINE r == req[w]
           o == r.order
           to == Target(r.step)
<1>1. /\ RequestFine(r) /\ r.op = "order.move" /\ Close(w)
      /\ UNCHANGED <<present, locked, notices, partnerLinks>>
  BY DEF UpdateOrder, Serving, IInv, RequestsFine
<1>2. NoticesFine'
  BY <1>1, NoticesStay DEF IInv
<1>3. \A x \in Workers \ {w} : req'[x] = req[x] /\ (req[x] # NoReq => RequestFine(req[x]))
  BY <1>1 DEF Close, IInv, RequestsFine
<1>4. CASE UNCHANGED <<tradeOrders, events>>
  <2>1. UNCHANGED orders
    BY <1>4 DEF tradeOrders
  <2>2. OrdersFine' /\ EventsFine' /\ Advance /\ RequestsFine'
    BY <1>1, <1>4, <2>1, OrdersStay, EventsStay, OrdersRest, LinkAnswered DEF IInv
  <2> QED BY <1>1, <1>2, <2>2, OrderAction
<1>5. CASE /\ Counts(r) /\ Arrow(orders[o].status, to)
           /\ orders' = [orders EXCEPT ![o].status = to, ![o].version = @ + 1]
           /\ logStep(o, r.status, to, r.org)
           /\ emit(Event(to, o, r.org))
  <2>1. /\ Placed(o) /\ r.status = orders[o].status /\ o \in OrderIds /\ r.org \in Orgs
    BY <1>1, <1>5 DEF Counts, RequestFine
  <2>2. to \in Status /\ orders[o].status \in OpenStatus
    BY <1>5 DEF Target, Status, OpenStatus, Arrow
  <2> HIDE DEF to
  <2>3. /\ OrdersFine' /\ Advance
        /\ \A q : RequestFine(q) => RequestFine(q)'
    BY <1>1, <1>5, <2>1, <2>2, OrderMoved
  <2>4. \A x \in Workers \ {w} : req[x] # NoReq => RequestFine(req[x])'
    BY <1>3, <2>3
  <2>5. RequestsFine'
    BY <1>1, <2>4, RequestClosed DEF IInv
  <2>6. EventsFine'
    BY <1>5, <2>1, <2>2, OrderEventEmitted DEF IInv
  <2> QED BY <1>1, <1>2, <2>3, <2>5, <2>6, OrderAction
<1> QED
  BY <1>4, <1>5 DEF UpdateOrder

LEMMA FulfilKeeps ==
  ASSUME IInv, NEW org \in Orgs, NEW o \in OrderIds, Fulfil(org, o), UNCHANGED <<del, seen>>
  PROVE  IInv'
<1>1. "fulfilled" \in Status
  BY DEF Status
<1>2. /\ OrdersFine' /\ Advance
      /\ \A q : RequestFine(q) => RequestFine(q)'
  BY <1>1, OrderMoved DEF Fulfil
<1>3. RequestsFine'
  <2>1. \A x \in Workers : req'[x] # NoReq => RequestFine(req[x])'
    BY <1>2 DEF Fulfil, IInv, RequestsFine
  <2> QED BY <2>1 DEF Fulfil, IInv, RequestsFine, Serving
<1>4. NoticesFine' /\ EventsFine'
  BY <1>1, NoticesStay, OrderEventEmitted DEF Fulfil, IInv
<1> QED
  BY <1>2, <1>3, <1>4, OrderAction DEF Fulfil

LEMMA InsertOrderKeeps ==
  ASSUME IInv, NEW w \in Workers, InsertOrder(w), UNCHANGED <<del, seen>>
  PROVE  IInv'
<1>0. PICK r, o : r = req[w] /\ o = req[w].order
  OBVIOUS
<1> DEFINE new == [seller |-> r.seller, buyer |-> r.buyer, creator |-> r.org,
                   sellerPartner |-> r.sellerPartner, buyerPartner |-> r.buyerPartner,
                   status |-> "submitted", version |-> 1]
           entry == [from |-> "none", to |-> "submitted", by |-> r.org]
<1>1. /\ RequestFine(r) /\ r.op = "order.create" /\ Close(w) /\ ~Waits({r.seller, r.buyer})
      /\ UNCHANGED <<present, locked, notices, partnerLinks>>
  BY <1>0 DEF InsertOrder, Serving, IInv, RequestsFine
<1>2. NoticesFine'
  BY <1>1, NoticesStay DEF IInv
<1>3. \A x \in Workers \ {w} :
        /\ req'[x] = req[x]
        /\ req[x] # NoReq => RequestFine(req[x]) /\ (req[x].op = "order.create" => req[x].order # o)
  BY <1>0, <1>1 DEF Close, IInv, RequestsFine, Serving, InsertOrder
<1>4. CASE UNCHANGED <<tradeOrders, events>>
  <2>1. UNCHANGED orders
    BY <1>4 DEF tradeOrders
  <2>2. OrdersFine' /\ EventsFine' /\ Advance /\ RequestsFine'
    BY <1>1, <1>4, <2>1, OrdersStay, EventsStay, OrdersRest, LinkAnswered DEF IInv
  <2> QED BY <1>1, <1>2, <2>2, OrderAction
<1>5. CASE /\ KeysHold({r.seller, r.buyer})
           /\ orders' = [orders EXCEPT ![o] = new]
           /\ logStep(o, "none", "submitted", r.org)
           /\ emit(Event("submitted", o, r.org))
  <2>1. /\ o \in OrderIds /\ orders[o] = NoOrder /\ steps[o] = <<>>
        /\ r.seller \in present /\ r.buyer \in present /\ r.seller # r.buyer
        /\ r.seller \in Orgs /\ r.buyer \in Orgs /\ r.org \in Orgs
        /\ r.sellerPartner \in BOOLEAN /\ r.buyerPartner \in BOOLEAN
    BY <1>0, <1>1, <1>5 DEF RequestFine, KeysHold, IInv, OrdersFine
  <2>2. new \in Order
    BY <2>1 DEF Order, Status, OpenStatus
  <2>3. entry \in Step /\ <<>> \in Seq(Step) /\ Len(<<>>) = 0
    BY <2>1 DEF Step, Status, OpenStatus
  <2>4. /\ Append(<<>>, entry) \in Seq(Step) /\ Len(Append(<<>>, entry)) = 1
        /\ Append(<<>>, entry)[1] = entry
    BY <2>3, Appended
  <2>5. /\ steps' = [steps EXCEPT ![o] = Append(<<>>, entry)] /\ steps'[o] = Append(<<>>, entry)
        /\ orders'[o] = new /\ \A p \in OrderIds \ {o} : orders'[p] = orders[p]
    BY <1>5, <2>1 DEF logStep, IInv, OrdersFine, OrdersTypeOK
  <2>6. SidesFine(o)' /\ Chained(o)' /\ ClosedByGone(o)'
    <3>1. r.seller # NoOrg /\ r.buyer # NoOrg
      BY <2>1, ChainAssumption
    <3>2. \A i \in 2..1 : FALSE
      OBVIOUS
    <3>3. /\ orders'[o].seller = r.seller /\ orders'[o].buyer = r.buyer
          /\ orders'[o].version = 1 /\ orders'[o].status = "submitted"
      BY <2>5
    <3>4. Len(steps'[o]) = 1 /\ steps'[o][1].to = "submitted"
      BY <2>4, <2>5
    <3> HIDE DEF new, entry
    <3>5. SidesFine(o)'
      BY <1>1, <2>1, <3>1, <3>3 DEF SidesFine
    <3>6. Chained(o)' /\ ClosedByGone(o)'
      BY <3>2, <3>3, <3>4 DEF Chained, ClosedByGone
    <3> QED
      BY <3>5, <3>6
  <2>7. OrdersFine'
    <3> HIDE DEF new, entry
    <3> QED BY <1>1, <1>5, <2>1, <2>2, <2>4, <2>5, <2>6, OneOrder DEF IInv
  <2>8. Advance
    <3>1. Placed(o)' => Sides(o)' \cap locked = {}
      BY <1>1, <2>5 DEF Sides, Waits
    <3>2. orders'[o] # NoOrder
      BY <2>2, <2>5, OrdersAssumption
    <3> HIDE DEF new
    <3> QED BY <2>1, <2>5, <3>1, <3>2 DEF Advance, Placed
  <2>9. \A x \in Workers \ {w} : req[x] # NoReq => RequestFine(req[x])'
    <3> SUFFICES ASSUME NEW x \in Workers \ {w}, req[x] # NoReq PROVE RequestFine(req[x])'
      OBVIOUS
    <3>1. RequestFine(req[x]) /\ req'[x] = req[x]
      BY <1>3
    <3>2. req[x].op \in {"order.create", "order.move"} =>
            req[x].order \in OrderIds \ {o} /\ orders'[req[x].order] = orders[req[x].order]
      BY <1>3, <2>1, <2>5, <3>1 DEF RequestFine
    <3> QED BY <3>1, <3>2 DEF RequestFine, Placed
  <2>10. RequestsFine'
    BY <1>1, <2>9, RequestClosed DEF IInv
  <2>11. EventsFine'
    BY <1>5, <2>1, OrderEventEmitted DEF IInv, Status, OpenStatus
  <2> QED BY <1>1, <1>2, <2>7, <2>8, <2>10, <2>11, OrderAction
<1> QED
  BY <1>0, <1>4, <1>5 DEF InsertOrder

LEMMA NotifyOrderKeeps ==
  ASSUME IInv, NotifyOrder, UNCHANGED <<del, seen>>
  PROVE  IInv'
<1>1. OrdersFine' /\ RequestsFine' /\ Advance
  BY OrdersStay, RequestsStay, OrdersRest DEF IInv, NotifyOrder, tradeOrders
<1>2. EventsFine'
  BY EventHandled DEF IInv, NotifyOrder
<1>3. NoticesFine'
  <2>1. PICK e \in BagToSet(events) :
          LET to == Other(e.ref, e.actor)
          IN  /\ e.kind \in Status
              /\ IF Placed(e.ref) /\ e.actor \in Sides(e.ref) /\ to # NoOrg
                   THEN Tell(to, e.ref, Payload(e))
                   ELSE UNCHANGED notices
    BY DEF NotifyOrder
  <2> DEFINE to == Other(e.ref, e.actor)
  <2>2. CASE UNCHANGED notices
    BY <2>2, NoticesStay DEF IInv, NotifyOrder
  <2>3. CASE ~UNCHANGED notices
    <3>1. /\ Placed(e.ref) /\ to # NoOrg
          /\ notices' = [notices EXCEPT ![to][e.ref] = Payload(e)]
      BY <2>1, <2>3 DEF Tell
    <3>2. to \in present
      BY <2>1, <3>1 DEF IInv, EventsFine, OrdersFine, SidesFine, Other
    <3> QED BY <3>1, <3>2 DEF IInv, NoticesFine, NotifyOrder
  <2> QED BY <2>2, <2>3
<1> QED BY <1>1, <1>2, <1>3, OrderAction DEF NotifyOrder

LEMMA OrdersNextKeeps ==
  ASSUME IInv, OrdersNext, UNCHANGED <<del, seen>>
  PROVE  IInv'
<1>1. ASSUME NEW w \in Workers, NEW org \in Orgs, NEW other \in Orgs, NEW o \in OrderIds,
             NEW role \in {"seller", "buyer"}, Create(w, org, o, other, role)
      PROVE  IInv'
  BY <1>1, CreateKeeps
<1>2. ASSUME NEW w \in Workers, NEW org \in Orgs, NEW o \in OrderIds, NEW step \in StepNames,
             Move(w, org, o, step)
      PROVE  IInv'
  BY <1>2, MoveKeeps
<1>3. ASSUME NEW w \in Workers, InsertOrder(w) \/ UpdateOrder(w) PROVE IInv'
  BY <1>3, InsertOrderKeeps, UpdateOrderKeeps
<1>4. ASSUME NEW org \in Orgs, NEW o \in OrderIds, Fulfil(org, o) PROVE IInv'
  BY <1>4, FulfilKeeps
<1>5. ASSUME NotifyOrder PROVE IInv'
  BY <1>5, NotifyOrderKeeps
<1> QED
  BY <1>1, <1>2, <1>3, <1>4, <1>5 DEF OrdersNext

-----------------------------------------------------------------------------
(* The deletion of an account.                                             *)

LEMMA TablesStay ==
  ASSUME IInv, Untouched
  PROVE  /\ LinksFine' /\ OrdersFine' /\ RequestsFine' /\ NoticesFine' /\ EventsFine'
         /\ present' = present /\ Advance
<1>1. UNCHANGED <<present, req, events, notices, partnerLinks, tradeOrders>> /\ UNCHANGED orders
  BY DEF Untouched, tradeOrders
<1> QED
  BY <1>1, LinksStay, OrdersStay, RequestsStay, NoticesStay, EventsStay, OrdersRest DEF IInv

(* What another deletion has read stays true.                              *)
LEMMA OtherDeletion ==
  ASSUME DeletionsFine, UNCHANGED <<present, orders>>,
         NEW e \in Deleters, del[e] \in {"links", "purge"}, seen'[e] = seen[e], e \in locked'
  PROVE  seen[e] \in Seen /\ ReadFine(e)'
<1>1. seen[e] \in Seen /\ ReadFine(e)
  BY DEF DeletionsFine
<1> QED BY <1>1 DEF ReadFine, Placed, Sides, Keeps, Other

(* A deletion that reads nothing, ends or fails.                           *)
LEMMA StageMoved ==
  ASSUME IInv, Untouched, NEW d \in Deleters, NEW stage \in Stage \ {"links", "purge"}, Goto(d, stage),
         locked' \in {locked, locked \ {d}},
         \/ seen' = [seen EXCEPT ![d] = NoSeen]
         \/ UNCHANGED seen /\ del[d] \notin {"links", "purge"}
  PROVE  IInv'
<1>1. /\ del' \in [Deleters -> Stage] /\ del'[d] = stage
      /\ \A e \in Deleters \ {d} : del'[e] = del[e]
  BY DEF Goto, IInv, DeletionsFine
<1>2. /\ seen' = [e \in Deleters |-> seen'[e]] /\ seen'[d] = NoSeen
      /\ \A e \in Deleters \ {d} : seen'[e] = seen[e]
  BY DEF IInv, DeletionsFine
<1>3. UNCHANGED <<present, orders>>
  BY DEF Untouched, tradeOrders
<1>4. ASSUME NEW e \in Deleters
      PROVE  IF del'[e] \in {"links", "purge"} THEN seen'[e] \in Seen /\ ReadFine(e)'
                                              ELSE seen'[e] = NoSeen
  <2>1. CASE e = d
    BY <1>1, <1>2, <2>1
  <2>2. CASE e # d /\ del[e] \in {"links", "purge"}
    <3>1. e \in locked'
      BY <2>2 DEF IInv, DeletionsFine, ReadFine
    <3> QED BY <1>1, <1>2, <1>3, <2>2, <3>1, OtherDeletion DEF IInv
  <2>3. CASE e # d /\ del[e] \notin {"links", "purge"}
    BY <1>1, <1>2, <2>3 DEF IInv, DeletionsFine
  <2> QED BY <2>1, <2>2, <2>3
<1>5. DeletionsFine'
  BY <1>1, <1>2, <1>4 DEF DeletionsFine
<1> QED
  BY <1>5, TablesStay DEF IInv, RowsFine

LEMMA AskKeeps ==
  ASSUME IInv, NEW d \in Deleters, Ask(d) \/ RemoveFolder(d) \/ DeleteLogin(d)
  PROVE  IInv'
<1>1. /\ Untouched /\ UNCHANGED <<locked, seen>> /\ del[d] \notin {"links", "purge"}
      /\ \E stage \in Stage \ {"links", "purge"} : Goto(d, stage)
  BY DEF Ask, RemoveFolder, DeleteLogin, Stage
<1> QED BY <1>1, StageMoved

LEMMA FailureKeeps ==
  ASSUME IInv, NEW d \in Deleters, PurgeFails(d) \/ Deadlock(d) \/ DeletionFails(d)
  PROVE  IInv'
<1>1. /\ Untouched /\ Goto(d, "failed") /\ locked' = locked \ {d}
      /\ seen' = [seen EXCEPT ![d] = NoSeen] /\ "failed" \in Stage \ {"links", "purge"}
  BY DEF PurgeFails, Deadlock, DeletionFails, Rollback, Stage
<1> QED BY <1>1, StageMoved

LEMMA ReadOrdersKeeps ==
  ASSUME IInv, NEW d \in Deleters, ReadOrders(d)
  PROVE  IInv'
<1>1. CASE d \notin present
  <2>1. /\ Untouched /\ UNCHANGED <<locked, seen>> /\ del[d] \notin {"links", "purge"}
        /\ Goto(d, "login") /\ "login" \in Stage \ {"links", "purge"}
    BY <1>1 DEF ReadOrders, NothingToDo, Stage
  <2> QED BY <2>1, StageMoved
<1>2. CASE d \in present
  <2> DEFINE mine == {o \in OrderIds : Placed(o) /\ d \in Sides(o)}
             Entry(o) == [order |-> o, other |-> Other(o, d), status |-> orders[o].status,
                          open |-> orders[o].status \in OpenStatus]
             kept == {Entry(o) : o \in {x \in mine : Keeps(d, x)}}
             dropped == {o \in mine : ~Keeps(d, o)}
             read == [orders |-> kept, dropped |-> dropped, watched |-> {}, live |-> {}]
  <2>1. /\ Untouched /\ locked' = locked \cup {d} /\ Goto(d, "links") /\ del[d] = "data"
        /\ seen' = [seen EXCEPT ![d] = read]
    BY <1>2 DEF ReadOrders, LockRow
  <2>2. /\ del' \in [Deleters -> Stage] /\ del'[d] = "links"
        /\ \A e \in Deleters \ {d} : del'[e] = del[e]
    BY <2>1 DEF Goto, IInv, DeletionsFine, Stage
  <2>3. /\ seen' = [e \in Deleters |-> seen'[e]] /\ seen'[d] = read
        /\ \A e \in Deleters \ {d} : seen'[e] = seen[e]
    BY <2>1 DEF IInv, DeletionsFine
  <2>4. UNCHANGED <<present, orders>>
    BY <2>1 DEF Untouched, tradeOrders
  <2>5. ASSUME NEW o \in mine, Keeps(d, o)
        PROVE  Entry(o) \in [order: OrderIds, other: Orgs, open: BOOLEAN, status: Status]
    <3>1. orders[o] \in Order
      BY DEF IInv, OrdersFine, OrdersTypeOK, Placed
    <3>2. Other(o, d) \in Orgs
      BY <2>5 DEF Keeps, IInv, RowsFine
    <3>3. (orders[o].status \in OpenStatus) \in BOOLEAN
      OBVIOUS
    <3> QED BY <3>1, <3>2, <3>3 DEF Order
  <2>6. read \in Seen
    <3>1. kept \subseteq [order: OrderIds, other: Orgs, open: BOOLEAN, status: Status]
      BY <2>5
    <3>2. dropped \subseteq OrderIds
      OBVIOUS
    <3> HIDE DEF kept, dropped
    <3> QED BY <3>1, <3>2 DEF Seen
  <2>7. ReadFine(d)'
    <3>1. /\ d \in locked' /\ seen'[d].orders = kept /\ seen'[d].dropped = dropped
      BY <2>1, <2>3
    <3>2. ASSUME NEW o \in OrderIds, Placed(o)', d \in Sides(o)'
          PROVE  o \in dropped \/ \E k \in kept : k.order = o
      <4>1. o \in mine
        BY <2>4, <3>2 DEF Placed, Sides
      <4>2. CASE Keeps(d, o)
        <5>1. Entry(o) \in kept /\ Entry(o).order = o
          BY <4>1, <4>2
        <5> QED BY <5>1
      <4> QED BY <4>1, <4>2
    <3>3. ASSUME NEW k \in kept
          PROVE  /\ k.order \notin dropped /\ orders'[k.order] # NoOrder
                 /\ Placed(k.order)' => /\ d \in Sides(k.order)'
                                        /\ ~k.open => orders'[k.order].status \notin OpenStatus
      <4>1. PICK o \in mine : Keeps(d, o) /\ k = Entry(o)
        OBVIOUS
      <4>2. k.order = o /\ k.open = (orders[o].status \in OpenStatus)
        BY <4>1
      <4>3. o \notin dropped /\ orders[o] # NoOrder /\ d \in Sides(o)
        BY <4>1 DEF Placed
      <4> HIDE DEF mine, kept, dropped, Entry
      <4> QED BY <2>4, <4>2, <4>3 DEF Sides
    <3>4. ASSUME NEW o \in dropped
          PROVE  orders'[o] # NoOrder /\ (Placed(o)' => d \in Sides(o)' /\ ~Keeps(d, o)')
      <4>1. orders[o] # NoOrder /\ d \in Sides(o) /\ ~Keeps(d, o)
        BY <3>4 DEF Placed
      <4> QED BY <2>4, <4>1 DEF Sides, Keeps, Other
    <3> HIDE DEF kept, dropped
    <3> QED BY <3>1, <3>2, <3>3, <3>4 DEF ReadFine
  <2>8. ASSUME NEW e \in Deleters
        PROVE  IF del'[e] \in {"links", "purge"} THEN seen'[e] \in Seen /\ ReadFine(e)'
                                                ELSE seen'[e] = NoSeen
    <3> HIDE DEF read
    <3>1. CASE e = d
      BY <2>2, <2>3, <2>6, <2>7, <3>1
    <3>2. CASE e # d /\ del[e] \in {"links", "purge"}
      <4>1. e \in locked'
        BY <2>1, <3>2 DEF IInv, DeletionsFine, ReadFine
      <4> QED BY <2>2, <2>3, <2>4, <3>2, <4>1, OtherDeletion DEF IInv
    <3>3. CASE e # d /\ del[e] \notin {"links", "purge"}
      BY <2>2, <2>3, <3>3 DEF IInv, DeletionsFine
    <3> QED BY <3>1, <3>2, <3>3
  <2>9. DeletionsFine'
    BY <2>2, <2>3, <2>8 DEF DeletionsFine
  <2>10. RowsFine'
    BY <1>2, <2>1, <2>4 DEF IInv, RowsFine
  <2> QED
    BY <2>1, <2>9, <2>10, TablesStay DEF IInv
<1> QED BY <1>1, <1>2

LEMMA ReadLinksKeeps ==
  ASSUME IInv, NEW d \in Deleters, ReadLinks(d)
  PROVE  IInv'
<1> DEFINE Watch(l) == [link |-> l, to |-> links[l].linked, active |-> TRUE]
           Cut(l) == [link |-> l, to |-> Owner(l), active |-> links[l].status = "active"]
           watched == {Watch(l) : l \in {k \in LinkIds :
                         Exists(k) /\ Owner(k) = d /\ links[k].status = "active"}}
           live == {Cut(l) : l \in {k \in LinkIds :
                         Exists(k) /\ links[k].linked = d /\ links[k].status # "revoked"}}
           read == [seen[d] EXCEPT !.watched = watched, !.live = live]
<1>1. /\ Untouched /\ UNCHANGED locked /\ Goto(d, "purge") /\ del[d] = "links"
  BY DEF ReadLinks
<1>2. seen[d] \in Seen /\ ReadFine(d)
  BY <1>1 DEF IInv, DeletionsFine
<1>3. /\ del' \in [Deleters -> Stage] /\ del'[d] = "purge"
      /\ \A e \in Deleters \ {d} : del'[e] = del[e]
  BY <1>1 DEF Goto, IInv, DeletionsFine, Stage
<1>4. /\ seen' = [e \in Deleters |-> seen'[e]] /\ seen'[d] = read
      /\ \A e \in Deleters \ {d} : seen'[e] = seen[e]
  <2>1. seen' = [seen EXCEPT ![d].watched = watched, ![d].live = live]
    BY DEF ReadLinks
  <2>2. seen = [e \in Deleters |-> seen[e]]
    BY DEF IInv, DeletionsFine
  <2> HIDE DEF watched, live
  <2> QED BY <2>1, <2>2
<1>5. UNCHANGED <<present, orders>>
  BY <1>1 DEF Untouched, tradeOrders
<1>6. read \in Seen /\ read.orders = seen[d].orders /\ read.dropped = seen[d].dropped
  <2>1. ASSUME NEW l \in LinkIds, Exists(l), links[l].status = "active"
        PROVE  Watch(l) \in [link: LinkIds, to: Orgs, active: {TRUE}]
    BY <2>1 DEF IInv, RowsFine, LinksFine, LinkFine
  <2>2. ASSUME NEW l \in LinkIds, Exists(l)
        PROVE  Cut(l) \in [link: LinkIds, to: Orgs, active: BOOLEAN]
    <3>1. Owner(l) \in Orgs
      BY <2>2 DEF IInv, RowsFine, LinksFine, LinkFine
    <3>2. (links[l].status = "active") \in BOOLEAN
      OBVIOUS
    <3> QED BY <3>1, <3>2
  <2>3. watched \subseteq [link: LinkIds, to: Orgs, active: {TRUE}]
    BY <2>1
  <2>4. live \subseteq [link: LinkIds, to: Orgs, active: BOOLEAN]
    BY <2>2
  <2> HIDE DEF watched, live
  <2> QED BY <1>2, <2>3, <2>4 DEF Seen
<1>7. ReadFine(d)'
  <2> HIDE DEF read
  <2> QED BY <1>1, <1>2, <1>4, <1>5, <1>6 DEF ReadFine, Placed, Sides, Keeps, Other
<1>8. ASSUME NEW e \in Deleters
      PROVE  IF del'[e] \in {"links", "purge"} THEN seen'[e] \in Seen /\ ReadFine(e)'
                                              ELSE seen'[e] = NoSeen
  <2> HIDE DEF read
  <2>1. CASE e = d
    BY <1>3, <1>4, <1>6, <1>7, <2>1
  <2>2. CASE e # d /\ del[e] \in {"links", "purge"}
    <3>1. e \in locked'
      BY <1>1, <2>2 DEF IInv, DeletionsFine, ReadFine
    <3> QED BY <1>3, <1>4, <1>5, <2>2, <3>1, OtherDeletion DEF IInv
  <2>3. CASE e # d /\ del[e] \notin {"links", "purge"}
    BY <1>3, <1>4, <2>3 DEF IInv, DeletionsFine
  <2> QED BY <2>1, <2>2, <2>3
<1>9. DeletionsFine'
  BY <1>3, <1>4, <1>8 DEF DeletionsFine
<1> QED
  BY <1>1, <1>5, <1>9, TablesStay DEF IInv, RowsFine

LEMMA RestartKeeps ==
  ASSUME IInv, ServerRestarts
  PROVE  IInv'
<1>1. /\ req' = [w \in Workers |-> NoReq] /\ locked' = {} /\ events' = EmptyBag
      /\ UNCHANGED <<present, notices, partnerLinks, tradeOrders>>
      /\ del' = [d \in Deleters |-> IF Busy(d) THEN "failed" ELSE del[d]]
      /\ seen' = [d \in Deleters |-> NoSeen]
  BY DEF ServerRestarts, Restart
<1>2. LinksFine' /\ OrdersFine' /\ NoticesFine'
  BY <1>1, LinksStay, OrdersStay, NoticesStay DEF IInv
<1>3. RequestsFine'
  BY <1>1 DEF RequestsFine, Serving
<1>4. EventsFine'
  BY <1>1 DEF EventsFine, EmptyBag, SetToBag, BagToSet
<1>5. DeletionsFine'
  BY <1>1 DEF DeletionsFine, IInv, Busy, Stage
<1>6. RowsFine'
  BY <1>1 DEF RowsFine, IInv
<1> QED
  BY <1>2, <1>3, <1>4, <1>5, <1>6 DEF IInv

LEMMA ListenerFailsKeeps ==
  ASSUME IInv, ListenerFails, UNCHANGED <<partnerLinks, tradeOrders, del, seen>>
  PROVE  IInv'
<1>1. UNCHANGED <<present, locked, req, notices>> /\ UNCHANGED orders
  BY DEF ListenerFails, tradeOrders
<1>2. EventsFine'
  BY EventHandled DEF ListenerFails, IInv
<1> QED
  BY <1>1, <1>2, OrdersStay, RequestsStay, NoticesStay, OrdersRest, OrderAction DEF IInv

(* What the last transaction of a deletion writes.                         *)
LEMMA PurgeWrites ==
  ASSUME IInv, NEW d \in Deleters, Purge(d)
  PROVE  /\ seen[d] \in Seen /\ ReadFine(d) /\ Goes(d) /\ d \in present
         /\ present' = present \ {d} /\ locked' = locked \ {d}
         /\ \A o \in OrderIds :
              /\ o \in seen[d].dropped => orders'[o] = GoneOrder /\ orders[o] # NoOrder
              /\ o \notin seen[d].dropped /\ Placed(o) /\ d \in Sides(o) =>
                   orders'[o] = Detached(d, o) /\ orders[o] \in Order /\ Detached(d, o) \in Order
              /\ o \notin seen[d].dropped /\ ~(Placed(o) /\ d \in Sides(o)) =>
                   orders'[o] = orders[o] /\ steps'[o] = steps[o]
<1>1. del[d] = "purge" /\ Goes(d) /\ present' = present \ {d} /\ locked' = locked \ {d}
  BY DEF Purge
<1>2. seen[d] \in Seen /\ ReadFine(d) /\ d \in present
  BY <1>1 DEF IInv, DeletionsFine, ReadFine, RowsFine
<1>3. ASSUME NEW o \in OrderIds
      PROVE  orders'[o] = IF o \in seen[d].dropped THEN GoneOrder
                          ELSE IF Placed(o) /\ d \in Sides(o) THEN Detached(d, o) ELSE orders[o]
  BY DEF Purge
<1>4. ASSUME NEW o \in OrderIds, Placed(o), d \in Sides(o)
      PROVE  orders[o] \in Order /\ Detached(d, o) \in Order
  <2>1. orders[o] \in Order
    BY <1>4 DEF Placed, IInv, OrdersFine, OrdersTypeOK
  <2>2. \A org \in Orgs \cup {NoOrg} : Without(org, d) \in Orgs \cup {NoOrg}
    BY DEF Without
  <2>3. orders[o].version + 1 \in Nat \ {0}
    BY <2>1 DEF Order
  <2> DEFINE left == [orders[o] EXCEPT !.seller = Without(@, d), !.buyer = Without(@, d),
                                       !.creator = Without(@, d)]
  <2>4. left \in Order /\ left.version = orders[o].version
    BY <2>1, <2>2 DEF Order
  <2>5. "cancelled" \in Status
    BY DEF Status
  <2>6. [left EXCEPT !.status = "cancelled", !.version = left.version + 1] \in Order
    <3> HIDE DEF left
    <3> QED BY <2>3, <2>4, <2>5 DEF Order
  <2> QED BY <2>1, <2>4, <2>6 DEF Detached
<1>5. ASSUME NEW o \in OrderIds, o \notin seen[d].dropped, ~(Placed(o) /\ d \in Sides(o))
      PROVE  steps'[o] = steps[o]
  <2>1. ~\E k \in seen[d].orders : k.order = o /\ k.open
    BY <1>1, <1>2, <1>5 DEF ReadFine, Goes
  <2> QED BY <1>5, <2>1 DEF Purge
<1>6. ASSUME NEW o \in OrderIds, o \in seen[d].dropped PROVE orders[o] # NoOrder
  BY <1>2, <1>6 DEF ReadFine
<1> QED
  BY <1>1, <1>2, <1>3, <1>4, <1>5, <1>6

LEMMA PurgeLinks ==
  ASSUME IInv, NEW d \in Deleters, Purge(d)
  PROVE  LinksFine'
<1> DEFINE cut(l) == [links[l] EXCEPT !.status = "revoked", !.linked = NoOrg, !.code = 0, !.age = "over"]
<1>1. /\ present' = present \ {d} /\ codes' = codes /\ trail' = trail
      /\ links' = [l \in LinkIds |->
           IF ~Exists(l) THEN links[l]
           ELSE IF Owner(l) = d THEN GoneLink
           ELSE IF links[l].linked = d THEN cut(l) ELSE links[l]]
  BY DEF Purge
<1>2. /\ links \in [LinkIds -> Link \cup {NoLink, GoneLink}] /\ \A l \in LinkIds : LinkFine(l)
      /\ d \in present /\ d \in Orgs
  BY PurgeWrites DEF IInv, LinksFine, RowsFine
<1>3. ASSUME NEW l \in LinkIds, Exists(l)
      PROVE  links[l] \in Link /\ cut(l) \in Link /\ cut(l).partner = links[l].partner
             /\ cut(l).status = "revoked" /\ cut(l).linked = NoOrg /\ cut(l).code = 0
  <2>1. links[l] \in Link
    BY <1>2, <1>3 DEF Exists
  <2>2. 0 \in 0..MaxCodes
    BY LinksAssumption
  <2> QED BY <2>1, <2>2 DEF Link
<1> HIDE DEF cut
<1>4. links' \in [LinkIds -> Link \cup {NoLink, GoneLink}]
  BY <1>1, <1>2, <1>3
<1>5. ASSUME NEW l \in LinkIds PROVE LinkFine(l)'
  <2>1. CASE ~Exists(l)
    <3>1. links'[l] = links[l] /\ ~Exists(l)'
      BY <1>1, <2>1 DEF Exists
    <3> QED BY <1>1, <1>2, <3>1 DEF LinkFine
  <2>2. CASE Exists(l) /\ Owner(l) = d
    <3>1. links'[l] = GoneLink
      BY <1>1, <2>2
    <3> QED BY <3>1, LinksAssumption DEF LinkFine, Exists
  <2>3. CASE Exists(l) /\ Owner(l) # d /\ links[l].linked = d
    <3>1. links'[l] = cut(l)
      BY <1>1, <2>3
    <3>2. links'[l] \in Link /\ links'[l].partner = links[l].partner
          /\ links'[l].status = "revoked" /\ links'[l].linked = NoOrg /\ links'[l].code = 0
      BY <1>3, <2>3, <3>1
    <3>3. Owner(l)' \in present'
      BY <1>1, <1>2, <2>3, <3>2 DEF LinkFine, Owner
    <3> QED BY <3>2, <3>3, LinksAssumption DEF LinkFine
  <2>4. CASE Exists(l) /\ Owner(l) # d /\ links[l].linked # d
    <3>1. links'[l] = links[l]
      BY <1>1, <2>4
    <3> QED BY <1>1, <1>2, <2>4, <3>1 DEF LinkFine, Exists, Owner
  <2> QED BY <2>1, <2>2, <2>3, <2>4
<1> QED
  BY <1>1, <1>4, <1>5 DEF LinksFine, IInv

(* An order that loses d, read open or read closed.                        *)
LEMMA DetachedRow ==
  ASSUME IInv, NEW d \in Deleters, Purge(d),
         NEW o \in OrderIds, o \notin seen[d].dropped, Placed(o), d \in Sides(o)
  PROVE  /\ orders'[o] \in Order
         /\ orders'[o].seller = Without(orders[o].seller, d)
         /\ orders'[o].buyer = Without(orders[o].buyer, d)
         /\ orders'[o].sellerPartner = orders[o].sellerPartner
         /\ orders'[o].buyerPartner = orders[o].buyerPartner
         /\ orders'[o].status \notin OpenStatus
         /\ \/ /\ orders'[o].status = orders[o].status /\ orders'[o].version = orders[o].version
               /\ steps'[o] = steps[o]
            \/ /\ orders[o].status \in OpenStatus
               /\ orders'[o].status = "cancelled" /\ orders'[o].version = orders[o].version + 1
               /\ \E from \in Status :
                    steps'[o] = Append(steps[o], [from |-> from, to |-> "cancelled", by |-> d])
<1> DEFINE left == [orders[o] EXCEPT !.seller = Without(@, d), !.buyer = Without(@, d),
                                     !.creator = Without(@, d)]
           opened == \E k \in seen[d].orders : k.order = o /\ k.open
<1>1. /\ orders'[o] = Detached(d, o) /\ orders[o] \in Order /\ orders'[o] \in Order
      /\ seen[d] \in Seen /\ ReadFine(d) /\ Goes(d)
  BY PurgeWrites
<1>2. /\ left.seller = Without(orders[o].seller, d) /\ left.buyer = Without(orders[o].buyer, d)
      /\ left.sellerPartner = orders[o].sellerPartner /\ left.buyerPartner = orders[o].buyerPartner
      /\ left.status = orders[o].status /\ left.version = orders[o].version
      /\ LET gone == [left EXCEPT !.status = "cancelled", !.version = left.version + 1]
         IN  /\ gone.seller = left.seller /\ gone.buyer = left.buyer
             /\ gone.sellerPartner = left.sellerPartner /\ gone.buyerPartner = left.buyerPartner
             /\ gone.status = "cancelled" /\ gone.version = left.version + 1
  BY <1>1 DEF Order
<1>3. CASE opened
  <2>1. PICK k \in seen[d].orders : k.order = o /\ k.open
    BY <1>3
  <2>2. orders[o].status \in OpenStatus
    BY <1>1, <2>1 DEF Goes, Arrow, OpenStatus
  <2>3. orders'[o] = [left EXCEPT !.status = "cancelled", !.version = left.version + 1]
    BY <1>1, <1>3 DEF Detached
  <2>4. steps'[o] = Append(steps[o], [from |-> (CHOOSE x \in seen[d].orders : x.order = o).status,
                                      to |-> "cancelled", by |-> d])
    BY <1>3 DEF Purge
  <2>5. (CHOOSE x \in seen[d].orders : x.order = o).status \in Status
    <3>1. (CHOOSE x \in seen[d].orders : x.order = o) \in seen[d].orders
      BY <2>1
    <3> QED BY <1>1, <3>1 DEF Seen
  <2>6. "cancelled" \notin OpenStatus
    BY DEF OpenStatus
  <2> HIDE DEF left
  <2> QED BY <1>1, <1>2, <2>2, <2>3, <2>4, <2>5, <2>6
<1>4. CASE ~opened
  <2>1. orders'[o] = left
    BY <1>1, <1>4 DEF Detached
  <2>2. PICK k \in seen[d].orders : k.order = o
    BY <1>1 DEF ReadFine
  <2>3. ~k.open
    BY <1>4, <2>2
  <2>4. orders[o].status \notin OpenStatus
    BY <1>1, <2>2, <2>3 DEF ReadFine
  <2>5. steps'[o] = steps[o]
    BY <1>4 DEF Purge
  <2> HIDE DEF left
  <2> QED BY <1>1, <1>2, <2>1, <2>4, <2>5
<1> QED BY <1>3, <1>4

LEMMA PurgeOrders ==
  ASSUME IInv, NEW d \in Deleters, Purge(d)
  PROVE  OrdersFine'
<1>1. /\ d \in present /\ d \in Orgs /\ d # NoOrg /\ present' = present \ {d}
      /\ OrdersTypeOK
  BY PurgeWrites, ChainAssumption DEF IInv, RowsFine, OrdersFine
<1>2. ASSUME NEW o \in OrderIds
      PROVE  /\ orders'[o] \in Order \cup {NoOrder, GoneOrder} /\ steps'[o] \in Seq(Step)
             /\ orders'[o] = NoOrder => steps'[o] = <<>>
             /\ Placed(o)' => SidesFine(o)' /\ Chained(o)' /\ ClosedByGone(o)'
  <2>0. /\ orders[o] \in Order \cup {NoOrder, GoneOrder} /\ steps[o] \in Seq(Step)
        /\ orders[o] = NoOrder => steps[o] = <<>>
        /\ Placed(o) => SidesFine(o) /\ Chained(o) /\ ClosedByGone(o)
    BY DEF IInv, OrdersFine, OrdersTypeOK
  <2>1. CASE o \in seen[d].dropped
    <3>1. orders'[o] = GoneOrder /\ steps'[o] = <<>>
      BY <2>1 DEF Purge
    <3> QED BY <3>1, OrdersAssumption DEF Placed
  <2>2. CASE o \notin seen[d].dropped /\ ~(Placed(o) /\ d \in Sides(o))
    <3>1. orders'[o] = orders[o] /\ steps'[o] = steps[o]
      BY <2>2, PurgeWrites
    <3>2. ASSUME Placed(o)' PROVE Placed(o) /\ orders[o].seller # d /\ orders[o].buyer # d
      BY <1>1, <2>2, <3>1, <3>2 DEF Placed, Sides
    <3> QED BY <1>1, <2>0, <3>1, <3>2 DEF Placed, SidesFine, Chained, ClosedByGone
  <2>3. CASE o \notin seen[d].dropped /\ Placed(o) /\ d \in Sides(o)
    <3>1. /\ orders'[o] \in Order
          /\ orders'[o].seller = Without(orders[o].seller, d)
          /\ orders'[o].buyer = Without(orders[o].buyer, d)
          /\ orders'[o].status \notin OpenStatus
      BY <2>3, DetachedRow
    <3>2. orders'[o] \notin {NoOrder, GoneOrder}
      BY <3>1, OrdersAssumption
    <3>3. SidesFine(o)'
      BY <1>1, <2>0, <2>3, <3>1 DEF SidesFine, Without
    <3>4. ClosedByGone(o)'
      BY <3>1 DEF ClosedByGone
    <3>5. CASE orders'[o].version = orders[o].version /\ steps'[o] = steps[o]
               /\ orders'[o].status = orders[o].status
      <4>1. Chained(o)'
        BY <1>1, <2>0, <2>3, <3>5 DEF Chained
      <4> QED BY <2>0, <3>1, <3>2, <3>3, <3>4, <3>5, <4>1
    <3>6. CASE /\ orders[o].status \in OpenStatus
               /\ orders'[o].status = "cancelled" /\ orders'[o].version = orders[o].version + 1
               /\ \E from \in Status :
                    steps'[o] = Append(steps[o], [from |-> from, to |-> "cancelled", by |-> d])
      <4>1. PICK from \in Status :
              steps'[o] = Append(steps[o], [from |-> from, to |-> "cancelled", by |-> d])
        BY <3>6
      <4> DEFINE entry == [from |-> from, to |-> "cancelled", by |-> d]
      <4>2. entry \in Step /\ entry.to = "cancelled" /\ entry.by = d
        BY <1>1 DEF Step, Status
      <4>3. steps'[o] = Append(steps[o], entry)
        BY <4>1
      <4> HIDE DEF entry
      <4>4. /\ steps'[o] \in Seq(Step)
            /\ Len(steps[o]) \in Nat /\ Len(steps'[o]) = Len(steps[o]) + 1
            /\ \A i \in 1..Len(steps[o]) : steps'[o][i] = steps[o][i]
            /\ steps'[o][Len(steps[o]) + 1] = entry
        BY <2>0, <4>2, <4>3, Appended
      <4>5. /\ Len(steps[o]) = orders[o].version
            /\ \A i \in 2..Len(steps[o]) : steps[o][i].from = steps[o][i - 1].to
        BY <2>0, <2>3, <3>6 DEF Chained, ClosedByGone
      <4>6. Chained(o)'
        <5>1. Len(steps'[o]) = orders'[o].version
          BY <3>6, <4>4, <4>5
        <5>2. steps'[o][Len(steps'[o])].to = orders'[o].status
          BY <3>6, <4>2, <4>4
        <5>3. ASSUME NEW i \in 2..Len(steps'[o])
              PROVE  \/ steps'[o][i].from = steps'[o][i - 1].to
                     \/ i = Len(steps'[o]) /\ steps'[o][i].by \notin present'
          <6>1. CASE i = Len(steps[o]) + 1
            BY <1>1, <4>2, <4>4, <6>1
          <6>2. CASE i # Len(steps[o]) + 1
            <7>1. i \in 2..Len(steps[o]) /\ i - 1 \in 1..Len(steps[o]) /\ i \in 1..Len(steps[o])
              BY <4>4, <6>2
            <7> QED BY <4>4, <4>5, <7>1
          <6> QED BY <6>1, <6>2
        <5> QED BY <5>1, <5>2, <5>3 DEF Chained
      <4> QED BY <3>1, <3>2, <3>3, <3>4, <4>4, <4>6
    <3> QED BY <2>3, <3>5, <3>6, DetachedRow
  <2> QED BY <2>1, <2>2, <2>3
<1>3. OrdersTypeOK'
  <2>1. orders' = [o \in OrderIds |-> orders'[o]]
    BY DEF Purge
  <2> DEFINE after(o) ==
               IF o \in seen[d].dropped THEN <<>>
               ELSE IF \E k \in seen[d].orders : k.order = o /\ k.open
                 THEN Append(steps[o], [from |-> (CHOOSE k \in seen[d].orders : k.order = o).status,
                                        to |-> "cancelled", by |-> d])
               ELSE steps[o]
  <2>2. steps' = [o \in OrderIds |-> after(o)]
    BY DEF Purge
  <2> HIDE DEF after
  <2>3. steps' = [o \in OrderIds |-> steps'[o]]
    BY <2>2
  <2> QED BY <1>2, <2>1, <2>3 DEF OrdersTypeOK
<1> QED
  BY <1>2, <1>3 DEF OrdersFine

(* No row comes back, and no version is lowered.                           *)
LEMMA PurgeRequests ==
  ASSUME IInv, NEW d \in Deleters, Purge(d)
  PROVE  RequestsFine'
<1>1. req' = req
  BY DEF Purge
<1>2. ASSUME NEW o \in OrderIds
      PROVE  /\ orders[o] = NoOrder => orders'[o] = NoOrder
             /\ orders[o] # NoOrder => orders'[o] # NoOrder
             /\ Placed(o)' =>
                  /\ Placed(o) /\ orders[o].version \in Nat /\ orders'[o].version \in Nat
                  /\ \/ orders'[o].version = orders[o].version /\ orders'[o].status = orders[o].status
                     \/ orders'[o].version = orders[o].version + 1
  <2>0. orders[o] \in Order \cup {NoOrder, GoneOrder}
    BY DEF IInv, OrdersFine, OrdersTypeOK
  <2>1. CASE o \in seen[d].dropped
    BY <2>1, PurgeWrites, OrdersAssumption DEF Placed
  <2>2. CASE o \notin seen[d].dropped /\ ~(Placed(o) /\ d \in Sides(o))
    BY <2>0, <2>2, PurgeWrites DEF Placed, Order
  <2>3. CASE o \notin seen[d].dropped /\ Placed(o) /\ d \in Sides(o)
    <3>1. orders'[o] \in Order /\ orders[o] \in Order
      BY <2>0, <2>3, DetachedRow DEF Placed
    <3>2. \A row \in Order : row.version \in Nat
      BY DEF Order
    <3> QED BY <2>3, <3>1, <3>2, DetachedRow, OrdersAssumption DEF Placed
  <2> QED BY <2>1, <2>2, <2>3
<1>3. ASSUME NEW r, RequestFine(r) PROVE RequestFine(r)'
  <2>1. CASE r.op = "order.move"
    <3>1. r.order \in OrderIds /\ r.version \in Nat
      BY <1>3, <2>1 DEF RequestFine
    <3> QED BY <1>2, <1>3, <2>1, <3>1 DEF RequestFine
  <2>2. CASE r.op # "order.move"
    BY <1>2, <1>3, <2>2 DEF RequestFine
  <2> QED BY <2>1, <2>2
<1> QED
  BY <1>1, <1>3 DEF IInv, RequestsFine, Serving

(* What the deletion of d leaves of an order.                              *)
LEMMA PurgeRow ==
  ASSUME IInv, NEW d \in Deleters, Purge(d), NEW o \in OrderIds
  PROVE  /\ orders[o] # NoOrder => orders'[o] # NoOrder
         /\ Placed(o) /\ ~Placed(o)' => o \in seen[d].dropped
         /\ Placed(o)' =>
              /\ Placed(o)
              /\ orders'[o].seller = Without(orders[o].seller, d)
              /\ orders'[o].buyer = Without(orders[o].buyer, d)
              /\ orders'[o].sellerPartner = orders[o].sellerPartner
              /\ orders'[o].buyerPartner = orders[o].buyerPartner
              /\ \/ orders'[o].status = orders[o].status /\ orders'[o].version = orders[o].version
                 \/ orders[o].status \in OpenStatus /\ orders'[o].status \notin OpenStatus
<1>0. orders[o] \in Order \cup {NoOrder, GoneOrder} /\ d # NoOrg
  BY PurgeWrites, ChainAssumption DEF IInv, OrdersFine, OrdersTypeOK, RowsFine
<1>1. CASE o \in seen[d].dropped
  BY <1>1, PurgeWrites, OrdersAssumption DEF Placed
<1>2. CASE o \notin seen[d].dropped /\ ~(Placed(o) /\ d \in Sides(o))
  <2>1. orders'[o] = orders[o]
    BY <1>2, PurgeWrites
  <2> QED BY <1>0, <1>2, <2>1 DEF Placed, Sides, Without
<1>3. CASE o \notin seen[d].dropped /\ Placed(o) /\ d \in Sides(o)
  <2>1. orders'[o] \notin {NoOrder, GoneOrder}
    BY <1>3, DetachedRow, OrdersAssumption
  <2> QED BY <1>3, <2>1, DetachedRow DEF Placed
<1> QED BY <1>1, <1>2, <1>3

LEMMA PurgeDeletions ==
  ASSUME IInv, NEW d \in Deleters, Purge(d)
  PROVE  DeletionsFine'
<1>1. /\ del' \in [Deleters -> Stage] /\ del'[d] = "login"
      /\ \A e \in Deleters \ {d} : del'[e] = del[e]
  BY DEF Purge, Goto, IInv, DeletionsFine, Stage
<1>2. /\ seen' = [e \in Deleters |-> seen'[e]] /\ seen'[d] = NoSeen
      /\ \A e \in Deleters \ {d} : seen'[e] = seen[e]
  <2>1. seen' = [seen EXCEPT ![d] = NoSeen]
    BY DEF Purge
  <2> QED BY <2>1 DEF IInv, DeletionsFine
<1>3. present' = present \ {d} /\ locked' = locked \ {d} /\ d \in present
  BY PurgeWrites
<1>4. ASSUME NEW e \in Deleters \ {d}, del[e] \in {"links", "purge"} PROVE ReadFine(e)'
  <2>1. seen[e] \in Seen /\ ReadFine(e)
    BY <1>4 DEF IInv, DeletionsFine
  <2>2. e \in locked' /\ e \in Orgs /\ e # NoOrg
    BY <1>3, <2>1, ChainAssumption DEF ReadFine, IInv, RowsFine
  <2>3. ASSUME NEW o \in OrderIds, Placed(o)'
        PROVE  /\ Placed(o) /\ (e \in Sides(o)' <=> e \in Sides(o))
               /\ orders[o].status \notin OpenStatus => orders'[o].status \notin OpenStatus
               /\ Keeps(e, o)' => Keeps(e, o)
    <3>1. /\ Placed(o)
          /\ orders'[o].seller = Without(orders[o].seller, d)
          /\ orders'[o].buyer = Without(orders[o].buyer, d)
          /\ orders'[o].sellerPartner = orders[o].sellerPartner
          /\ orders'[o].buyerPartner = orders[o].buyerPartner
          /\ orders[o].status \notin OpenStatus => orders'[o].status \notin OpenStatus
      BY <2>3, PurgeRow
    <3>2. /\ orders'[o].seller = e <=> orders[o].seller = e
          /\ orders'[o].buyer = e <=> orders[o].buyer = e
      BY <2>2, <3>1 DEF Without
    <3> QED BY <1>3, <2>2, <3>1, <3>2 DEF Sides, Keeps, Other, Without
  <2>4. ASSUME NEW o \in OrderIds, Placed(o)', e \in Sides(o)'
        PROVE  o \in seen'[e].dropped \/ \E k \in seen'[e].orders : k.order = o
    BY <1>2, <2>1, <2>3, <2>4 DEF ReadFine
  <2>5. ASSUME NEW k \in seen'[e].orders
        PROVE  /\ k.order \notin seen'[e].dropped /\ orders'[k.order] # NoOrder
               /\ Placed(k.order)' => /\ e \in Sides(k.order)'
                                      /\ ~k.open => orders'[k.order].status \notin OpenStatus
    <3>0. k \in seen[e].orders
      BY <1>2, <2>5
    <3>1. PICK o \in OrderIds : k.order = o
      <4>1. k.order \in OrderIds
        BY <2>1, <3>0 DEF Seen
      <4> QED BY <4>1
    <3>2. /\ o \notin seen[e].dropped /\ orders[o] # NoOrder
          /\ Placed(o) => e \in Sides(o) /\ (~k.open => orders[o].status \notin OpenStatus)
      BY <1>2, <2>1, <2>5, <3>1 DEF ReadFine
    <3>3. Placed(o)' => e \in Sides(o)' /\ (~k.open => orders'[o].status \notin OpenStatus)
      BY <2>3, <3>2
    <3> QED BY <1>2, <3>1, <3>2, <3>3, PurgeRow DEF Placed, Sides
  <2>6. ASSUME NEW o \in seen'[e].dropped
        PROVE  orders'[o] # NoOrder /\ (Placed(o)' => e \in Sides(o)' /\ ~Keeps(e, o)')
    <3>1. o \in OrderIds /\ o \in seen[e].dropped
      BY <1>2, <2>1, <2>6 DEF Seen
    <3>2. orders[o] # NoOrder /\ (Placed(o) => e \in Sides(o) /\ ~Keeps(e, o))
      BY <2>1, <3>1 DEF ReadFine
    <3> QED BY <2>3, <3>1, <3>2, PurgeRow
  <2> QED BY <2>2, <2>4, <2>5, <2>6 DEF ReadFine
<1>5. ASSUME NEW e \in Deleters
      PROVE  IF del'[e] \in {"links", "purge"} THEN seen'[e] \in Seen /\ ReadFine(e)'
                                              ELSE seen'[e] = NoSeen
  <2>1. CASE e = d
    BY <1>1, <1>2, <2>1
  <2>2. CASE e # d /\ del[e] \in {"links", "purge"}
    BY <1>1, <1>2, <1>4, <2>2 DEF IInv, DeletionsFine
  <2>3. CASE e # d /\ del[e] \notin {"links", "purge"}
    BY <1>1, <1>2, <2>3 DEF IInv, DeletionsFine
  <2> QED BY <2>1, <2>2, <2>3
<1> QED
  BY <1>1, <1>2, <1>5 DEF DeletionsFine

LEMMA PurgeNotices ==
  ASSUME IInv, NEW d \in Deleters, Purge(d)
  PROVE  NoticesFine'
<1> DEFINE news(org, r) ==
             IF org = d THEN NoNotice
             ELSE IF <<org, r>> \notin Told(d) THEN notices[org][r]
             ELSE IF r \in LinkIds THEN [kind |-> "link.revoked", from |-> d]
             ELSE [status |-> "cancelled", from |-> d]
<1>1. notices' = [org \in Orgs |-> [r \in Refs |-> news(org, r)]]
  BY DEF Purge
<1>2. present' = present \ {d} /\ Listeners(d) \subseteq present
  BY PurgeWrites DEF Goes, KeysHold
<1>3. ASSUME NEW org \in Orgs \ present', NEW r \in Refs PROVE news(org, r) = NoNotice
  <2>1. CASE org = d
    BY <2>1
  <2>2. CASE org # d
    <3>1. org \notin present
      BY <1>2, <1>3, <2>2
    <3>2. <<org, r>> \notin Told(d)
      <4>1. <<org, r>> \in Told(d) => <<org, r>>[1] \in Listeners(d)
        BY DEF Listeners
      <4> QED BY <1>2, <3>1, <4>1
    <3> QED BY <2>2, <3>1, <3>2 DEF IInv, NoticesFine
  <2> QED BY <2>1, <2>2
<1> HIDE DEF news
<1> QED
  BY <1>1, <1>3 DEF NoticesFine

LEMMA PurgeKeeps ==
  ASSUME IInv, NEW d \in Deleters, Purge(d)
  PROVE  IInv'
<1>1. RowsFine'
  BY PurgeWrites DEF IInv, RowsFine
<1>2. EventsFine'
  BY EventsStay DEF Purge, IInv
<1> QED
  BY <1>1, <1>2, PurgeLinks, PurgeOrders, PurgeRequests, PurgeDeletions, PurgeNotices DEF IInv

-----------------------------------------------------------------------------
(* The invariant holds at the start, and every step keeps it.              *)

LEMMA InitFine ==
  ASSUME Init
  PROVE  IInv
<1>1. RowsFine
  BY DEF Init, ChainInit, RowsFine
<1>2. LinksFine
  <2>1. PICK start \in StartLinks : links = start
    BY DEF Init, LinksInit
  <2>2. /\ links \in [LinkIds -> Link \cup {NoLink}] /\ codes = 0 /\ present = Orgs
        /\ \A l \in LinkIds : links[l] # NoLink =>
             links[l].code = 0 /\ (links[l].status = "active" => links[l].linked # NoOrg)
    BY <2>1, LinksAssumption DEF Init, LinksInit, ChainInit
  <2>3. ASSUME NEW l \in LinkIds
        PROVE  trail[l] = IF links[l] # NoLink /\ links[l].status = "active"
                            THEN <<[action |-> "accepted", org |-> links[l].linked]>> ELSE <<>>
    BY DEF Init, LinksInit
  <2>4. ASSUME NEW l \in LinkIds PROVE trail[l] \in Seq(Trail) /\ LinkFine(l)
    <3>0. <<>> \in Seq(Trail) /\ DOMAIN <<>> = {}
      OBVIOUS
    <3>1. CASE links[l] = NoLink
      <4>1. trail[l] = <<>>
        BY <2>3, <3>1
      <4> QED BY <3>0, <3>1, <4>1 DEF LinkFine, Exists
    <3>2. CASE links[l] # NoLink
      <4>1. links[l] \in Link
        BY <2>2, <3>2
      <4>2. links[l].linked \in Orgs \cup {NoOrg} /\ Owner(l) \in Orgs
        BY <4>1, LinksAssumption DEF Link, Owner
      <4>3. CASE links[l].status = "active"
        <5> DEFINE entry == [action |-> "accepted", org |-> links[l].linked]
        <5>1. links[l].linked # NoOrg /\ links[l].linked \in Orgs
          BY <2>2, <3>2, <4>2, <4>3
        <5>2. entry \in Trail /\ entry.org = links[l].linked /\ entry.action = "accepted"
          BY <5>1 DEF Trail
        <5>3. trail[l] = <<entry>>
          BY <2>3, <3>2, <4>3
        <5>4. entry = [action |-> "accepted", org |-> links[l].linked]
          OBVIOUS
        <5> HIDE DEF entry
        <5>5. trail[l] \in Seq(Trail) /\ DOMAIN trail[l] = {1} /\ trail[l][1] = entry
          BY <5>2, <5>3
        <5> QED BY <2>2, <3>2, <4>2, <4>3, <5>1, <5>2, <5>4, <5>5 DEF LinkFine
      <4>4. CASE links[l].status # "active"
        <5>0. trail[l] = <<>>
          BY <2>3, <4>4
        <5>1. trail[l] \in Seq(Trail) /\ DOMAIN trail[l] = {}
          BY <3>0, <5>0
        <5> QED BY <2>2, <3>2, <4>2, <4>4, <5>1 DEF LinkFine
      <4> QED BY <4>3, <4>4
    <3> QED BY <3>1, <3>2
  <2>5. trail = [l \in LinkIds |-> trail[l]]
    BY DEF Init, LinksInit
  <2>6. codes \in 0..MaxCodes
    BY <2>2, LinksAssumption
  <2> QED BY <2>2, <2>4, <2>5, <2>6 DEF LinksFine
<1>3. OrdersFine
  <2>1. orders = StartOrders /\ present = Orgs
    BY DEF Init, OrdersInit, ChainInit
  <2>2. ASSUME NEW o \in OrderIds
        PROVE  /\ steps[o] \in Seq(Step) /\ orders[o] \in Order \cup {NoOrder, GoneOrder}
               /\ orders[o] = NoOrder => steps[o] = <<>>
               /\ Placed(o) => SidesFine(o) /\ Chained(o) /\ ClosedByGone(o)
    <3>1. orders[o] \in Order \cup {NoOrder}
      BY <2>1, OrdersAssumption
    <3>2. CASE orders[o] = NoOrder
      <4>1. steps[o] = <<>>
        BY <2>1, <3>2 DEF Init, OrdersInit
      <4> QED BY <3>2, <4>1 DEF Placed
    <3>3. CASE orders[o] # NoOrder
      <4> DEFINE entry == [from |-> "none", to |-> "submitted", by |-> orders[o].creator]
      <4>1. /\ orders[o].status = "submitted" /\ orders[o].version = 1
            /\ orders[o].creator \in Orgs /\ orders[o].seller \in Orgs /\ orders[o].buyer \in Orgs
            /\ orders[o].seller # orders[o].buyer
        BY <2>1, <3>3, OrdersAssumption
      <4>2. entry \in Step /\ entry.to = "submitted"
        BY <4>1 DEF Step, Status, OpenStatus
      <4>3. steps[o] = <<entry>>
        BY <2>1, <3>3 DEF Init, OrdersInit
      <4> HIDE DEF entry
      <4>4. /\ steps[o] \in Seq(Step) /\ Len(steps[o]) = 1 /\ steps[o][1] = entry
        BY <4>2, <4>3
      <4>5. \A i \in 2..1 : FALSE
        OBVIOUS
      <4>6. SidesFine(o)
        BY <2>1, <4>1, ChainAssumption DEF SidesFine
      <4>7. Chained(o) /\ ClosedByGone(o)
        BY <4>1, <4>2, <4>4, <4>5 DEF Chained, ClosedByGone
      <4> QED BY <3>1, <3>3, <4>4, <4>6, <4>7
    <3> QED BY <3>2, <3>3
  <2>3. orders \in [OrderIds -> Order \cup {NoOrder, GoneOrder}] /\ steps = [o \in OrderIds |-> steps[o]]
    BY <2>1, OrdersAssumption DEF Init, OrdersInit
  <2> QED BY <2>2, <2>3 DEF OrdersFine, OrdersTypeOK
<1>4. RequestsFine
  BY DEF Init, ChainInit, RequestsFine, Serving
<1>5. DeletionsFine
  BY DEF Init, DeletionsFine, Stage
<1>6. NoticesFine
  BY DEF Init, ChainInit, NoticesFine
<1>7. EventsFine
  BY DEF Init, ChainInit, EventsFine, EmptyBag, SetToBag, BagToSet
<1> QED
  BY <1>1, <1>2, <1>3, <1>4, <1>5, <1>6, <1>7 DEF IInv

LEMMA NextKeeps ==
  ASSUME IInv, [Next]_vars
  PROVE  IInv'
<1>1. ASSUME LinksNext, UNCHANGED <<tradeOrders, del, seen>> PROVE IInv'
  BY <1>1, LinksNextKeeps
<1>2. ASSUME OrdersNext, UNCHANGED <<del, seen>> PROVE IInv'
  BY <1>2, OrdersNextKeeps
<1>3. ASSUME ListenerFails, UNCHANGED <<partnerLinks, tradeOrders, del, seen>> PROVE IInv'
  BY <1>3, ListenerFailsKeeps
<1>4. ASSUME ServerRestarts PROVE IInv'
  BY <1>4, RestartKeeps
<1>5. ASSUME NEW d \in Deleters, Ask(d) \/ Delete(d) \/ DeletionFails(d) PROVE IInv'
  <2>1. CASE Ask(d) \/ RemoveFolder(d) \/ DeleteLogin(d)
    BY <2>1, AskKeeps
  <2>2. CASE ReadOrders(d)
    BY <2>2, ReadOrdersKeeps
  <2>3. CASE ReadLinks(d)
    BY <2>3, ReadLinksKeeps
  <2>4. CASE Purge(d)
    BY <2>4, PurgeKeeps
  <2>5. CASE PurgeFails(d) \/ Deadlock(d) \/ DeletionFails(d)
    BY <2>5, FailureKeeps
  <2> QED BY <1>5, <2>1, <2>2, <2>3, <2>4, <2>5 DEF Delete
<1>6. ASSUME UNCHANGED vars PROVE IInv'
  <2>1. UNCHANGED <<present, locked, req, events, notices, partnerLinks, tradeOrders, del, seen>>
        /\ UNCHANGED orders
    BY <1>6 DEF vars, chain, tradeOrders
  <2>2. LinksFine' /\ RequestsFine' /\ NoticesFine' /\ EventsFine'
    BY <2>1, LinksStay, RequestsStay, NoticesStay, EventsStay DEF IInv
  <2> QED BY <2>1, <2>2, LinkAction
<1> QED
  BY <1>1, <1>2, <1>3, <1>4, <1>5, <1>6 DEF Next

LEMMA Inductive == Spec => []IInv
<1> QED BY InitFine, NextKeeps, PTL DEF Spec

-----------------------------------------------------------------------------

(* The tables, the requests and the deletions have their types in every    *)
(* state, for any organisations, address books and bounds.                 *)
THEOREM TypeCorrect == Spec => []TypeOK
<1>1. IInv => TypeOK
  <2> SUFFICES ASSUME IInv PROVE TypeOK
    OBVIOUS
  <2>1. LinksTypeOK
    <3>1. ASSUME NEW l \in LinkIds, NEW i \in DOMAIN trail[l] PROVE trail[l][i] \in Trail
      BY <3>1 DEF IInv, LinksFine
    <3> QED BY <3>1 DEF LinksTypeOK, IInv, LinksFine
  <2>2. OrdersTypeOK
    BY DEF IInv, OrdersFine
  <2>3. \A w \in Workers : req[w] # NoReq => req[w].org \in Orgs
    BY DEF IInv, RequestsFine, RequestFine
  <2> QED BY <2>1, <2>2, <2>3 DEF TypeOK, IInv, RowsFine, DeletionsFine
<1> QED BY <1>1, Inductive, PTL

(* What both sides agreed to is all a link ever gives: a code only while   *)
(* it waits, and an active link only to whom accepted it.                  *)
THEOREM LinksAreAgreed == Spec => []LinkAgreed
<1>1. IInv => LinkAgreed
  BY DEF IInv, LinksFine, LinkFine, LinkAgreed, CodeOnlyWhilePending, ActiveIsAgreed
<1> QED BY <1>1, Inductive, PTL

(* However the moves of two organisations, receipts and deletions overlap, *)
(* the history of an order is a chain that leads to it, and an order that  *)
(* is open has both sides.                                                 *)
THEOREM OrdersAreSound == Spec => []OrdersSound
<1>1. IInv => HistoryIsChain
  BY DEF IInv, OrdersFine, Chained, HistoryIsChain
<1>2. IInv => NoOpenOrderWithoutSide
  <2> SUFFICES ASSUME IInv, NEW o \in OrderIds, Placed(o), orders[o].status \in OpenStatus
               PROVE  \E a, b \in Orgs : a # b /\ Sides(o) = {a, b}
    BY DEF NoOpenOrderWithoutSide, BothSides
  <2>1. PICK a, b : a = orders[o].seller /\ b = orders[o].buyer
    OBVIOUS
  <2>2. a \in Orgs /\ b \in Orgs /\ a # NoOrg /\ b # NoOrg /\ a # b
    BY <2>1 DEF IInv, OrdersFine, SidesFine, RowsFine
  <2>3. Sides(o) = {a, b}
    BY <2>1, <2>2 DEF Sides
  <2> QED BY <2>2, <2>3
<1> QED BY <1>1, <1>2, Inductive, PTL DEF OrdersSound

(* Once its account is deleted an organisation is named by no order, link  *)
(* or notification, whatever was being written meanwhile.                  *)
THEOREM NothingIsLeft == Spec => []NothingLeft
<1>1. IInv => NothingLeft
  <2> SUFFICES ASSUME IInv PROVE NothingLeft
    OBVIOUS
  <2>1. \A o \in OrderIds : Placed(o) => Sides(o) \subseteq present
    BY DEF IInv, OrdersFine, SidesFine, Sides
  <2> QED BY <2>1 DEF IInv, LinksFine, LinkFine, NoticesFine, NothingLeft
<1> QED BY <1>1, Inductive, PTL

(* What a step that is not the last one of a deletion does to an order.    *)
LEMMA OrderSteps ==
  ASSUME IInv, Next, ~\E d \in Deleters : Purge(d), NEW o \in OrderIds, Placed(o)
  PROVE  /\ present' = present
         /\ \/ orders'[o] = orders[o]
            \/ /\ orders[o].status \in OpenStatus /\ Placed(o)'
               /\ orders'[o].seller = orders[o].seller /\ orders'[o].buyer = orders[o].buyer
<1> DEFINE Goal == /\ present' = present
                   /\ \/ orders'[o] = orders[o]
                      \/ /\ orders[o].status \in OpenStatus /\ Placed(o)'
                         /\ orders'[o].seller = orders[o].seller /\ orders'[o].buyer = orders[o].buyer
<1>0. orders \in [OrderIds -> Order \cup {NoOrder, GoneOrder}] /\ orders[o] \in Order
  BY DEF IInv, OrdersFine, OrdersTypeOK, Placed
<1>1. ASSUME NEW p \in OrderIds, NEW to \in Status, Placed(p), orders[p].status \in OpenStatus,
             present' = present,
             orders' = [orders EXCEPT ![p].status = to, ![p].version = @ + 1]
      PROVE  Goal
  <2>1. CASE p # o
    BY <1>0, <1>1, <2>1
  <2>2. CASE p = o
    <3>1. orders'[o] = [orders[o] EXCEPT !.status = to, !.version = orders[o].version + 1]
      BY <1>0, <1>1, <2>2
    <3>2. orders[o].version + 1 \in Nat \ {0}
      BY <1>0 DEF Order
    <3>3. /\ orders'[o].seller = orders[o].seller /\ orders'[o].buyer = orders[o].buyer
          /\ orders'[o] \in Order
      BY <1>0, <1>1, <3>1, <3>2 DEF Order
    <3>4. Placed(o)'
      BY <3>3, OrdersAssumption DEF Placed
    <3> QED BY <1>1, <2>2, <3>3, <3>4
  <2> QED BY <2>1, <2>2
<1>2. CASE LinksNext /\ UNCHANGED <<tradeOrders, del, seen>>
  <2>1. present' = present
    BY <1>2 DEF LinksNext, Invite, Accept, Revoke, InsertInvite, RenewInvite, DoAccept, DoRevoke,
       claim, discover, CodeAges, NotifyLink, chain
  <2> QED BY <1>2, <2>1 DEF tradeOrders
<1>3. CASE OrdersNext /\ UNCHANGED <<del, seen>>
  <2>1. ASSUME NEW w \in Workers, NEW org \in Orgs, NEW p \in OrderIds,
               \/ \E other \in Orgs, role \in {"seller", "buyer"} : Create(w, org, p, other, role)
               \/ \E step \in StepNames : Move(w, org, p, step)
        PROVE  Goal
    BY <2>1 DEF Create, Move, tradeOrders
  <2>2. ASSUME NEW w \in Workers, InsertOrder(w) PROVE Goal
    <3>1. present' = present /\ (UNCHANGED tradeOrders \/ (req[w].order # o => orders'[o] = orders[o]))
      BY <1>0, <2>2 DEF InsertOrder
    <3>2. req[w].order # o
      BY <2>2 DEF InsertOrder, Serving, IInv, RequestsFine, RequestFine, Placed
    <3> QED BY <3>1, <3>2 DEF tradeOrders
  <2>3. ASSUME NEW w \in Workers, UpdateOrder(w) PROVE Goal
    <3>1. PICK r, p, to : r = req[w] /\ p = r.order /\ to = Target(r.step)
      OBVIOUS
    <3>2. RequestFine(r) /\ r.op = "order.move" /\ p \in OrderIds /\ present' = present
      BY <2>3, <3>1 DEF UpdateOrder, Serving, IInv, RequestsFine, RequestFine
    <3>3. CASE UNCHANGED tradeOrders
      BY <3>2, <3>3 DEF tradeOrders
    <3>4. CASE /\ Counts(r) /\ Arrow(orders[p].status, to)
               /\ orders' = [orders EXCEPT ![p].status = to, ![p].version = @ + 1]
      <4>1. Placed(p) /\ orders[p].status \in OpenStatus /\ to \in Status
        BY <3>1, <3>4 DEF Counts, Arrow, OpenStatus, Status, Target
      <4> QED BY <1>1, <3>2, <3>4, <4>1
    <3> QED BY <2>3, <3>1, <3>3, <3>4 DEF UpdateOrder
  <2>4. ASSUME NEW org \in Orgs, NEW p \in OrderIds, Fulfil(org, p) PROVE Goal
    <3>1. "fulfilled" \in Status
      BY DEF Status
    <3> QED BY <1>1, <2>4, <3>1 DEF Fulfil
  <2>5. ASSUME NotifyOrder PROVE Goal
    BY <2>5 DEF NotifyOrder, tradeOrders
  <2> QED BY <1>3, <2>1, <2>2, <2>3, <2>4, <2>5 DEF OrdersNext
<1>4. CASE ListenerFails /\ UNCHANGED <<partnerLinks, tradeOrders, del, seen>>
  BY <1>4 DEF ListenerFails, tradeOrders
<1>5. CASE ServerRestarts
  BY <1>5 DEF ServerRestarts, Restart, tradeOrders
<1>6. ASSUME NEW d \in Deleters, Ask(d) \/ Delete(d) \/ DeletionFails(d) PROVE Goal
  BY <1>6 DEF Ask, Delete, DeletionFails, RemoveFolder, ReadOrders, ReadLinks, PurgeFails, Deadlock,
     DeleteLogin, Untouched, tradeOrders
<1> QED BY <1>2, <1>3, <1>4, <1>5, <1>6 DEF Next

(* The other side keeps its book and its orders through a deletion, and an *)
(* order that is over is never given another end.                          *)
THEOREM RecordsAreKept == Spec => RecordsKept
<1> DEFINE Kept ==
      \A o \in OrderIds : Placed(o) =>
        /\ ~Placed(o)' =>
             \E d \in Sides(o) : d \notin present' /\
               (Other(o, d) \in present' \cap HasBook =>
                  ~(IF orders[o].seller = d THEN orders[o].sellerPartner ELSE orders[o].buyerPartner))
        /\ Placed(o)' => Sides(o) \cap present' \subseteq Sides(o)'
           Final ==
      \A o \in OrderIds :
        Placed(o) /\ orders[o].status \in {"fulfilled", "cancelled"} /\ Placed(o)' =>
          orders[o]'.status = orders[o].status /\ orders[o]'.version = orders[o].version
<1>1. ASSUME IInv, Next, NEW o \in OrderIds, Placed(o), ~\E d \in Deleters : Purge(d)
      PROVE  /\ Placed(o)' /\ Sides(o)' = Sides(o)
             /\ orders[o].status \in {"fulfilled", "cancelled"} => orders'[o] = orders[o]
  BY <1>1, OrderSteps DEF Placed, Sides, OpenStatus
<1>2. ASSUME IInv, NEW o \in OrderIds, Placed(o), NEW d \in Deleters, Purge(d)
      PROVE  /\ ~Placed(o)' => d \in Sides(o) /\ d \notin present' /\ ~Keeps(d, o)
             /\ Placed(o)' =>
                  /\ Sides(o) \cap present' \subseteq Sides(o)'
                  /\ orders[o].status \notin OpenStatus =>
                       orders'[o].status = orders[o].status /\ orders'[o].version = orders[o].version
  BY <1>2, PurgeRow, PurgeWrites DEF ReadFine, Sides, Without
<1>3. ASSUME IInv, Next PROVE Kept
  <2>1. CASE ~\E d \in Deleters : Purge(d)
    BY <1>1, <1>3, <2>1
  <2>2. ASSUME NEW d \in Deleters, Purge(d) PROVE Kept
    <3>1. present' \subseteq present /\ NoOrg \notin present
      BY <1>3, <2>2, PurgeWrites, ChainAssumption DEF IInv, RowsFine
    <3> QED BY <1>2, <1>3, <2>2, <3>1 DEF Keeps
  <2> QED BY <2>1, <2>2
<1>4. ASSUME IInv, Next PROVE Final
  <2>1. CASE ~\E d \in Deleters : Purge(d)
    BY <1>1, <1>4, <2>1
  <2>2. ASSUME NEW d \in Deleters, Purge(d) PROVE Final
    BY <1>2, <1>4, <2>2 DEF OpenStatus
  <2> QED BY <2>1, <2>2
<1>5. IInv /\ [Next]_vars => [Kept]_vars /\ [Final]_vars
  BY <1>3, <1>4
<1> QED BY <1>5, Inductive, PTL DEF RecordsKept, BookKept, FinalIsFinal, Spec

-----------------------------------------------------------------------------
(* What the other side has heard of an order.  While both sides are there, *)
(* the last step is of one of them, and either its event waits or the      *)
(* other one has the order as it is (unless an event about it was lost).   *)

Both(o) ==
  /\ Placed(o)
  /\ orders[o].seller # NoOrg /\ orders[o].buyer # NoOrg /\ orders[o].seller # orders[o].buyer

LastBy(o) == steps[o][Len(steps[o])].by

Heard(o) ==
  /\ LastBy(o) \in Sides(o)
  /\ o \notin lost =>
       \/ \E e \in BagToSet(events) : e.ref = o /\ e.kind \in Status /\ e.actor = LastBy(o)
       \/ /\ notices[Other(o, LastBy(o))][o] # NoNotice
          /\ notices[Other(o, LastBy(o))][o].status = orders[o].status

NoticesMade == notices = [org \in Orgs |-> [r \in Refs |-> notices[org][r]]]

AskedBySide ==
  \A w \in Workers : Serving(w, {"order.create"}) => req[w].org \in {req[w].seller, req[w].buyer}

AllHeard == \A o \in OrderIds : Both(o) => Heard(o)

Hearing == NoticesMade /\ AskedBySide /\ AllHeard

(* The event of the last step waits on, or it is known to be lost.         *)
NewsKept(o) ==
  /\ lost \subseteq lost'
  /\ \A e \in BagToSet(events) :
       e.ref = o /\ e.kind \in Status /\ e.actor = LastBy(o) =>
         e \in BagToSet(events)' \/ o \in lost'

LEMMA SidesOfBoth ==
  ASSUME IInv, NEW o \in OrderIds, Both(o), NEW org \in Sides(o)
  PROVE  /\ Other(o, org) \in Sides(o) /\ Other(o, org) # org /\ Other(o, org) # NoOrg
         /\ Other(o, org) \in Orgs
         /\ \A x \in Sides(o) : x # org => Other(o, x) = org
BY DEF Both, Sides, Other, IInv, OrdersFine, SidesFine, RowsFine

(* A row that nobody touches says what it said.                            *)
LEMMA HeardStays ==
  ASSUME IInv, NEW o \in OrderIds, Both(o) => Heard(o),
         orders'[o] = orders[o], steps'[o] = steps[o], NewsKept(o),
         Both(o) => notices'[Other(o, LastBy(o))][o] = notices[Other(o, LastBy(o))][o]
  PROVE  (Both(o) => Heard(o))'
<1> SUFFICES ASSUME Both(o)' PROVE Heard(o)'
  OBVIOUS
<1>1. Both(o) /\ Heard(o) /\ Sides(o)' = Sides(o) /\ LastBy(o)' = LastBy(o)
  BY DEF Both, Placed, Sides, LastBy
<1>2. PICK to : to = Other(o, LastBy(o))
  OBVIOUS
<1>3. to \in Sides(o) /\ to = Other(o, LastBy(o))'
  BY <1>1, <1>2, SidesOfBoth DEF Heard, Other
<1>4. notices'[to][o] = notices[to][o]
  BY <1>1, <1>2
<1>5. SUFFICES ASSUME o \notin lost'
               PROVE  \/ \E e \in BagToSet(events)' : e.ref = o /\ e.kind \in Status /\ e.actor = LastBy(o)
                      \/ notices[to][o] # NoNotice /\ notices[to][o].status = orders[o].status
  BY <1>1, <1>3, <1>4 DEF Heard
<1> QED BY <1>1, <1>2, <1>5 DEF Heard, NewsKept

LEMMA QuietStep ==
  ASSUME IInv, Hearing, UNCHANGED <<tradeOrders, notices>>, AskedBySide',
         \A o \in OrderIds : NewsKept(o)
  PROVE  Hearing'
<1>1. ASSUME NEW o \in OrderIds PROVE (Both(o) => Heard(o))'
  BY HeardStays DEF Hearing, AllHeard, tradeOrders
<1>2. NoticesMade'
  BY DEF Hearing, NoticesMade
<1> QED BY <1>1, <1>2 DEF Hearing, AllHeard

(* What the steps do to events and requests.                               *)
LEMMA EventsSame ==
  ASSUME UNCHANGED <<events, lost>>
  PROVE  \A o : NewsKept(o)
BY DEF NewsKept

LEMMA EventAdded ==
  ASSUME NEW e, emit(e), UNCHANGED lost
  PROVE  e \in BagToSet(events)' /\ \A o : NewsKept(o)
BY DEF NewsKept, emit, BagAdd, BagToSet

LEMMA EventTaken ==
  ASSUME NEW e, events' = BagRemove(events, e)
  PROVE  \A x \in BagToSet(events) : x # e => x \in BagToSet(events)'
BY DEF BagRemove, BagToSet

LEMMA AskedSame ==
  ASSUME AskedBySide, UNCHANGED req
  PROVE  AskedBySide'
BY DEF AskedBySide, Serving

LEMMA AskedClosed ==
  ASSUME IInv, AskedBySide, NEW w \in Workers, Close(w)
  PROVE  AskedBySide'
BY DEF AskedBySide, Serving, Close, IInv, RequestsFine

LEMMA AskedOpened ==
  ASSUME IInv, AskedBySide, NEW w \in Workers, NEW r, Open(w, r),
         r.op = "order.create" => r.org \in {r.seller, r.buyer}
  PROVE  AskedBySide'
BY DEF AskedBySide, Serving, Open, IInv, RequestsFine

LEMMA NoticeTold ==
  ASSUME NoticesMade, NEW to \in Orgs, NEW r \in Refs, NEW n, Tell(to, r, n)
  PROVE  /\ NoticesMade' /\ notices'[to][r] = n
         /\ \A org \in Orgs, x \in Refs : org # to \/ x # r => notices'[org][x] = notices[org][x]
<1> DEFINE was == notices
<1>1. was = [org \in Orgs |-> [x \in Refs |-> was[org][x]]]
  BY DEF NoticesMade
<1>2. notices' = [was EXCEPT ![to] = [was[to] EXCEPT ![r] = n]]
  BY DEF Tell
<1> HIDE DEF was
<1>3. /\ DOMAIN was = Orgs /\ \A org \in Orgs : was[org] = [x \in Refs |-> was[org][x]]
      /\ notices' = [org \in Orgs |-> IF org = to THEN [was[to] EXCEPT ![r] = n] ELSE was[org]]
  BY <1>1, <1>2
<1>4. notices'[to] = [x \in Refs |-> IF x = r THEN n ELSE was[to][x]]
  BY <1>3
<1>5. \A org \in Orgs \ {to} : notices'[org] = was[org]
  BY <1>3
<1>6. \A org \in Orgs : notices'[org] = [x \in Refs |-> notices'[org][x]]
  BY <1>3, <1>4, <1>5
<1>7. NoticesMade'
  BY <1>3, <1>6 DEF NoticesMade
<1>8. \A org \in Orgs, x \in Refs : org # to \/ x # r => notices'[org][x] = was[org][x]
  BY <1>3, <1>4, <1>5
<1> QED BY <1>4, <1>7, <1>8 DEF was

(* Links never speak of an order.                                          *)
LEMMA NotifyLinkHeard ==
  ASSUME IInv, Hearing, NotifyLink, UNCHANGED <<tradeOrders, del, seen>>
  PROVE  Hearing'
<1>1. PICK e \in BagToSet(events) :
        LET l == e.ref
            to == IF Owner(l) = e.actor THEN links[l].linked ELSE Owner(l)
        IN  /\ e.kind \in {"link.accepted", "link.revoked"}
            /\ events' = BagRemove(events, e)
            /\ IF Exists(l) /\ e.actor \in {Owner(l), links[l].linked} /\ to # NoOrg
                 THEN Tell(to, l, [kind |-> e.kind, from |-> e.actor])
                 ELSE UNCHANGED notices
  BY DEF NotifyLink
<1>2. e.ref \in LinkIds /\ e.kind \notin Status
  BY <1>1 DEF IInv, EventsFine, Status, OpenStatus
<1>3. \A o \in OrderIds : NewsKept(o)
  BY <1>1, <1>2, EventTaken DEF NewsKept, NotifyLink
<1>4. AskedBySide'
  BY AskedSame DEF Hearing, NotifyLink
<1>5. CASE UNCHANGED notices
  BY <1>3, <1>4, <1>5, QuietStep
<1>6. CASE ~UNCHANGED notices
  <2>1. PICK to : to = IF Owner(e.ref) = e.actor THEN links[e.ref].linked ELSE Owner(e.ref)
    OBVIOUS
  <2>2. Exists(e.ref) /\ to # NoOrg /\ Tell(to, e.ref, [kind |-> e.kind, from |-> e.actor])
    BY <1>1, <1>6, <2>1
  <2>3. to \in Orgs /\ e.ref \in Refs /\ e.ref \notin OrderIds /\ OrderIds \subseteq Refs
    BY <1>2, <2>1, <2>2, LinksAssumption, OrdersAssumption DEF IInv, LinksFine, LinkFine, RowsFine
  <2>4. /\ NoticesMade'
        /\ \A org \in Orgs, o \in OrderIds : notices'[org][o] = notices[org][o]
    BY <2>2, <2>3, NoticeTold DEF Hearing
  <2>5. ASSUME NEW o \in OrderIds PROVE (Both(o) => Heard(o))'
    <3>1. Both(o) => Other(o, LastBy(o)) \in Orgs
      BY SidesOfBoth DEF Hearing, AllHeard, Heard
    <3> QED BY <1>3, <2>4, <3>1, HeardStays DEF Hearing, AllHeard, tradeOrders
  <2> QED BY <1>4, <2>4, <2>5 DEF Hearing, AllHeard
<1> QED BY <1>5, <1>6

LEMMA LinksNextHeard ==
  ASSUME IInv, Hearing, LinksNext, UNCHANGED <<tradeOrders, del, seen>>
  PROVE  Hearing'
<1>0. AskedBySide
  BY DEF Hearing
<1>1. ASSUME NEW w \in Workers, NEW r, Open(w, r), r.op # "order.create",
             UNCHANGED <<notices, events, lost>>
      PROVE  Hearing'
  BY <1>0, <1>1, AskedOpened, EventsSame, QuietStep
<1>2. \A op, org, p, l, status : LinkRequest(op, org, p, l, status).op = op
  BY DEF LinkRequest
<1>3. ASSUME NEW w \in Workers, NEW p \in Partners, Invite(w, p) PROVE Hearing'
  BY <1>1, <1>2, <1>3 DEF Invite
<1>4. ASSUME NEW w \in Workers, NEW org \in Orgs, NEW l \in LinkIds, Accept(w, org, l) \/ Revoke(w, org, l)
      PROVE  Hearing'
  BY <1>1, <1>2, <1>4 DEF Accept, Revoke
<1>5. ASSUME NEW w \in Workers, InsertInvite(w) \/ RenewInvite(w) \/ DoAccept(w) \/ DoRevoke(w)
      PROVE  Hearing'
  <2>1. Close(w) /\ UNCHANGED <<notices, lost>>
    BY <1>5 DEF InsertInvite, RenewInvite, DoAccept, DoRevoke
  <2>2. UNCHANGED events \/ \E kind, l, org : emit(Event(kind, l, org))
    BY <1>5 DEF InsertInvite, RenewInvite, DoAccept, DoRevoke
  <2>3. \A o \in OrderIds : NewsKept(o)
    BY <2>1, <2>2, EventsSame, EventAdded
  <2> QED BY <1>0, <2>1, <2>3, AskedClosed, QuietStep
<1>6. ASSUME NEW org \in Orgs, NEW code \in 1..MaxCodes, claim(org, code) PROVE Hearing'
  <2>1. UNCHANGED <<req, notices, lost>> /\ \E l \in LinkIds : emit(Event("link.accepted", l, org))
    BY <1>6 DEF claim
  <2> QED BY <1>0, <2>1, EventAdded, AskedSame, QuietStep
<1>7. ASSUME (\E org \in Orgs : discover(org)) \/ (\E l \in LinkIds : CodeAges(l)) PROVE Hearing'
  <2>1. UNCHANGED <<req, events, notices, lost>>
    BY <1>7 DEF discover, CodeAges, chain
  <2> QED BY <1>0, <2>1, EventsSame, AskedSame, QuietStep
<1> QED
  BY <1>3, <1>4, <1>5, <1>6, <1>7, NotifyLinkHeard DEF LinksNext

(* A side takes a step: the step is in the history, and its event waits.   *)
LEMMA StepHeard ==
  ASSUME IInv, Hearing, AskedBySide', UNCHANGED <<notices, lost>>,
         NEW o \in OrderIds, NEW org \in Orgs, org \in Sides(o)',
         \A p \in OrderIds \ {o} : orders'[p] = orders[p],
         NEW from \in Status \cup {"none"}, NEW to \in Status, logStep(o, from, to, org),
         emit(Event(to, o, org))
  PROVE  Hearing'
<1> DEFINE entry == [from |-> from, to |-> to, by |-> org]
<1>1. /\ \A p \in OrderIds : steps[p] \in Seq(Step)
      /\ steps' = [steps EXCEPT ![o] = Append(steps[o], entry)]
      /\ steps'[o] = Append(steps[o], entry)
      /\ \A p \in OrderIds \ {o} : steps'[p] = steps[p]
  BY DEF logStep, IInv, OrdersFine, OrdersTypeOK
<1>2. entry \in Step /\ entry.by = org
  BY DEF Step
<1> HIDE DEF entry
<1>3. LastBy(o)' = org
  BY <1>1, <1>2, Appended DEF LastBy
<1>4. /\ Event(to, o, org) \in BagToSet(events)' /\ \A p : NewsKept(p)
      /\ Event(to, o, org).ref = o /\ Event(to, o, org).kind = to /\ Event(to, o, org).actor = org
  BY EventAdded DEF Event
<1>5. Heard(o)'
  BY <1>3, <1>4 DEF Heard
<1>6. ASSUME NEW p \in OrderIds \ {o} PROVE (Both(p) => Heard(p))'
  BY <1>1, <1>4, HeardStays DEF Hearing, AllHeard
<1>7. NoticesMade'
  BY DEF Hearing, NoticesMade
<1> QED BY <1>5, <1>6, <1>7 DEF Hearing, AllHeard

LEMMA UpdateOrderHeard ==
  ASSUME IInv, Hearing, NEW w \in Workers, UpdateOrder(w)
  PROVE  Hearing'
<1>1. PICK r, o, to : r = req[w] /\ o = r.order /\ to = Target(r.step)
  OBVIOUS
<1>2. /\ RequestFine(r) /\ r.op = "order.move" /\ o \in OrderIds /\ r.org \in Orgs
      /\ r.status \in Status /\ to \in Status
      /\ UNCHANGED <<notices, lost>>
  BY <1>1 DEF UpdateOrder, Serving, IInv, RequestsFine, RequestFine, Target, Status, OpenStatus
<1>3. AskedBySide'
  BY AskedClosed DEF UpdateOrder, Hearing
<1>4. CASE UNCHANGED <<tradeOrders, events>>
  BY <1>2, <1>3, <1>4, EventsSame, QuietStep
<1>5. CASE /\ Counts(r)
           /\ orders' = [orders EXCEPT ![o].status = to, ![o].version = @ + 1]
           /\ logStep(o, r.status, to, r.org)
           /\ emit(Event(to, o, r.org))
  <2>1. orders \in [OrderIds -> Order \cup {NoOrder, GoneOrder}] /\ orders[o] \in Order /\ r.org \in Sides(o)
    BY <1>1, <1>2, <1>5 DEF Counts, IInv, OrdersFine, OrdersTypeOK, Placed
  <2>2. /\ orders'[o].seller = orders[o].seller /\ orders'[o].buyer = orders[o].buyer
        /\ \A p \in OrderIds \ {o} : orders'[p] = orders[p]
    BY <1>2, <1>5, <2>1 DEF Order
  <2>3. r.org \in Sides(o)'
    BY <2>1, <2>2 DEF Sides
  <2> QED BY <1>2, <1>3, <1>5, <2>2, <2>3, StepHeard
<1> QED BY <1>1, <1>4, <1>5 DEF UpdateOrder

LEMMA FulfilHeard ==
  ASSUME IInv, Hearing, NEW org \in Orgs, NEW o \in OrderIds, Fulfil(org, o)
  PROVE  Hearing'
<1>1. orders \in [OrderIds -> Order \cup {NoOrder, GoneOrder}] /\ orders[o] \in Order
  BY DEF Fulfil, IInv, OrdersFine, OrdersTypeOK, Placed
<1>2. /\ orders'[o].seller = orders[o].seller /\ orders'[o].buyer = orders[o].buyer
      /\ \A p \in OrderIds \ {o} : orders'[p] = orders[p]
  BY <1>1 DEF Fulfil, Order
<1>3. org \in Sides(o)' /\ orders[o].status \in Status /\ "fulfilled" \in Status
  BY <1>1, <1>2 DEF Sides, Fulfil, Order, Status
<1>4. AskedBySide'
  BY AskedSame DEF Hearing, Fulfil
<1> QED BY <1>2, <1>3, <1>4, StepHeard DEF Fulfil

LEMMA InsertOrderHeard ==
  ASSUME IInv, Hearing, NEW w \in Workers, InsertOrder(w)
  PROVE  Hearing'
<1>1. PICK r, o : r = req[w] /\ o = r.order
  OBVIOUS
<1>2. /\ RequestFine(r) /\ r.op = "order.create" /\ o \in OrderIds /\ r.org \in Orgs
      /\ r.seller # NoOrg /\ r.buyer # NoOrg
      /\ UNCHANGED <<notices, lost>>
  BY <1>1, ChainAssumption DEF InsertOrder, Serving, IInv, RequestsFine, RequestFine
<1>3. AskedBySide'
  BY AskedClosed DEF InsertOrder, Hearing
<1>4. r.org \in {r.seller, r.buyer}
  BY <1>1 DEF InsertOrder, Hearing, AskedBySide
<1>5. CASE UNCHANGED <<tradeOrders, events>>
  BY <1>2, <1>3, <1>5, EventsSame, QuietStep
<1>6. CASE /\ orders' = [orders EXCEPT ![o] =
                [seller |-> r.seller, buyer |-> r.buyer, creator |-> r.org,
                 sellerPartner |-> r.sellerPartner, buyerPartner |-> r.buyerPartner,
                 status |-> "submitted", version |-> 1]]
           /\ logStep(o, "none", "submitted", r.org)
           /\ emit(Event("submitted", o, r.org))
  <2>1. /\ orders'[o].seller = r.seller /\ orders'[o].buyer = r.buyer
        /\ \A p \in OrderIds \ {o} : orders'[p] = orders[p]
    BY <1>2, <1>6 DEF IInv, OrdersFine, OrdersTypeOK
  <2>2. r.org \in Sides(o)' /\ "submitted" \in Status
    BY <1>2, <1>4, <2>1 DEF Sides, Status, OpenStatus
  <2> QED BY <1>2, <1>3, <1>6, <2>1, <2>2, StepHeard
<1> QED BY <1>1, <1>5, <1>6 DEF InsertOrder

(* A listener writes how the order stands, whichever event it was given.   *)
LEMMA NotifyOrderHeard ==
  ASSUME IInv, Hearing, NotifyOrder
  PROVE  Hearing'
<1>1. PICK e \in BagToSet(events) :
        /\ e.kind \in Status /\ events' = BagRemove(events, e)
        /\ IF Placed(e.ref) /\ e.actor \in Sides(e.ref) /\ Other(e.ref, e.actor) # NoOrg
             THEN Tell(Other(e.ref, e.actor), e.ref, Payload(e))
             ELSE UNCHANGED notices
  BY DEF NotifyOrder
<1>2. e.ref \in OrderIds /\ OrderIds \subseteq Refs
  BY <1>1, OrdersAssumption DEF IInv, EventsFine
<1>3. UNCHANGED <<tradeOrders, lost, req>> /\ AskedBySide'
  BY AskedSame DEF NotifyOrder, Hearing
<1>4. NoticesMade' /\ \A o \in OrderIds \ {e.ref}, org \in Orgs : notices'[org][o] = notices[org][o]
  <2>1. CASE UNCHANGED notices
    BY <2>1 DEF NoticesMade, Hearing
  <2>2. CASE ~UNCHANGED notices
    <3>1. Placed(e.ref) /\ Other(e.ref, e.actor) # NoOrg /\ Tell(Other(e.ref, e.actor), e.ref, Payload(e))
      BY <1>1, <2>2
    <3>2. Other(e.ref, e.actor) \in Orgs
      BY <1>2, <3>1 DEF Other, IInv, OrdersFine, SidesFine, RowsFine
    <3> QED BY <1>2, <3>1, <3>2, NoticeTold DEF Hearing
  <2> QED BY <2>1, <2>2
<1>5. ASSUME NEW o \in OrderIds, Both(o) PROVE Heard(o)'
  <2>1. PICK by : by = LastBy(o)
    OBVIOUS
  <2>2. /\ by \in Sides(o) /\ Other(o, by) \in Sides(o) /\ Other(o, by) # NoOrg /\ Other(o, by) \in Orgs
        /\ \A x \in Sides(o) : x # by => Other(o, x) = by
        /\ Other(o, by) # by /\ Both(o) /\ Heard(o)
    BY <1>5, <2>1, SidesOfBoth DEF Hearing, AllHeard, Heard
  <2>3. CASE e.ref # o \/ (e.ref = o /\ e.actor # by)
    <3>1. NewsKept(o)
      BY <1>1, <1>3, <2>1, <2>3, EventTaken DEF NewsKept
    <3>2. notices'[Other(o, by)][o] = notices[Other(o, by)][o]
      <4>1. CASE e.ref # o
        BY <1>4, <2>2, <4>1
      <4>2. CASE e.ref = o /\ e.actor # by
        <5>1. CASE UNCHANGED notices
          BY <5>1
        <5>2. CASE ~UNCHANGED notices
          <6>1. e.actor \in Sides(o) /\ Tell(by, o, Payload(e)) /\ by \in Orgs
            BY <1>1, <2>2, <4>2, <5>2 DEF Sides, IInv, OrdersFine, SidesFine, RowsFine, Both
          <6> QED BY <1>2, <2>2, <6>1, NoticeTold DEF Hearing
        <5> QED BY <5>1, <5>2
      <4> QED BY <2>3, <4>1, <4>2
    <3>3. Both(o)'
      BY <1>3, <1>5 DEF Both, Placed, tradeOrders
    <3> QED BY <1>3, <2>1, <2>2, <3>1, <3>2, <3>3, HeardStays DEF tradeOrders
  <2>4. CASE e.ref = o /\ e.actor = by
    <3>1. Tell(Other(o, by), o, Payload(e))
      BY <1>1, <1>5, <2>2, <2>4 DEF Both
    <3>2. notices'[Other(o, by)][o] = Payload(e)
      BY <1>2, <2>2, <3>1, NoticeTold DEF Hearing
    <3>3. /\ Payload(e) \in [status: Status, from: Orgs] /\ Payload(e).status = orders[o].status
      BY <1>5, <2>2, <2>4 DEF Payload, IInv, OrdersFine, OrdersTypeOK, SidesFine, RowsFine, Sides, Both,
         Placed, Order
    <3>4. Payload(e) # NoNotice
      BY <3>3, OrdersAssumption
    <3>5. orders'[o] = orders[o] /\ LastBy(o)' = by /\ Sides(o)' = Sides(o)
          /\ Other(o, LastBy(o))' = Other(o, by)
      BY <1>3, <2>1 DEF tradeOrders, LastBy, Sides, Other
    <3> QED BY <2>2, <3>2, <3>3, <3>4, <3>5 DEF Heard
  <2> QED BY <2>3, <2>4
<1>6. \A o \in OrderIds : Both(o)' => Both(o)
  BY <1>3 DEF Both, Placed, tradeOrders
<1> QED BY <1>3, <1>4, <1>5, <1>6 DEF Hearing, AllHeard

LEMMA OrdersNextHeard ==
  ASSUME IInv, Hearing, OrdersNext, UNCHANGED <<del, seen>>
  PROVE  Hearing'
<1>0. AskedBySide
  BY DEF Hearing
<1>1. ASSUME NEW w \in Workers, NEW r, Open(w, r), r.op = "order.create" => r.org \in {r.seller, r.buyer},
             UNCHANGED <<tradeOrders, notices, events, lost>>
      PROVE  Hearing'
  BY <1>0, <1>1, AskedOpened, EventsSame, QuietStep
<1>2. ASSUME NEW w \in Workers, NEW org \in Orgs, NEW other \in Orgs, NEW o \in OrderIds,
             NEW role \in {"seller", "buyer"}, Create(w, org, o, other, role)
      PROVE  Hearing'
  <2> DEFINE seller == IF role = "seller" THEN org ELSE other
             buyer  == IF role = "seller" THEN other ELSE org
  <2>1. PICK r : /\ Open(w, r) /\ r.org = org /\ r.seller = seller /\ r.buyer = buyer
                 /\ UNCHANGED <<tradeOrders, notices, events, lost>>
    BY <1>2 DEF Create
  <2> QED BY <1>1, <2>1
<1>3. ASSUME NEW w \in Workers, NEW org \in Orgs, NEW o \in OrderIds, NEW step \in StepNames,
             Move(w, org, o, step)
      PROVE  Hearing'
  <2>1. PICK r : Open(w, r) /\ r.op = "order.move" /\ UNCHANGED <<tradeOrders, notices, events, lost>>
    BY <1>3 DEF Move
  <2> QED BY <1>1, <2>1
<1> QED
  BY <1>2, <1>3, InsertOrderHeard, UpdateOrderHeard, FulfilHeard, NotifyOrderHeard DEF OrdersNext

(* An order that still has both sides after a deletion is not one that it  *)
(* told anybody about.                                                     *)
LEMMA PurgeHeard ==
  ASSUME IInv, Hearing, NEW d \in Deleters, Purge(d)
  PROVE  Hearing'
<1> DEFINE news(org, r) ==
             IF org = d THEN NoNotice
             ELSE IF <<org, r>> \notin Told(d) THEN notices[org][r]
             ELSE IF r \in LinkIds THEN [kind |-> "link.revoked", from |-> d]
             ELSE [status |-> "cancelled", from |-> d]
<1>1. notices' = [org \in Orgs |-> [r \in Refs |-> news(org, r)]]
  BY DEF Purge
<1>2. NoticesMade'
  <2> HIDE DEF news
  <2> QED BY <1>1 DEF NoticesMade
<1>3. AskedBySide' /\ \A o \in OrderIds : NewsKept(o)
  BY AskedSame, EventsSame DEF Purge, Hearing
<1>4. seen[d] \in Seen /\ ReadFine(d)
  BY PurgeWrites
<1>5. ASSUME NEW o \in OrderIds, Both(o)' PROVE Heard(o)'
  <2>1. Placed(o) /\ d \notin Sides(o)
    BY <1>5, PurgeRow DEF Both, Without, Sides
  <2>2. o \notin seen[d].dropped /\ ~\E k \in seen[d].orders : k.order = o
    BY <1>4, <2>1 DEF ReadFine
  <2>3. orders'[o] = orders[o] /\ steps'[o] = steps[o]
    BY <2>1, <2>2, PurgeWrites
  <2>4. Both(o) /\ Heard(o)
    BY <1>5, <2>1, <2>3 DEF Both, Hearing, AllHeard
  <2>5. PICK to : to = Other(o, LastBy(o))
    OBVIOUS
  <2>6. to \in Orgs /\ to # d
    BY <2>1, <2>4, <2>5, SidesOfBoth DEF Heard
  <2>7. o \in Refs /\ o \notin LinkIds
    BY OrdersAssumption
  <2>8. \A x \in seen[d].watched \cup seen[d].live : x.link \in LinkIds
    BY <1>4 DEF Seen
  <2>9. <<to, o>> \notin Told(d)
    BY <2>2, <2>7, <2>8 DEF Told
  <2>10. notices'[to][o] = notices[to][o]
    BY <1>1, <2>6, <2>7, <2>9
  <2> QED BY <1>3, <1>5, <2>3, <2>4, <2>5, <2>10, HeardStays
<1> QED BY <1>2, <1>3, <1>5 DEF Hearing, AllHeard

(* Nothing has been ordered before the first request.                      *)
LEMMA InitHeard ==
  ASSUME Init, \A o \in OrderIds : StartOrders[o] = NoOrder
  PROVE  Hearing
<1>1. \A o \in OrderIds : ~Both(o)
  BY DEF Init, OrdersInit, Both, Placed
<1>2. NoticesMade
  BY DEF Init, ChainInit, NoticesMade
<1>3. AskedBySide
  BY DEF Init, ChainInit, AskedBySide, Serving
<1> QED BY <1>1, <1>2, <1>3 DEF Hearing, AllHeard

LEMMA NextHeard ==
  ASSUME IInv, Hearing, [Next]_vars
  PROVE  Hearing'
<1>0. AskedBySide
  BY DEF Hearing
<1>1. ASSUME UNCHANGED <<tradeOrders, req, events, notices, lost>> PROVE Hearing'
  BY <1>0, <1>1, AskedSame, EventsSame, QuietStep
<1>2. ASSUME LinksNext, UNCHANGED <<tradeOrders, del, seen>> PROVE Hearing'
  BY <1>2, LinksNextHeard
<1>3. ASSUME OrdersNext, UNCHANGED <<del, seen>> PROVE Hearing'
  BY <1>3, OrdersNextHeard
<1>4. ASSUME ListenerFails, UNCHANGED <<partnerLinks, tradeOrders, del, seen>> PROVE Hearing'
  <2>1. PICK e : events' = BagRemove(events, e) /\ lost' = lost \cup {e.ref}
    BY <1>4 DEF ListenerFails
  <2>2. \A o \in OrderIds : NewsKept(o)
    BY <2>1, EventTaken DEF NewsKept
  <2>3. UNCHANGED <<req, notices>>
    BY <1>4 DEF ListenerFails
  <2> QED BY <1>0, <1>4, <2>2, <2>3, AskedSame, QuietStep
<1>5. ASSUME ServerRestarts PROVE Hearing'
  <2>1. /\ lost' = lost \cup {e.ref : e \in BagToSet(events)}
        /\ UNCHANGED <<tradeOrders, notices>>
        /\ \A w \in Workers : req'[w] = NoReq
    BY <1>5 DEF ServerRestarts, Restart
  <2>2. (\A o \in OrderIds : NewsKept(o)) /\ AskedBySide'
    BY <2>1 DEF NewsKept, AskedBySide, Serving
  <2> QED BY <2>1, <2>2, QuietStep
<1>6. ASSUME NEW d \in Deleters, Ask(d) \/ Delete(d) \/ DeletionFails(d) PROVE Hearing'
  <2>1. CASE Purge(d)
    BY <2>1, PurgeHeard
  <2>2. CASE ~Purge(d)
    <3>1. UNCHANGED <<tradeOrders, req, events, notices, lost>>
      BY <1>6, <2>2 DEF Ask, Delete, DeletionFails, RemoveFolder, ReadOrders, ReadLinks, PurgeFails,
         Deadlock, DeleteLogin, Untouched
    <3> QED BY <1>1, <3>1
  <2> QED BY <2>1, <2>2
<1>7. ASSUME UNCHANGED vars PROVE Hearing'
  BY <1>1, <1>7 DEF vars, chain
<1> QED
  BY <1>2, <1>3, <1>4, <1>5, <1>6, <1>7 DEF Next

LEMMA TwoSides ==
  ASSUME NEW o, Placed(o), BothSides(o)
  PROVE  Both(o)
<1>1. PICK a, b : a # b /\ Sides(o) = {a, b}
  BY DEF BothSides
<1>2. \A x : x \in {a, b} <=> x # NoOrg /\ (x = orders[o].seller \/ x = orders[o].buyer)
  BY <1>1 DEF Sides
<1> QED BY <1>1, <1>2 DEF Both

(* From a database without orders: whenever requests, receipts, links,     *)
(* deletions and late listeners of both sides overlap, the history of an   *)
(* order is a chain that leads to it, and once no event about it waits the *)
(* newest notification says how it stands, unless one was lost.            *)
THEOREM OrdersAreTold ==
  ASSUME \A o \in OrderIds : StartOrders[o] = NoOrder
  PROVE  Spec => []OrderTold
<1>1. Init => Hearing
  BY InitHeard
<1>2. IInv /\ Hearing /\ [Next]_vars => Hearing'
  BY NextHeard
<1>3. IInv /\ Hearing => OrderTold
  <2> SUFFICES ASSUME IInv, Hearing PROVE OrderTold
    OBVIOUS
  <2>1. HistoryIsChain
    BY DEF IInv, OrdersFine, Chained, HistoryIsChain
  <2>2. ASSUME NEW o \in OrderIds, Placed(o), BothSides(o), o \notin lost,
               \A e \in BagToSet(events) : e.ref # o
        PROVE  LET newest == notices[Other(o, LastBy(o))][o]
               IN  newest # NoNotice /\ newest.status = orders[o].status
    BY <2>2, TwoSides DEF Hearing, AllHeard, Heard
  <2>3. LastNoticeIsCurrent
    BY <2>2 DEF LastNoticeIsCurrent, LastBy
  <2> QED BY <2>1, <2>3 DEF OrderTold
<1> QED BY <1>1, <1>2, <1>3, Inductive, PTL DEF Spec
=============================================================================

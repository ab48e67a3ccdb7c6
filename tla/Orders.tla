------------------------------- MODULE Orders -------------------------------
(***************************************************************************)
(* Orders between two connected organisations (orders.service.ts): made by *)
(* one side, accepted or rejected by the other, scheduled by the buyer,    *)
(* cancelled by either, fulfilled by a receipt (sync-push.service.ts).     *)
(* Every step is conditional on the version the person saw, is written     *)
(* into order_events, and is told to the other side after the commit.  The *)
(* trigger orders_guard is the second layer.                               *)
(*                                                                         *)
(* Branches of the people of one organisation (branchScope), the product,  *)
(* the quantity and the place of an order are left out.                    *)
(***************************************************************************)
EXTENDS Links

CONSTANTS
  OrderIds,
  StartOrders,  \* [OrderIds -> Order or NoOrder]: the orders a run starts from
  NoOrder,
  GoneOrder,    \* an order that was deleted: its id is never given again
  MaxVersion    \* bound: an order can be scheduled again without end

OpenStatus == {"submitted", "accepted", "scheduled"}
Status == OpenStatus \cup {"fulfilled", "cancelled"}

(* sellerPartner: the seller has a row in the buyer's book                 *)
(* (seller_partner_id is not null); buyerPartner likewise.                 *)
Order == [seller: Orgs \cup {NoOrg}, buyer: Orgs \cup {NoOrg}, creator: Orgs \cup {NoOrg},
          sellerPartner: BOOLEAN, buyerPartner: BOOLEAN, status: Status, version: Nat \ {0}]

Step == [from: Status \cup {"none"}, to: Status, by: Orgs]

ASSUME OrdersAssumption ==
  /\ StartOrders \in [OrderIds -> Order \cup {NoOrder}]
  /\ \A o \in OrderIds : StartOrders[o] # NoOrder =>
       /\ StartOrders[o].status = "submitted" /\ StartOrders[o].version = 1
       /\ StartOrders[o].creator \in {StartOrders[o].seller, StartOrders[o].buyer}
       /\ {StartOrders[o].seller, StartOrders[o].buyer} \subseteq Orgs
       /\ StartOrders[o].seller # StartOrders[o].buyer
  /\ {NoOrder, GoneOrder} \cap Order = {} /\ NoOrder # GoneOrder
  /\ OrderIds \subseteq Refs /\ OrderIds \cap LinkIds = {}
  /\ NoNotice \notin [status: Status, from: Orgs]
  /\ MaxVersion \in Nat \ {0}

VARIABLES
  orders,   \* orders
  steps     \* order_events of each order, oldest first

tradeOrders == <<orders, steps>>

OrdersInit ==
  /\ orders = StartOrders
  /\ steps = [o \in OrderIds |->
                IF StartOrders[o] = NoOrder THEN <<>>
                ELSE <<[from |-> "none", to |-> "submitted", by |-> StartOrders[o].creator]>>]

OrdersTypeOK ==
  /\ orders \in [OrderIds -> Order \cup {NoOrder, GoneOrder}]
  /\ steps \in [OrderIds -> Seq(Step)]

Placed(o) == orders[o] \notin {NoOrder, GoneOrder}
Sides(o) == {orders[o].seller, orders[o].buyer} \ {NoOrg}
Other(o, org) == IF orders[o].seller = org THEN orders[o].buyer ELSE orders[o].seller
logStep(o, from, to, by) ==
  steps' = [steps EXCEPT ![o] = Append(@, [from |-> from, to |-> to, by |-> by])]

(* orders_guard: the statuses that may follow one another.                 *)
Arrow(old, new) ==
  \/ old = "submitted" /\ new \in {"accepted", "cancelled", "fulfilled"}
  \/ old \in {"accepted", "scheduled"} /\ new \in {"scheduled", "cancelled", "fulfilled"}

-----------------------------------------------------------------------------
(* create: the links are read, then the order is written.                  *)

Create(w, org, o, other, role) ==
  /\ Can(org, "order:create") /\ other # org
  /\ orders[o] = NoOrder
  /\ \A v \in Workers : Serving(v, {"order.create"}) => req[v].order # o
  /\ LET seller == IF role = "seller" THEN org ELSE other
         buyer  == IF role = "seller" THEN other ELSE org
         sellerPartner == Connected(buyer, seller, "supplier")
         buyerPartner  == Connected(seller, buyer, "buyer")
     IN  /\ sellerPartner \/ buyerPartner
         /\ Open(w, [op |-> "order.create", org |-> org, order |-> o, seller |-> seller, buyer |-> buyer,
                     sellerPartner |-> sellerPartner, buyerPartner |-> buyerPartner])
  /\ UNCHANGED <<present, locked, events, notices, lost, faults, partnerLinks, tradeOrders>>

InsertOrder(w) ==
  /\ Serving(w, {"order.create"})
  /\ LET r == req[w]
     IN  /\ ~Waits({r.seller, r.buyer})
         /\ IF KeysHold({r.seller, r.buyer})
              THEN /\ orders' = [orders EXCEPT ![r.order] =
                        [seller |-> r.seller, buyer |-> r.buyer, creator |-> r.org,
                         sellerPartner |-> r.sellerPartner, buyerPartner |-> r.buyerPartner,
                         status |-> "submitted", version |-> 1]]
                   /\ logStep(r.order, "none", "submitted", r.org)
                   /\ emit(Event("submitted", r.order, r.org))
              ELSE UNCHANGED <<tradeOrders, events>>
  /\ Close(w)
  /\ UNCHANGED <<present, locked, notices, lost, faults, partnerLinks>>

-----------------------------------------------------------------------------
(* move                                                                    *)

StepNames == {"accept", "reject", "schedule", "cancel"}

From(step) == CASE step \in {"accept", "reject"} -> {"submitted"}
                [] step = "schedule" -> {"accepted", "scheduled"}
                [] step = "cancel" -> OpenStatus

Target(step) == CASE step = "accept" -> "accepted"
                  [] step = "schedule" -> "scheduled"
                  [] OTHER -> "cancelled"

(* assertSide, and the permission that the route or the step asks for.     *)
MayMove(org, o, step) ==
  CASE step \in {"accept", "reject"} -> orders[o].creator # org /\ Can(org, "order:respond")
    [] step = "schedule" -> orders[o].buyer = org /\ Can(org, "order:respond")
    [] step = "cancel" -> Can(org, IF orders[o].creator = org THEN "order:create" ELSE "order:respond")

(* input.version is the version of the order the person has on the screen; *)
(* any other than the one in the row ends in ORDER_STATE_CHANGED.          *)
Move(w, org, o, step) ==
  /\ Placed(o) /\ org \in Sides(o)
  /\ MayMove(org, o, step)
  /\ orders[o].status \in From(step)
  /\ step = "schedule" => orders[o].version < MaxVersion
  /\ Open(w, [op |-> "order.move", org |-> org, order |-> o, step |-> step,
              version |-> orders[o].version, status |-> orders[o].status])
  /\ UNCHANGED <<present, locked, events, notices, lost, faults, partnerLinks, tradeOrders>>

(* updateMany where id, version: how many rows (under the row security of  *)
(* the caller's organisation).                                             *)
Counts(r) ==
  /\ Placed(r.order) /\ r.org \in Sides(r.order)
  /\ orders[r.order].version = r.version

UpdateOrder(w) ==
  /\ Serving(w, {"order.move"})
  /\ LET r == req[w]
         to == Target(r.step)
     IN  IF Counts(r) /\ Arrow(orders[r.order].status, to)
           THEN /\ orders' = [orders EXCEPT ![r.order].status = to, ![r.order].version = @ + 1]
                /\ logStep(r.order, r.status, to, r.org)
                /\ emit(Event(to, r.order, r.org))
           ELSE UNCHANGED <<tradeOrders, events>>
  /\ Close(w)
  /\ UNCHANGED <<present, locked, notices, lost, faults, partnerLinks>>

(* A receipt of either side names the order: the row is locked first, so   *)
(* what is read is what is changed, in the transaction of the receipt.     *)
Fulfil(org, o) ==
  /\ org \in present /\ Placed(o) /\ org \in Sides(o)
  /\ orders[o].status \in OpenStatus
  /\ orders' = [orders EXCEPT ![o].status = "fulfilled", ![o].version = @ + 1]
  /\ logStep(o, orders[o].status, "fulfilled", org)
  /\ emit(Event("fulfilled", o, org))
  /\ UNCHANGED <<present, locked, req, notices, lost, faults, partnerLinks>>

-----------------------------------------------------------------------------
(* Slip: the notification carries the status of the event.                 *)
PayloadOfEvent(e) == [status |-> e.kind, from |-> e.actor]

(* notify_order: the order as it is when the listener runs.  The event     *)
(* order.<status> is written <status>.                                     *)
Payload(e) == [status |-> orders[e.ref].status, from |-> e.actor]

NotifyOrder ==
  /\ \E e \in BagToSet(events) :
       /\ e.kind \in Status
       /\ events' = BagRemove(events, e)
       /\ LET to == Other(e.ref, e.actor)
          IN  IF Placed(e.ref) /\ e.actor \in Sides(e.ref) /\ to # NoOrg
                THEN ~Waits({to}) /\ Tell(to, e.ref, Payload(e))
                ELSE UNCHANGED notices
  /\ UNCHANGED <<present, locked, req, lost, faults, partnerLinks, tradeOrders>>

OrdersNext ==
  \/ \E w \in Workers, org, other \in Orgs, o \in OrderIds, role \in {"seller", "buyer"} :
       Create(w, org, o, other, role)
  \/ \E w \in Workers, org \in Orgs, o \in OrderIds, step \in StepNames : Move(w, org, o, step)
  \/ \E w \in Workers : InsertOrder(w) \/ UpdateOrder(w)
  \/ \E org \in Orgs, o \in OrderIds : Fulfil(org, o)
  \/ NotifyOrder

-----------------------------------------------------------------------------
(* Nobody has been taken out of the order.                                 *)
BothSides(o) == \E a, b \in Orgs : a # b /\ Sides(o) = {a, b}

(* The history a person is shown is the history of the order: as many      *)
(* steps as its version says, the last one leads to its status, and each   *)
(* one starts where the one before it ended, although people of two        *)
(* organisations press at the same time (orders.service.ts:222).  Only the *)
(* deletion of an account, which reads the orders before it cancels them,  *)
(* may name an earlier status in its last step.                            *)
HistoryIsChain ==
  \A o \in OrderIds : Placed(o) =>
    /\ Len(steps[o]) = orders[o].version
    /\ steps[o][Len(steps[o])].to = orders[o].status
    /\ \A i \in 2..Len(steps[o]) :
         \/ steps[o][i].from = steps[o][i - 1].to
         \/ i = Len(steps[o]) /\ steps[o][i].by \notin present

(* The last that the other side hears of an order is how the order stands: *)
(* listeners run late and in any order, two notifications may even come in *)
(* the wrong order, but each carries the status in the row, so that the    *)
(* newest is never behind (unless a listener failed or the process         *)
(* stopped, notifications.listener.ts:75).                                 *)
LastNoticeIsCurrent ==
  \A o \in OrderIds :
    (/\ Placed(o) /\ BothSides(o) /\ Len(steps[o]) > 0 /\ o \notin lost
     /\ \A e \in BagToSet(events) : e.ref # o)
    => LET newest == notices[Other(o, steps[o][Len(steps[o])].by)][o]
       IN  newest # NoNotice /\ newest.status = orders[o].status

(* An order is what its history tells, and its last notice tells what it is.*)
OrderTold == HistoryIsChain /\ LastNoticeIsCurrent
=============================================================================

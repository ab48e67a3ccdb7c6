------------------------------ MODULE MCTrade ------------------------------
(* An instance of Trade: v, a trader, and e, an enterprise, each one       *)
(* person.  v has e among its buyers, and                                   *)
(* either may delete the account.                                          *)
EXTENDS Trade

CONSTANTS v, e, pe

MCRefs == LinkIds \cup OrderIds

(* v sends and may cut the link, e answers.                                *)
MCMay == [o \in Orgs |->
            IF o = v THEN {"order:create", "partner:manage"} ELSE {"order:respond"}]

(* pe: the enterprise among the buyers of v.                               *)
MCOwnerOf == [p \in Partners |-> v]
MCKindOf == [p \in Partners |-> "buyer"]
MCPhoneOf == [p \in Partners |-> NoPhone]
MCVerified == [o \in Orgs |-> NoPhone]

MCLinked ==
  {[l \in LinkIds |->
      [partner |-> pe, linked |-> e, status |-> "active", code |-> 0, age |-> "over"]]}

MCNoOrders == [o \in OrderIds |-> NoOrder]
=============================================================================

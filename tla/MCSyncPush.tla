----------------------------- MODULE MCSyncPush -----------------------------
(* Small organisations for SyncPush: the records are a receipt (1), its    *)
(* payment (2) and a second receipt (3).                                   *)
EXTENDS SyncPush, TLC

CONSTANTS ann, ben, s1, s2, whole, north, south, order1, noOrder

MCEntityOf == [r \in Records |-> IF r = 2 THEN "payment" ELSE "transaction"]
MCParentOf == [p \in Records \cap {2} |-> 1]
MCSeesOrder == [x \in Branches |-> Orders]

Owner == [branch |-> whole, may |-> Permissions]
StaffOf(x) == [branch |-> x, may |-> {"book:sync", "receipt:create", "payment:record"}]

MCOwners == {Owner}
MCStaff == {StaffOf(x) : x \in {north, south}}
MCMoved == {Owner, StaffOf(north)}

Op(k, r, x, o, f) ==
  [kind |-> k, rec |-> r, branch |-> x, order |-> o, sound |-> f, priceOnly |-> FALSE]

(* A receipt and its correction, which the server may find wrong, its      *)
(* payment and the deletions.                                              *)
MCBookBodies ==
  {Op(k, 1, whole, noOrder, f) : k \in {"insert", "update"}, f \in BOOLEAN}
    \cup {Op("insert", 2, whole, noOrder, TRUE)}
    \cup {Op("softDelete", r, whole, noOrder, TRUE) : r \in {1, 2}}

(* A receipt and its payment, written in one branch or the other.          *)
MCBranchBodies ==
  {Op("insert", 1, x, noOrder, TRUE) : x \in {whole, north, south}}
    \cup {Op("insert", 2, whole, noOrder, TRUE)}

(* Two receipts for the same order.                                        *)
MCOrderBodies == {Op("insert", r, whole, order1, TRUE) : r \in {1, 3}}

(* The same, the payment of the first, and what the server finds wrong.    *)
MCLiveBodies ==
  MCOrderBodies \cup {Op("insert", 1, whole, noOrder, FALSE), Op("insert", 2, whole, noOrder, TRUE)}

Symmetry == Permutations(Slots)
Symmetry2 == Permutations(Slots) \cup Permutations(Devices)
=============================================================================

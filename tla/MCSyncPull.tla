----------------------------- MODULE MCSyncPull -----------------------------
(* Small books for SyncPull: two receipts and one payment, in the order of *)
(* the tables transaction (1), payment (2), seasonContract (3).  Time is   *)
(* counted in units of 5 seconds.                                          *)
EXTENDS SyncPull, TLC

CONSTANTS w1, w2, north, south, all, common

MCParentOf == [p \in {3} |-> 1]
MCTableOf == [r \in {1, 2, 3} |-> IF r = 3 THEN 2 ELSE 1]

MCBranchOf == [r \in {1, 2, 3} |-> IF r = 2 THEN south ELSE north]
MCOneBranch == [r \in {1, 2, 3} |-> all]
MCWrites == [r \in {1, 2, 3} |-> IF r = 1 THEN 2 ELSE 1]
MCOneWrite == [r \in {1, 2, 3} |-> 1]

MCThreeWrites == [r \in {1, 2, 3} |-> IF r = 1 THEN 3 ELSE 1]

(* Timestamps are milliseconds: a trace of this specification does not     *)
(* rest on a transaction that began in the very instant a round took as    *)
(* its `until`.                                                            *)
Stamps == {rows[r].upd : r \in {x \in Records : Exists(x)}}
          \cup {tx[w].start : w \in {x \in Writers : tx[x].open}}
NoTie == Stamps \cap {cursor.u, call.u} = {}
SpecWithoutTies == Init /\ [][Next /\ NoTie']_vars

Symmetry == Permutations(Writers)
=============================================================================

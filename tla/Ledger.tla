------------------------------- MODULE Ledger -------------------------------
(***************************************************************************)
(* What pushing promises, without requests, locks or failures: a person    *)
(* writes operations on a device; each one is entered in the ledger of the *)
(* organisation at most once, after those the same device made before it,  *)
(* and an operation that the person gives up has no effect there: it is    *)
(* never entered, or it is entered as void.                                *)
(***************************************************************************)
EXTENDS Naturals, Sequences

CONSTANT Ops   \* pairs <<device, seq>>

VARIABLES
  made,     \* operations written by people
  givenUp,  \* operations people have given up
  entered   \* the ledger: [op, void] in the order of entering

vars == <<made, givenUp, entered>>

Entered == {entered[i].op : i \in DOMAIN entered}
InForce == {entered[i].op : i \in {n \in DOMAIN entered : ~entered[n].void}}

Earlier(o) == {p \in Ops : p[1] = o[1] /\ p[2] < o[2]}

Init == made = {} /\ givenUp = {} /\ entered = <<>>

(* Operations are numbered in the order they are made.                     *)
Make(o) ==
  /\ o \notin made /\ Earlier(o) \subseteq made
  /\ made' = made \cup {o}
  /\ UNCHANGED <<givenUp, entered>>

Enter(o, void) ==
  /\ o \in made \ Entered
  /\ Earlier(o) \subseteq Entered \cup givenUp
  /\ o \in givenUp => void
  /\ entered' = Append(entered, [op |-> o, void |-> void])
  /\ UNCHANGED <<made, givenUp>>

GiveUp(S) ==
  /\ S \subseteq made \ InForce
  /\ givenUp' = givenUp \cup S
  /\ UNCHANGED <<made, entered>>

Next ==
  \/ \E o \in Ops : Make(o) \/ \E void \in BOOLEAN : Enter(o, void)
  \/ \E S \in SUBSET (made \ (givenUp \cup InForce)) : GiveUp(S)

Spec == Init /\ [][Next]_vars

=============================================================================

--------------------------- MODULE CoherentPage ---------------------------
(***************************************************************************)
(* What the shared memory promises the guest for one page: stores are      *)
(* totally ordered, each is made on contents that include all earlier      *)
(* stores, and the contents a node can look at never lose a store it could *)
(* see before.  A node may lag behind the newest store, because            *)
(* invalidations are not acknowledged (vsm_invalidate in core/vsm.c).      *)
(***************************************************************************)
EXTENDS Naturals

CONSTANT Nodes

VARIABLES
  latest,   \* number of stores made
  view      \* node -> number of stores in the newest contents it has had

Init ==
  /\ latest = 0
  /\ view = [n \in Nodes |-> 0]

\* a store at n: n must be looking at the newest contents
Store(n) ==
  /\ view[n] = latest
  /\ latest' = latest + 1
  /\ view' = [view EXCEPT ![n] = latest + 1]

\* n obtains newer contents
Refresh(n) ==
  /\ \E v \in view[n]..latest : view' = [view EXCEPT ![n] = v]
  /\ UNCHANGED latest

Next == \E n \in Nodes : Store(n) \/ Refresh(n)

Spec == Init /\ [][Next]_<<latest, view>>
=============================================================================

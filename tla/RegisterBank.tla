---------------------------- MODULE RegisterBank ----------------------------
(***************************************************************************)
(* What the GIC emulation promises a guest: a register holds one value per *)
(* interrupt, kept by one owner, a vCPU or a node.  An access takes the    *)
(* interrupts of the register one after the other, each at one moment      *)
(* between the trap and the return to the guest, and a read returns what   *)
(* it found.  Where the owner is, and how the access reaches it, the guest *)
(* cannot tell.                                                            *)
(***************************************************************************)
EXTENDS Naturals

CONSTANTS Vcpus, Owners, Width, Fields, Values

VARIABLES
  bank,   \* bank[o][i][f]: field f of interrupt i
  acc,    \* acc[v]: the access of a vCPU
  x       \* x[v]: the register its last read has filled

Bits == 0..(Width - 1)
Op   == {"read", "write", "set", "clear"}
Free == [op |-> "none", owner |-> <<"none", 0>>, field |-> "none", next |-> 0, val |-> [i \in Bits |-> 0]]

Init ==
  /\ bank \in [Owners -> [Bits -> [Fields -> Values]]]
  /\ acc = [v \in Vcpus |-> Free]
  /\ x \in [Vcpus -> [Bits -> Values]]

\* an access may bring any value along
Begin(v) ==
  /\ acc[v] = Free
  /\ acc'[v] \in [op : Op, owner : Owners, field : Fields, next : {0}, val : [Bits -> Values]]
  /\ acc' = [acc EXCEPT ![v] = acc'[v]]
  /\ UNCHANGED <<bank, x>>

\* a register that holds none of the fields
BeginOther(v) ==
  /\ acc[v] = Free
  /\ acc' = [acc EXCEPT ![v] = [Free EXCEPT !.op = "other"]]
  /\ UNCHANGED <<bank, x>>

Touch(v) ==
  LET a == acc[v]
  IN  /\ a.op \in Op
      /\ a.next < Width
      /\ acc' = [acc EXCEPT ![v].next = @ + 1,
                            ![v].val[a.next] = IF a.op = "read" THEN bank[a.owner][a.next][a.field]
                                               ELSE @]
      /\ bank' = CASE a.op = "write" -> [bank EXCEPT ![a.owner][a.next][a.field] = a.val[a.next]]
                   [] a.op = "set" /\ a.val[a.next] = 1 -> [bank EXCEPT ![a.owner][a.next][a.field] = 1]
                   [] a.op = "clear" /\ a.val[a.next] = 1 -> [bank EXCEPT ![a.owner][a.next][a.field] = 0]
                   [] OTHER -> bank
      /\ UNCHANGED x

End(v) ==
  /\ \/ /\ acc[v].op \in Op
        /\ acc[v].next = Width
        /\ x' = IF acc[v].op = "read" THEN [x EXCEPT ![v] = acc[v].val] ELSE x
     \/ /\ acc[v].op = "other"
        /\ x'[v] \in [Bits -> Values]
        /\ x' = [x EXCEPT ![v] = x'[v]]
  /\ acc' = [acc EXCEPT ![v] = Free]
  /\ UNCHANGED bank

Next == \E v \in Vcpus : Begin(v) \/ BeginOther(v) \/ Touch(v) \/ End(v)

Spec == Init /\ [][Next]_<<bank, acc, x>>
=============================================================================

---------------------------- MODULE FrameService ----------------------------
(***************************************************************************)
(* What a node expects of its NIC driver: frames accepted for transmission *)
(* go out complete, once and in order; frames the NIC has taken in are     *)
(* handed to the message layer complete, once and in order, and those for  *)
(* somebody else are dropped.  A frame may be refused on either side, and  *)
(* one that was taken in is lost when there is no memory.                  *)
(***************************************************************************)
EXTENDS Sequences

CONSTANT Frames

VARIABLES
  txq,   \* accepted, not yet on the wire
  wire,  \* sent
  rxq,   \* taken in, not yet handed up
  up     \* handed to the message layer

vars == <<txq, wire, rxq, up>>

Init == txq = <<>> /\ wire = <<>> /\ rxq = <<>> /\ up = <<>>

Accept(f) ==
  /\ txq' = Append(txq, f)
  /\ UNCHANGED <<wire, rxq, up>>

Transmit ==
  /\ txq # <<>>
  /\ wire' = Append(wire, Head(txq))
  /\ txq' = Tail(txq)
  /\ UNCHANGED <<rxq, up>>

Receive(f) ==
  /\ rxq' = Append(rxq, f)
  /\ UNCHANGED <<txq, wire, up>>

Deliver ==
  /\ rxq # <<>>
  /\ rxq' = Tail(rxq)
  /\ up' = IF Head(rxq).to = "us" THEN Append(up, Head(rxq)) ELSE up
  /\ UNCHANGED <<txq, wire>>

Lose ==
  /\ rxq # <<>>
  /\ rxq' = Tail(rxq)
  /\ UNCHANGED <<txq, wire, up>>

Next ==
  \/ \E f \in Frames : Accept(f) \/ Receive(f)
  \/ Transmit
  \/ Deliver
  \/ Lose

Spec == Init /\ [][Next]_vars
=============================================================================

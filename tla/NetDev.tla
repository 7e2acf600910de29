------------------------------- MODULE NetDev -------------------------------
(***************************************************************************)
(* The network device of a node: the driver that the device tree selects   *)
(* registers itself with net_init (drivers/net.c), and frames go through   *)
(* nic->ops->xmit and netdev_recv.  Both drivers are checked against what  *)
(* the message layer expects of either of them.                            *)
(***************************************************************************)
EXTENDS Iobuf, Sequences, FiniteSets

CONSTANTS NQueue, NTx, NRx, IndexMod, DoneThresh, DiscardMax, Bufs, Phys,
          TxFrames,      \* with and without a page
          GenetTx,       \* those a node with GENET sends
          RxFrames

\* A virtqueue's descriptors (NQUEUE, 256) and those of a GENET ring (32 and
\* 256) divide the 2^16 values of an index.  A virtqueue holds the longest
\* chain, and the heap can fill the receive ring.  Buffer 0 and frame 0 are
\* none, and frames of the two directions are told apart.
ASSUME NetDevAssumption ==
  /\ NTx \in Nat \ {0} /\ NRx \in Nat \ {0} /\ IndexMod \in Nat \ {0}
  /\ NQueue \in Nat /\ NQueue >= 4 /\ IndexMod % NQueue = 0
  /\ IndexMod % NTx = 0 /\ NTx <= IndexMod /\ IndexMod % NRx = 0 /\ NRx < IndexMod
  /\ Bufs \subseteq Nat \ {0} /\ 1..NRx \subseteq Bufs
  /\ TxFrames \subseteq {f \in Frame(Nat \ {0}) : f.to = "peer"}
  /\ GenetTx \subseteq TxFrames
  /\ RxFrames \subseteq {f \in Frame(Nat \ {0}) : f.to # "peer"}

VARIABLES
  ops,           \* "virtio" or "genet": whose nic_ops are in use
  stage, rings, dev, mem, isr, pc, aux, lock, halted, wire, up

dvars == <<stage, rings, dev, mem, isr, pc, aux, lock, halted, wire, up>>
vars  == <<ops, dvars>>

Virtio == INSTANCE VirtioNet WITH vq <- rings, n_rxbuf <- aux,
            RxFrames <- {f \in RxFrames : f.to # "bad"}

Genet == INSTANCE Genet WITH ring <- rings, phy <- aux, TxFrames <- GenetTx

\* What the driver needs to be sound: no frame with a page on a GENET node.
\* Such a frame uses two descriptors for one buffer, and tx_reclaim frees the
\* buffer with each of them (free_tx_cb).
HeaderOnly == \A f \in GenetTx : f.body = 0

Init ==
  \/ ops = "virtio" /\ Virtio!Init
  \/ ops = "genet" /\ Genet!Init /\ lock = "none"

VirtioNext == ops = "virtio" /\ Virtio!Next
GenetNext  == ops = "genet" /\ Genet!Next /\ UNCHANGED lock

Next == (VirtioNext \/ GenetNext) /\ UNCHANGED ops

Spec == Init /\ [][Next]_vars

Step(o, A) == ops = o /\ A /\ UNCHANGED ops

\* The cpu that holds the queue's lock, the cpu that takes the interrupts,
\* the message layer and the hardware keep going; nobody has to send.
Fairness ==
  /\ WF_vars(Step("virtio", Virtio!virtq_kick))
  /\ WF_vars(Step("virtio", Virtio!Handler))
  /\ WF_vars(Step("virtio", Virtio!DevWake))
  /\ WF_vars(Step("virtio", Virtio!DevTransmit))
  /\ WF_vars(Step("virtio", Virtio!DevPause))
  /\ WF_vars(Step("virtio", Virtio!DevTxDone))
  /\ WF_vars(Step("virtio", \E b \in Bufs : Virtio!MsgFree(b)))
  /\ WF_vars(Step("genet", Genet!Handler /\ UNCHANGED lock))
  /\ WF_vars(Step("genet", Genet!DevTransmit /\ UNCHANGED lock))

FairSpec == Spec /\ Fairness

-----------------------------------------------------------------------------
(* Properties.                                                             *)

\* Every descriptor, control block and buffer is in exactly one place,
\* whatever order the hardware returns them in and however the indices wrap:
\* "no desc" and a dropped frame mean that the ring is really full, and a
\* buffer the hardware may write to belongs to nobody else (virtq_enqueue,
\* virtq_free_chain; get_txcb, tx_reclaim, rx_refill).
RingsAccounted ==
  IF ops = "virtio" THEN Virtio!DescAccounted ELSE Genet!RingsAccounted

Service == INSTANCE FrameService WITH
  Frames <- TxFrames \cup RxFrames,
  txq <- IF ops = "virtio" THEN Virtio!TxQueue ELSE Genet!TxQueue,
  rxq <- IF ops = "virtio" THEN Virtio!RxQueue ELSE Genet!RxQueue

\* Either driver is a frame service: what was accepted is sent complete, once
\* and in order, and what was taken in is handed to the message layer the same
\* way (virtio_net_xmit, rxintr; bcmgenet_xmit, bcmgenet_rxintr, netdev_recv).
ImplementsFrameService == Service!Spec

\* With virtio a buffer queued for transmission is sent and freed, and a frame
\* that was received is handed on, unless the node panics.  With GENET a full
\* transmit ring gets room again while the link is up, although completions
\* are reported in batches (DMA_MBUF_DONE_THRESH).
FramesMove ==
  /\ \A b \in Bufs : (ops = "virtio" /\ Virtio!Waits(b)) ~> ~(ops = "virtio" /\ Virtio!Waits(b))
  /\ (ops = "genet" /\ Genet!TxFull) ~> ~(ops = "genet" /\ Genet!TxFull)
=============================================================================

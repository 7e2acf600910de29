----------------------------- MODULE VirtioNet -----------------------------
(***************************************************************************)
(* The virtio network driver: virtqueues (drivers/virtio/virtq.c), the MMIO*)
(* transport (virtio-mmio.c) and the network device (virtio-net.c), with   *)
(* the device at the other end of the rings.  The device reads and writes  *)
(* the rings at any time; the driver side is a sender holding the transmit *)
(* queue's lock, the interrupt handler and the probe sequence.             *)
(*                                                                         *)
(* A network buffer (iobuf) is a number in Bufs; mem says which frame it   *)
(* holds.  The transmit header that is allocated and freed with a buffer   *)
(* is not represented.                                                     *)
(***************************************************************************)
EXTENDS Iobuf, Sequences, FiniteSets

CONSTANTS
  NQueue,    \* NQUEUE, descriptors of a queue
  IndexMod,  \* 2^16, the range of a ring index; NQueue divides it
  Bufs,      \* bound: buffers of the heap
  TxFrames,  \* bound: the frames that may be sent, in the order of their numbers
  RxFrames   \* bound: the frames that may arrive

VARIABLES
  stage,     \* how far the probe has come
  vq,        \* "tx", "rx" -> the queue, driver and device side
  dev,       \* the device: its place in the rings, its notification state
  mem,       \* buffer -> the frame in it, Empty, or Free
  isr,       \* VIRTIO_MMIO_INTERRUPT_STATUS
  pc,        \* the interrupt handler
  lock,      \* holder of the transmit queue's lock
  n_rxbuf,
  halted,    \* the panic that stopped the node
  wire, up   \* frames sent and handed to the message layer (history)

vars == <<stage, vq, dev, mem, isr, pc, lock, n_rxbuf, halted, wire, up>>

Idx == 0..(NQueue - 1)
Nil == NQueue             \* 0xffff, the end of the free list
Free == [id |-> -1]
Empty == [id |-> 0]
InStack == [id |-> -2]     \* owned by the message layer
Garbage == [id |-> -3]

-----------------------------------------------------------------------------
(* Virtqueues.                                                             *)

virtq_create ==
  [desc |-> [i \in Idx |-> [buf |-> 0, more |-> FALSE,
                            next |-> IF i = NQueue - 1 THEN Nil ELSE i + 1]],
   free_head |-> 0, last_used_idx |-> 0, xdata |-> [i \in Idx |-> 0],
   avail |-> [i \in Idx |-> 0], avail_idx |-> 0,
   used |-> [i \in Idx |-> [id |-> 0, len |-> 0]], used_idx |-> 0]

\* the first n + 1 entries of the free list
FreeSlots(q, n) ==
  LET s[k \in 0..n] == IF k = 0 THEN q.free_head
                       ELSE IF s[k - 1] = Nil THEN Nil ELSE q.desc[s[k - 1]].next
  IN  s

\* the chain of descriptors that starts at h, by position; its last entry repeats
Chain(q, h) ==
  LET s[k \in Idx] == IF k = 0 THEN h
                      ELSE IF q.desc[s[k - 1]].more THEN q.desc[s[k - 1]].next
                           ELSE s[k - 1]
  IN  s

ChainSet(q, h) == {Chain(q, h)[k] : k \in Idx}

HasRoom(q, n) == FreeSlots(q, n)[n - 1] # Nil

\* mutant: the last descriptor of a chain stays at the head of the free list
virtq_enqueueKeepsLast(q, n, x) ==
  LET s == FreeSlots(q, n)
  IN  [q EXCEPT !.desc = [i \in Idx |->
                            IF \E k \in 0..(n - 1) : s[k] = i
                              THEN [@[i] EXCEPT !.buf = x, !.more = i # s[n - 1]]
                              ELSE @[i]],
                !.xdata[s[0]] = x, !.free_head = s[n - 1],
                !.avail[q.avail_idx % NQueue] = s[0],
                !.avail_idx = (@ + 1) % IndexMod]

\* n descriptors are taken from the free list and chained, in the order of
\* the free list, and the chain's head is published
virtq_enqueue(q, n, x) ==
  LET s == FreeSlots(q, n)
  IN  [q EXCEPT !.desc = [i \in Idx |->
                            IF \E k \in 0..(n - 1) : s[k] = i
                              THEN [@[i] EXCEPT !.buf = x, !.more = i # s[n - 1]]
                              ELSE @[i]],
                !.xdata[s[0]] = x, !.free_head = s[n],
                !.avail[q.avail_idx % NQueue] = s[0],
                !.avail_idx = (@ + 1) % IndexMod]

\* mutant: only the head of the chain goes back to the free list
virtq_free_chainHead(q, h) == [q EXCEPT !.desc[h].next = q.free_head, !.free_head = h]

virtq_free_chain(q, h) ==
  [q EXCEPT !.desc[Chain(q, h)[NQueue - 1]].next = q.free_head, !.free_head = h]

NothingUsed(q) == q.last_used_idx = q.used_idx

UsedElem(q) == q.used[q.last_used_idx % NQueue]

\* the buffer virtq_dequeue returns, 0 when the entry has none
Dequeued(q) == q.xdata[UsedElem(q).id]

virtq_dequeue(q) ==
  virtq_free_chain([q EXCEPT !.xdata[UsedElem(q).id] = 0,
                             !.last_used_idx = (@ + 1) % IndexMod],
                   UsedElem(q).id)

-----------------------------------------------------------------------------
(* The device: what the probe finds, its status bits, its place in the     *)
(* rings, the chains it has taken and not returned, and whether it polls   *)
(* the transmit queue (VIRTQ_USED_F_NO_NOTIFY is set while it does).       *)

Devices ==
  [match : BOOLEAN,          \* magic, version and device id
   features : BOOLEAN,       \* accepts the features the driver asks for
   big : SUBSET {"tx", "rx"},\* queues with QUEUE_NUM_MAX >= NQUEUE
   ready : {{}},             \* queues with QUEUE_READY set
   driver_ok : {FALSE}, tx_at : {0}, rx_at : {0}, busy : {{}},
   mode : {"sleep"}, notified : {FALSE}, ntx : {0}, nrx : {0}]

Init ==
  /\ stage = "reset"
  /\ vq = [q \in {"tx", "rx"} |-> virtq_create]
  /\ dev \in Devices
  /\ mem = [b \in Bufs |-> Free]
  /\ isr = FALSE /\ pc = "idle" /\ lock = "none"
  /\ n_rxbuf = 0
  /\ halted = ""
  /\ wire = <<>> /\ up = <<>>

FreeBufs == {b \in Bufs : mem[b] = Free}
SomeFree == CHOOSE b \in FreeBufs : TRUE

-----------------------------------------------------------------------------
(* Probe: vtmmio_probe, then virtio_net_probe.                             *)

Probing(from) == halted = "" /\ stage = from

vtmmio_probe ==
  /\ Probing("reset")
  /\ stage' = IF dev.match THEN "found" ELSE "none"
  /\ UNCHANGED <<vq, dev, mem, isr, pc, lock, n_rxbuf, halted, wire, up>>

vtmmio_negotiate ==
  /\ Probing("found")
  /\ stage' = "features"
  /\ halted' = IF dev.features THEN "" ELSE "failed negotiate"
  /\ UNCHANGED <<vq, dev, mem, isr, pc, lock, n_rxbuf, wire, up>>

\* a queue that is too short for the driver is not registered; nobody looks
\* at the result
vtmmio_set_virtq(q, from, to) ==
  /\ Probing(from)
  /\ stage' = to
  /\ dev' = [dev EXCEPT !.ready = @ \cup ({q} \cap dev.big)]
  /\ UNCHANGED <<vq, mem, isr, pc, lock, n_rxbuf, halted, wire, up>>

\* one turn of the loop of fill_recv_queue: two descriptors per buffer
FillRecvQueue ==
  /\ n_rxbuf < NQueue \div 2
  /\ FreeBufs # {}
  /\ HasRoom(vq["rx"], 2)
  /\ vq' = [vq EXCEPT !["rx"] = virtq_enqueue(@, 2, SomeFree)]
  /\ mem' = [mem EXCEPT ![SomeFree] = Empty]
  /\ n_rxbuf' = n_rxbuf + 1

\* without memory it follows the NULL of alloc_iobuf
FillFault ==
  /\ halted = "" /\ stage \in {"queues", "up"} /\ (stage = "up" => pc = "fill")
  /\ n_rxbuf < NQueue \div 2
  /\ FreeBufs = {}
  /\ halted' = "null iobuf"
  /\ UNCHANGED <<stage, vq, dev, mem, isr, pc, lock, n_rxbuf, wire, up>>

FirstFill ==
  /\ Probing("queues")
  /\ FillRecvQueue
  /\ UNCHANGED <<stage, dev, isr, pc, lock, halted, wire, up>>

vtmmio_driver_ok ==
  /\ Probing("queues")
  /\ n_rxbuf = NQueue \div 2
  /\ dev' = [dev EXCEPT !.driver_ok = TRUE]
  /\ stage' = "up"                          \* net_init
  /\ UNCHANGED <<vq, mem, isr, pc, lock, n_rxbuf, halted, wire, up>>

Probe ==
  \/ vtmmio_probe
  \/ vtmmio_negotiate
  \/ vtmmio_set_virtq("rx", "features", "rxdone")
  \/ vtmmio_set_virtq("tx", "rxdone", "queues")
  \/ FirstFill
  \/ vtmmio_driver_ok

-----------------------------------------------------------------------------
(* Transmission: the frame is queued and the device is told, both under    *)
(* the queue's lock; the device sees the queue as soon as it is written.   *)

Running == halted = "" /\ stage = "up"

\* header, data and, when there is one, the page
Descs(f) == IF SendBuffer(f).body THEN 3 ELSE 2

virtio_net_xmit(f) ==
  /\ Running /\ lock = "none"
  /\ FreeBufs # {}
  /\ f.id = dev.ntx + 1
  /\ HasRoom(vq["tx"], Descs(f))
  /\ lock' = "xmit"
  /\ vq' = [vq EXCEPT !["tx"] = virtq_enqueue(@, Descs(f), SomeFree)]
  /\ mem' = [mem EXCEPT ![SomeFree] = f]
  /\ dev' = [dev EXCEPT !.ntx = @ + 1]
  /\ UNCHANGED <<stage, isr, pc, n_rxbuf, halted, wire, up>>

\* panic("no desc")
XmitPanic(f) ==
  /\ Running /\ lock = "none"
  /\ f.id = dev.ntx + 1
  /\ ~HasRoom(vq["tx"], Descs(f))
  /\ halted' = "no desc"
  /\ UNCHANGED <<stage, vq, dev, mem, isr, pc, lock, n_rxbuf, wire, up>>

virtq_kick ==
  /\ Running /\ lock = "xmit"
  /\ dev' = [dev EXCEPT !.notified = @ \/ dev.mode = "sleep"]
  /\ lock' = "none"
  /\ UNCHANGED <<stage, vq, mem, isr, pc, n_rxbuf, halted, wire, up>>

-----------------------------------------------------------------------------
(* The interrupt handler: vtmmio_intr acknowledges and then calls the      *)
(* handlers of the registered queues, the one registered last first.       *)

AfterTx == IF "rx" \in dev.ready THEN "rx" ELSE "idle"

vtmmio_intr ==
  /\ Running /\ pc = "idle" /\ isr
  /\ isr' = FALSE
  /\ pc' = IF "tx" \in dev.ready THEN "tx" ELSE AfterTx
  /\ UNCHANGED <<stage, vq, dev, mem, lock, n_rxbuf, halted, wire, up>>

\* txintr holds the lock for its whole loop
txintr ==
  /\ Running /\ pc = "tx" /\ lock \in {"none", "intr"}
  /\ ~NothingUsed(vq["tx"])
  /\ lock' = "intr"
  /\ IF Dequeued(vq["tx"]) = 0
       THEN halted' = "xdata" /\ UNCHANGED <<vq, mem>>
       ELSE /\ vq' = [vq EXCEPT !["tx"] = virtq_dequeue(@)]
            /\ mem' = [mem EXCEPT ![Dequeued(vq["tx"])] = Free]
            /\ UNCHANGED halted
  /\ UNCHANGED <<stage, dev, isr, pc, n_rxbuf, wire, up>>

TxIntrDone ==
  /\ Running /\ pc = "tx" /\ lock \in {"none", "intr"}
  /\ NothingUsed(vq["tx"])
  /\ lock' = "none"
  /\ pc' = AfterTx
  /\ UNCHANGED <<stage, vq, dev, mem, isr, n_rxbuf, halted, wire, up>>

VnetHdrSize == 10   \* sizeof(struct virtio_net_hdr)

\* 2^32, the range of a length; smaller here, TLC's integers end at 2^31
LenMod == 2^20

\* the buffer given to netdev_recv: body_len is what the device wrote beyond
\* the headers, u32
RecvBuffer(len) ==
  LET b == alloc_iobuf_headsize(VnetHdrSize + MsgHdrSize, 0)
  IN  iobuf_pull([b EXCEPT !.body = TRUE, !.body_len = (len - b.len) % LenMod],
                 VnetHdrSize)

\* ethernet_recv_intr hands a message for us to msg_recv and frees the rest
rxintr ==
  /\ Running /\ pc = "rx"
  /\ ~NothingUsed(vq["rx"])
  /\ IF Dequeued(vq["rx"]) = 0
       THEN halted' = "xdata" /\ UNCHANGED <<vq, mem, n_rxbuf, up>>
       ELSE LET b == Dequeued(vq["rx"])
                f == [mem[b] EXCEPT !.body = RecvBody(RecvBuffer(UsedElem(vq["rx"]).len))]
            IN  /\ vq' = [vq EXCEPT !["rx"] = virtq_dequeue(@)]
                /\ n_rxbuf' = n_rxbuf - 1
                /\ up' = IF f.to = "us" THEN Append(up, f) ELSE up
                /\ mem' = [mem EXCEPT ![b] = IF f.to = "us" THEN InStack ELSE Free]
                /\ UNCHANGED halted
  /\ UNCHANGED <<stage, dev, isr, pc, lock, wire>>

RxIntrEmpty ==
  /\ Running /\ pc = "rx"
  /\ NothingUsed(vq["rx"])
  /\ pc' = "fill"
  /\ UNCHANGED <<stage, vq, dev, mem, isr, lock, n_rxbuf, halted, wire, up>>

Refill ==
  /\ Running /\ pc = "fill"
  /\ FillRecvQueue
  /\ UNCHANGED <<stage, dev, isr, pc, lock, halted, wire, up>>

RefillDone ==
  /\ Running /\ pc = "fill"
  /\ n_rxbuf = NQueue \div 2
  /\ pc' = "idle"
  /\ UNCHANGED <<stage, vq, dev, mem, isr, lock, n_rxbuf, halted, wire, up>>

\* the message layer frees a message it has handled
MsgFree(b) ==
  /\ Running
  /\ mem[b] = InStack
  /\ mem' = [mem EXCEPT ![b] = Free]
  /\ UNCHANGED <<stage, vq, dev, isr, pc, lock, n_rxbuf, halted, wire, up>>

Handler ==
  vtmmio_intr \/ txintr \/ TxIntrDone \/ rxintr \/ RxIntrEmpty \/ Refill \/ RefillDone
  \/ FillFault

-----------------------------------------------------------------------------
(* The device.                                                             *)

\* the frame a chain describes: all its buffers must be parts of one iobuf
FrameAt(q, h) ==
  LET b == q.desc[h].buf
      c == ChainSet(q, h)
  IN  IF /\ b \in Bufs /\ \A i \in c : q.desc[i].buf = b
         /\ mem[b] \in TxFrames /\ Cardinality(c) = Descs(mem[b])
        THEN mem[b] ELSE Garbage

Live(q) == halted = "" /\ dev.driver_ok /\ q \in dev.ready

DevWake ==
  /\ Live("tx") /\ dev.notified /\ dev.mode = "sleep"
  /\ dev' = [dev EXCEPT !.notified = FALSE, !.mode = "poll"]
  /\ UNCHANGED <<stage, vq, mem, isr, pc, lock, n_rxbuf, halted, wire, up>>

DevTransmit ==
  /\ Live("tx") /\ dev.mode = "poll" /\ dev.tx_at # vq["tx"].avail_idx
  /\ LET h == vq["tx"].avail[dev.tx_at % NQueue]
     IN  /\ wire' = Append(wire, FrameAt(vq["tx"], h))
         /\ dev' = [dev EXCEPT !.tx_at = (@ + 1) % IndexMod, !.busy = @ \cup {h}]
  /\ UNCHANGED <<stage, vq, mem, isr, pc, lock, n_rxbuf, halted, up>>

\* notifications are asked for again before the last look at the ring
DevPause ==
  /\ Live("tx") /\ dev.tx_at = vq["tx"].avail_idx
  /\ dev.mode = "poll"
  /\ dev' = [dev EXCEPT !.mode = "sleep"]
  /\ UNCHANGED <<stage, vq, mem, isr, pc, lock, n_rxbuf, halted, wire, up>>

PushUsed(q, h, len) ==
  [q EXCEPT !.used[q.used_idx % NQueue] = [id |-> h, len |-> len],
            !.used_idx = (@ + 1) % IndexMod]

\* chains come back in any order
DevTxDone ==
  /\ Live("tx")
  /\ \E h \in dev.busy :
       /\ vq' = [vq EXCEPT !["tx"] = PushUsed(@, h, 0)]
       /\ dev' = [dev EXCEPT !.busy = @ \ {h}]
  /\ isr' = TRUE
  /\ UNCHANGED <<stage, mem, pc, lock, n_rxbuf, halted, wire, up>>

DevReceive(f) ==
  /\ Live("rx")
  /\ f.id = dev.nrx + 1
  /\ dev.rx_at # vq["rx"].avail_idx
  /\ LET h == vq["rx"].avail[dev.rx_at % NQueue]
     IN  /\ mem' = [mem EXCEPT ![vq["rx"].desc[h].buf] = f]
         /\ vq' = [vq EXCEPT !["rx"] = PushUsed(@, h, VnetHdrSize + FrameLen(f))]
  /\ dev' = [dev EXCEPT !.rx_at = (@ + 1) % IndexMod, !.nrx = @ + 1]
  /\ isr' = TRUE
  /\ UNCHANGED <<stage, pc, lock, n_rxbuf, halted, wire, up>>

Device == DevWake \/ DevTransmit \/ DevPause \/ DevTxDone

-----------------------------------------------------------------------------
Next ==
  \/ Probe
  \/ \E f \in TxFrames : virtio_net_xmit(f) \/ XmitPanic(f)
  \/ virtq_kick
  \/ Handler
  \/ Device
  \/ \E f \in RxFrames : DevReceive(f)
  \/ \E b \in Bufs : MsgFree(b)

-----------------------------------------------------------------------------
(* What the rings hold, for the properties.                                *)

FreeList(q) == {FreeSlots(q, NQueue)[k] : k \in 0..NQueue} \ {Nil}

Heads(q) == {h \in Idx : q.xdata[h] # 0}

\* Every descriptor is either on the free list or part of exactly one
\* outstanding chain, whatever order chains come back in (virtq_enqueue,
\* virtq_free_chain): "no desc" means that the ring is really full, "xdata"
\* never happens, and refilling the receive queue never runs out.
DescAccounted ==
  /\ \A q \in {vq["tx"], vq["rx"]} :
       /\ FreeList(q) \cup UNION {ChainSet(q, h) : h \in Heads(q)} = Idx
       /\ \A h \in Heads(q) :
            /\ ChainSet(q, h) \cap FreeList(q) = {}
            /\ \A g \in Heads(q) \ {h} : ChainSet(q, h) \cap ChainSet(q, g) = {}
  /\ halted # "xdata"
  /\ n_rxbuf = Cardinality(Heads(vq["rx"]))

\* ring entries from index i up to index j
Ring(r, i, j) == [k \in 1..((j - i) % IndexMod) |-> r[(i + k - 1) % NQueue]]

\* a frame for a queue the device knows, or from the device
Waits(b) ==
  /\ halted = ""
  /\ mem[b] \in RxFrames \/ (mem[b] \in TxFrames /\ "tx" \in dev.ready)

\* frames queued and not sent
TxQueue == LET q == vq["tx"]
               r == Ring(q.avail, dev.tx_at, q.avail_idx)
           IN  [k \in DOMAIN r |-> FrameAt(q, r[k])]

\* frames received and not handed up
RxQueue == LET q == vq["rx"]
               r == Ring(q.used, q.last_used_idx, q.used_idx)
           IN  [k \in DOMAIN r |-> mem[q.xdata[r[k].id]]]
=============================================================================

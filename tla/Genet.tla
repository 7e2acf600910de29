------------------------------- MODULE Genet -------------------------------
(***************************************************************************)
(* The Broadcom GENET driver (drivers/bcmgenet.c): its start, the transmit *)
(* ring 0 and the receive ring 16 with their control blocks, and the two   *)
(* interrupt handlers.  The hardware at the other end of the rings is      *)
(* external: it follows the producer and consumer registers.               *)
(*                                                                         *)
(* A network buffer (iobuf) is a number in Bufs; mem says which frame it   *)
(* holds.  Rings 1 to 3 and transmit ring 16 are set up and never used.    *)
(***************************************************************************)
EXTENDS Iobuf, Sequences

CONSTANTS
  NTx, NRx,    \* TX_BDS_PER_Q, GENET_Q16_RX_BD_CNT
  IndexMod,    \* 2^16, DMA_P_INDEX_MASK and DMA_C_INDEX_MASK
  DoneThresh,  \* descriptors done before an interrupt (DMA_MBUF_DONE_THRESH)
  DiscardMax,  \* 0xC000
  Bufs,        \* bound: buffers of the heap
  Phys,        \* the PHYs that may be there
  TxFrames, RxFrames

VARIABLES
  stage,   \* how far bcmgenet_init has come
  ring,    \* the rings, driver and hardware side
  dev,     \* the hardware: registers the driver sets, what it has in hand
  mem,     \* buffer -> the frame in it, Empty, InStack or Free
  isr,     \* INTRL2_CPU_STAT of both blocks
  pc,      \* the interrupt handlers
  phy,     \* m_link, m_speed, m_duplex, m_pause
  halted,  \* a failed assertion
  wire, up

vars == <<stage, ring, dev, mem, isr, pc, phy, halted, wire, up>>

Free    == [id |-> -1]
Empty   == [id |-> 0]
InStack == [id |-> -2]      \* owned by the message layer
Garbage == [id |-> -3]

FreeBufs == {b \in Bufs : mem[b] = Free}
SomeFree == CHOOSE b \in FreeBufs : TRUE

-----------------------------------------------------------------------------
(* The rings.  PROD and CONS are the registers, prod_index and c_index what*)
(* the driver remembers of them.                                           *)

init_tx_ring ==
  [cb |-> [i \in 0..(NTx - 1) |-> 0], eop |-> [i \in 0..(NTx - 1) |-> FALSE],
   write_ptr |-> 0, clean_ptr |-> 0, free_bds |-> NTx,
   prod_index |-> 0, c_index |-> 0, PROD |-> 0, CONS |-> 0]

init_rx_ring(cbs) ==
  [cb |-> cbs, read_ptr |-> 0, c_index |-> 0, PROD |-> 0, CONS |-> 0,
   discards |-> 0, old_discards |-> 0]

\* get_txcb: the slots of the next n descriptors
TxSlot(t, k) == (t.write_ptr + k) % NTx

Descs(f) == IF SendBuffer(f).body THEN 2 ELSE 1

\* mutant: the last free descriptor is never given back
tx_reclaimKeepsOne(t) ==
  LET ready == (t.CONS - t.c_index) % IndexMod
  IN  [t EXCEPT !.cb = [i \in DOMAIN @ |->
                          IF (i - t.clean_ptr) % NTx < ready THEN 0 ELSE @[i]],
                !.clean_ptr = (@ + ready) % NTx]

\* tx_reclaim: the control blocks the hardware is done with are cleared
tx_reclaim(t) ==
  LET ready == (t.CONS - t.c_index) % IndexMod
  IN  [t EXCEPT !.cb = [i \in DOMAIN @ |->
                          IF (i - t.clean_ptr) % NTx < ready THEN 0 ELSE @[i]],
                !.clean_ptr = (@ + ready) % NTx, !.free_bds = @ + ready,
                !.c_index = t.CONS]

\* The buffers free_tx_cb frees: that of every control block it clears, also
\* when the buffer's other descriptor is still the hardware's.
Reclaimed(t) == {t.cb[i] : i \in {j \in DOMAIN t.cb : tx_reclaim(t).cb[j] = 0}} \ {0}

-----------------------------------------------------------------------------
(* The PHY: what the link partner and this end can do.                     *)

NoPhy == [link |-> -1, speed |-> -1, duplex |-> -1, pause |-> -1]

\* phy_read_status: the fastest mode both ends have
phy_read_status(p) ==
  LET gb     == p.lpagb \cap p.ctrl1000
      common == p.lpa \cap p.adv
      speed  == IF gb \cap {"1000F", "1000H"} # {} THEN 1000
                ELSE IF common \cap {"100F", "100H"} # {} THEN 100 ELSE 10
      duplex == IF speed = 1000 THEN "1000F" \in gb
                ELSE IF speed = 100 THEN "100F" \in common ELSE "10F" \in common
  IN  [link |-> 1, speed |-> speed, duplex |-> IF duplex THEN 1 ELSE 0,
       pause |-> IF duplex /\ "PAUSE" \in p.lpa THEN 1 ELSE 0]

-----------------------------------------------------------------------------
(* Start.                                                                  *)

Init ==
  /\ stage = "dt"
  /\ ring = [tx |-> init_tx_ring, rx |-> init_rx_ring([i \in 0..(NRx - 1) |-> 0])]
  /\ dev \in [version : {5, 6}, phy : Phys, cmd : {{}}, unmasked : {{"tx", "rx"}},
              dma : {TRUE}, mode : {NoPhy}, part : {<<>>}, done : {0},
              ntx : {0}, nrx : {0}]
  /\ mem = [b \in Bufs |-> Free]
  /\ isr = {} /\ pc = "idle"
  /\ phy = NoPhy
  /\ halted = ""
  /\ wire = <<>> /\ up = <<>>

Starting(s) == halted = "" /\ stage = s

\* register value 6 is version 5, the only one supported; interrupts are
\* masked and cleared, the MAC is off, and so is DMA
init_umac ==
  /\ Starting("dt")
  /\ stage' = IF dev.version = 6 THEN "umac" ELSE "failed"
  /\ dev' = IF dev.version = 6
              THEN [dev EXCEPT !.cmd = {}, !.unmasked = {}, !.dma = FALSE] ELSE dev
  /\ isr' = {}
  /\ UNCHANGED <<ring, mem, pc, phy, halted, wire, up>>

\* every receive slot gets a buffer before DMA is switched on; without memory
\* the start fails
init_dma ==
  /\ Starting("umac")
  /\ \/ /\ stage' = "dma"
        /\ LET cbs == [i \in 0..(NRx - 1) |-> i + 1]
           IN  /\ ring' = [tx |-> init_tx_ring, rx |-> init_rx_ring(cbs)]
               /\ mem' = [b \in Bufs |-> IF b <= NRx THEN Empty ELSE Free]
        /\ dev' = [dev EXCEPT !.dma = TRUE]
     \/ /\ stage' = "failed"
        /\ UNCHANGED <<ring, mem, dev>>
  /\ UNCHANGED <<isr, pc, phy, halted, wire, up>>

\* mii_probe: PHY address 1, then 0; an error ends the start.  Without a link
\* the MAC is not programmed, and nobody looks at the link again.
mii_probe ==
  /\ Starting("dma")
  /\ \/ /\ dev.phy.answers = {} \/ (dev.phy.link /\ "MSFAIL" \in dev.phy.lpagb)
        /\ stage' = "failed"
        /\ phy' = [phy EXCEPT !.link = IF dev.phy.answers = {} THEN @ ELSE 1]
        /\ UNCHANGED dev
     \/ /\ dev.phy.answers # {}
        /\ ~(dev.phy.link /\ "MSFAIL" \in dev.phy.lpagb)
        /\ stage' = "mii"
        /\ phy' = IF dev.phy.link THEN phy_read_status(dev.phy) ELSE [phy EXCEPT !.link = 0]
        /\ dev' = [dev EXCEPT !.mode = IF dev.phy.link THEN phy_read_status(dev.phy) ELSE @]
  /\ UNCHANGED <<ring, mem, isr, pc, halted, wire, up>>

\* rx interrupts, the MAC, tx interrupts; the address filter; net_init
netif_start ==
  /\ Starting("mii")
  /\ dev' = [dev EXCEPT !.unmasked = {"tx", "rx"}, !.cmd = {"TX_EN", "RX_EN"}]
  /\ stage' = "up"
  /\ UNCHANGED <<ring, mem, isr, pc, phy, halted, wire, up>>

Start == init_umac \/ init_dma \/ mii_probe \/ netif_start

-----------------------------------------------------------------------------
(* Transmission, with interrupts off and m_tx_lock held: the hardware sees *)
(* nothing of it before the producer index is written.                     *)

Running == halted = "" /\ stage = "up"

\* a frame without room in the ring is dropped, its buffer is not freed
bcmgenet_xmit(f) ==
  /\ Running
  /\ FreeBufs # {}
  /\ f.id = dev.ntx + 1
  /\ dev' = [dev EXCEPT !.ntx = @ + 1]
  /\ mem' = [mem EXCEPT ![SomeFree] = f]
  /\ ring' =
       IF ring.tx.free_bds < 2
         THEN ring
         ELSE LET t == ring.tx
                  n == Descs(f)
                  s == {TxSlot(t, k) : k \in 0..(n - 1)}
              IN [ring EXCEPT !.tx =
                    [t EXCEPT !.cb = [i \in DOMAIN @ |-> IF i \in s THEN SomeFree ELSE @[i]],
                              !.eop = [i \in DOMAIN @ |-> IF i \in s THEN i = TxSlot(t, n - 1)
                                                          ELSE @[i]],
                              !.write_ptr = (@ + n) % NTx, !.free_bds = @ - n,
                              !.prod_index = (@ + n) % IndexMod,
                              !.PROD = (t.prod_index + n) % IndexMod]]
  /\ UNCHANGED <<stage, isr, pc, phy, halted, wire, up>>

-----------------------------------------------------------------------------
(* Interrupts.  Each handler reads the status and clears it, and the       *)
(* routine it calls clears its bit again before it reads an index.         *)

Raised == isr \cap dev.unmasked

bcmgenet_intr_irq0 ==
  /\ Running /\ pc = "idle" /\ "rx" \in Raised
  /\ isr' = isr \ {"rx"}
  /\ pc' = "rxintr"
  /\ UNCHANGED <<stage, ring, dev, mem, phy, halted, wire, up>>

bcmgenet_intr_irq1 ==
  /\ Running /\ pc = "idle" /\ "tx" \in Raised
  /\ isr' = isr \ {"tx"}
  /\ pc' = "tx_reclaim"
  /\ UNCHANGED <<stage, ring, dev, mem, phy, halted, wire, up>>

Reclaim ==
  /\ Running /\ pc = "tx_reclaim"
  /\ isr' = isr \ {"tx"}
  /\ ring' = [ring EXCEPT !.tx = tx_reclaim(@)]
  /\ mem' = [b \in Bufs |-> IF b \in Reclaimed(ring.tx) THEN Free ELSE mem[b]]
  /\ pc' = "idle"
  /\ UNCHANGED <<stage, dev, phy, halted, wire, up>>

\* the count of discarded frames shares a register with the producer index
\* and is set back when it becomes large
CountDiscards(r) ==
  IF r.discards <= r.old_discards THEN r
  ELSE IF r.discards >= DiscardMax
    THEN [r EXCEPT !.discards = 0, !.old_discards = 0]
    ELSE [r EXCEPT !.old_discards = r.discards]

\* the buffer that takes b's place; without memory b stays
rx_refill(b) == IF FreeBufs = {} THEN b ELSE SomeFree

LEADING_PAD == 2
FRAME_BUFFER_SIZE == 4500
FcsLen      == 4     \* msg_recv expects the frame check sequence at the end

\* the buffer given to netdev_recv: 8 KiB, of which the hardware wrote nLength
RecvBuffer(nLength) ==
  iobuf_pull([alloc_iobuf_headsize(2 * PAGESIZE, 0) EXCEPT !.len = nLength], LEADING_PAD)

\* One packet, whatever the producer index says.
bcmgenet_rxintr ==
  /\ Running /\ pc = "rxintr"
  /\ isr' = isr \ {"rx"}
  /\ pc' = "idle"
  /\ LET r    == CountDiscards(ring.rx)
         b    == r.cb[r.read_ptr]
         new  == rx_refill(b)
         f    == mem[b]
         len  == IF f \in RxFrames THEN LEADING_PAD + FrameLen(f) + FcsLen ELSE 0
         next == [r EXCEPT !.cb[r.read_ptr] = new,
                           !.read_ptr = (@ + 1) % NRx,
                           !.c_index = (@ + 1) % IndexMod,
                           !.CONS = (r.c_index + 1) % IndexMod]
     IN  /\ IF r.PROD = r.c_index
              THEN ring' = [ring EXCEPT !.rx = r] /\ UNCHANGED <<mem, up>>
              ELSE /\ ring' = [ring EXCEPT !.rx = next]
                   /\ IF new = b
                        THEN mem' = [mem EXCEPT ![b] = Empty] /\ up' = up
                        ELSE /\ mem' = [mem EXCEPT ![new] = Empty,
                                                   ![b] = IF f.to = "us" THEN InStack ELSE Free]
                             /\ up' = IF f.to = "us"
                                        THEN Append(up, [f EXCEPT !.body = RecvBody(RecvBuffer(len))])
                                        ELSE up
         /\ halted' = IF r.PROD # r.c_index /\ len > FRAME_BUFFER_SIZE THEN "assert" ELSE ""
  /\ UNCHANGED <<stage, dev, phy, wire>>

\* the message layer frees a message it has handled
MsgFree(b) ==
  /\ Running /\ mem[b] = InStack
  /\ mem' = [mem EXCEPT ![b] = Free]
  /\ UNCHANGED <<stage, ring, dev, isr, pc, phy, halted, wire, up>>

Handler == bcmgenet_intr_irq0 \/ bcmgenet_intr_irq1 \/ Reclaim \/ bcmgenet_rxintr

-----------------------------------------------------------------------------
(* The hardware.                                                           *)

LinkUp == dev.mode.link = 1

\* what the descriptors of a frame point at
FrameOf(bufs) ==
  LET b == bufs[1]
  IN  IF /\ \A k \in DOMAIN bufs : bufs[k] = b
         /\ b # 0 /\ mem[b] \in TxFrames /\ Len(bufs) = Descs(mem[b])
        THEN mem[b] ELSE Garbage

\* one descriptor is read; the frame goes out with its last one
DevTransmit ==
  /\ halted = "" /\ dev.dma /\ "TX_EN" \in dev.cmd /\ LinkUp
  /\ ring.tx.CONS # ring.tx.PROD
  /\ LET i    == ring.tx.CONS % NTx
         part == Append(dev.part, ring.tx.cb[i])
         done == dev.done + 1
     IN  /\ dev' = [dev EXCEPT !.part = IF ring.tx.eop[i] THEN <<>> ELSE part,
                               !.done = done % DoneThresh]
         /\ wire' = IF ring.tx.eop[i] THEN Append(wire, FrameOf(part)) ELSE wire
         /\ isr' = IF done = DoneThresh THEN isr \cup {"tx"} ELSE isr
  /\ ring' = [ring EXCEPT !.tx.CONS = (@ + 1) % IndexMod]
  /\ UNCHANGED <<stage, mem, pc, phy, halted, up>>

\* a frame that finds no buffer is counted and lost
DevReceive(f) ==
  /\ halted = "" /\ dev.dma /\ "RX_EN" \in dev.cmd /\ LinkUp
  /\ f.id = dev.nrx + 1
  /\ dev' = [dev EXCEPT !.nrx = @ + 1]
  /\ LET r == ring.rx
     IN  IF (r.PROD - r.CONS) % IndexMod = NRx
           THEN ring' = [ring EXCEPT !.rx.discards = @ + 1] /\ UNCHANGED <<mem, isr>>
           ELSE /\ ring' = [ring EXCEPT !.rx.PROD = (@ + 1) % IndexMod]
                /\ mem' = [mem EXCEPT ![r.cb[r.PROD % NRx]] = f]
                /\ isr' = isr \cup {"rx"}
  /\ UNCHANGED <<stage, pc, phy, halted, wire, up>>

Next ==
  \/ Start
  \/ \E f \in TxFrames : bcmgenet_xmit(f)
  \/ Handler
  \/ DevTransmit
  \/ \E f \in RxFrames : DevReceive(f)
  \/ \E b \in Bufs : MsgFree(b)

-----------------------------------------------------------------------------
(* What the rings hold, for the properties.                                *)

TxBusy == (ring.tx.prod_index - ring.tx.c_index) % IndexMod

TxFull == stage = "up" /\ LinkUp /\ ring.tx.free_bds < 2

\* The control blocks in use are those between clean_ptr and write_ptr, each
\* buffer in a ring is in memory and in one ring only.
RingsAccounted ==
  /\ ring.tx.free_bds = NTx - TxBusy
  /\ ring.tx.write_ptr = (ring.tx.clean_ptr + TxBusy) % NTx
  /\ \A i \in 0..(NTx - 1) : ring.tx.cb[i] # 0 => mem[ring.tx.cb[i]] \in TxFrames
  /\ stage = "up" =>
       \A i \in 0..(NRx - 1) :
         /\ mem[ring.rx.cb[i]] \in RxFrames \cup {Empty}
         /\ \A j \in (0..(NRx - 1)) \ {i} : ring.rx.cb[j] # ring.rx.cb[i]

\* slots from index i up to index j, n slots in the ring
Slots(i, j, n) == [k \in 1..((j - i) % IndexMod) |-> (i + k - 1) % n]

\* frames queued and not sent (header-only frames: one descriptor each)
TxQueue == LET s == Slots(ring.tx.CONS, ring.tx.PROD, NTx)
           IN  [k \in DOMAIN s |-> FrameOf(<<ring.tx.cb[s[k]]>>)]

\* frames received and not handed up
RxQueue == LET s == Slots(ring.rx.c_index, ring.rx.PROD, NRx)
           IN  [k \in DOMAIN s |-> mem[ring.rx.cb[s[k]]]]
=============================================================================

# Pilevisor in TLA+

Pilevisor is a thin aarch64 hypervisor that joins several machines into one
virtual machine.  Every machine ("node") runs the same hypervisor; the guest's
memory is one virtual shared memory kept coherent page by page over Ethernet,
its vCPUs are spread over the nodes, and interrupts, MMIO accesses and PSCI
calls are forwarded as messages.  This directory holds TLA+ models of the parts
in which nodes, cpus and interrupt handlers meet, the TLC runs that check them
on small instances, and TLAPS proofs about them for all instances.

`PROJECT.json` lists the components, the runs, which definition models which
lines, the hazards each property is there for, and the theorems.

## 1. Inventory

### Virtual shared memory (`core/vsm.c`, `include/vsm.h`, `include/s2mm.h`)
State, per guest page: the stage-2 entry at every node (access flag,
permission, copyset bits), the owner recorded by the page's *manager* (the node
whose memory range contains the page), a page descriptor with a lock byte, a
waitqueue lock byte and a waitqueue.  Operations: a data abort fetches the page
for reading or writing (`__vsm_read_fetch_page`, `__vsm_write_fetch_page`), the
servers answer or forward a request and take invalidations
(`vsm_*_server_process`), whoever holds the page processes the waitqueue before
unlocking.  Hard: several cpus and the message context of each node compete for
the page; a cpu holds the page lock while it waits for other nodes;
invalidations are not acknowledged; ownership moves in messages.  Correct when:
there is one owner, it has the newest contents and knows all copies, an old
copy is on its way out, and every fetch is answered.

### Page lock and waitqueue (`core/vsm.c:120-360`)
State: the halfword `{lock, wqlock}`, the queue.  Operations: `page_trylock`,
`page_spinlock`, `vwq_lock`, `page_unlock`, `vsm_enqueue_proc`,
`vsm_process_waitqueue`, in exclusive loads and stores with `wfe`.  Hard:
`vwq_lock` stores both bytes at once; sleeping in `wfe`; the message context
interrupts a cpu that may be inside one of these functions.  Correct when: it
is a monitor (mutual exclusion, FIFO, nothing left behind) and nobody sleeps
through a release.

### Message layer (`core/msg.c`, `core/irq.c`)
State: a receive queue per cpu, `reply_buf` per vCPU, the interrupt and
lazy-interrupt depth.  Operations: `msg_recv` in the NIC interrupt puts replies
on the queue of the requesting cpu (with an SGI) and everything else on its
own; `do_recv_waitqueue` handles the queue at the tail of an interrupt, with
interrupts enabled; `__send_msg` waits for the reply up to 200 ms.  Hard:
nested interrupts, unlocked tests of the queue, the timeout.  Correct when:
nothing stays in a queue, and the callback gets the reply of its own request.

### Cluster bring-up (`core/node.c`, `main/node.c`, `sub/node.c`)
State: the cluster table, the online and active maps, each node's id.
Operations: the five steps of the "node discover protocol".  Hard: machines
start at any time, Node 0's interrupt handler extends the table while its
thread reads it, the wait loops.  Correct when: ids, vCPU ids and memory are
disjoint, all nodes agree, the guest starts after every node is set up, and it
does start (which the wait loops do not ensure, see Findings).

### Virtual PSCI and vCPU start (`core/vpsci.c`, `core/vcpu.c`, `core/pcpu.c`)
State: `online`, `reg.elr` and the lock of each vCPU, `wakeup` of each physical
cpu.  Operations: CPU_ON here or on another node, booting the cpu, waiting for
`online`, entering the guest.  Hard: concurrent CPU_ONs, the booted cpu racing
with the caller, the boot clock.  Correct when: one SUCCESS per vCPU, entry at
that call's address, every call returns, success leads to entry (unless the cpu
oversleeps, see Findings).

### Virtual GIC (`core/vgic.c`, `core/vgic-v3.c`, `drivers/gicv3.c`)
State: per vCPU a ring of pending interrupts with a lock and the enable bits,
per cpu the list registers, for the node the distributor.  Operations: an SGI
of a vCPU goes to the list registers of the same cpu, the ring of another vCPU
of the node (announced by the physical SGI_INJECT), or to another node as
MSG_SGI; the timer's interrupt is passed on and stays active until the guest
ends it.  Hard: handlers nest, because traps, messages and device interrupts
are handled with interrupts enabled; several cpus fill one ring; a full ring or
full list registers panic.  Correct when: a pending interrupt has one owner
until it is freed, a waiting one is announced, no cpu waits for ever, and an
interrupt handed to the injection reaches a list register.

### MMIO emulation and the GIC's registers (`core/trap.c`, `core/vmmio.c`, `core/vgic*.c`)
State: per interrupt its enable, group, priority, configuration and target
bits, kept by the vCPU for SGIs and PPIs and by *every node separately* for
SPIs; what is enabled in the physical GIC; the requests and broadcasts under
way.  Operations: a trapped load or store finds its region and its handler;
the handler takes the interrupts of the register one by one; a redistributor of
a vCPU of another node is reached by request and reply; ITARGETSR is applied
here and broadcast.  Hard: a request is served inside whatever the network
cpu is doing; handlers of two cpus interleave interrupt by interrupt; the nodes
have copies.  Correct when: an access returns, a read gives what was last
written to the register it names wherever that is, the copies of the targets
agree, and the physical GIC follows.

### Memory (`core/memory.c`, `core/allocpage.c`, `core/malloc.c`, `core/iomem.c`, `core/mm.c`, `core/s2mm.c`)
State: the early allocator, the reserved ranges, a free list per order, heap
frames, the I/O address space, the VMM's tables and the guest's stage-2 tables.
Operations: the boot sequence of `vmm_init_cpu0`, allocation and freeing, the
table walk that creates what is missing, blocks, stage-2 mapping.  Hard: memory
changes hands three times during the boot; the walk is not locked; the walk
allocates.  Correct when: every page has one owner, and the tables hold what
each call asked for and nothing else changed.

### Device tree and platform drivers (`core/fdt.c`, `core/device.c`, `drivers/`)
State: the parsed tree, the devices found.  Operations: parsing the tokens,
paths, aliases, compatible tables, cells, address translation through `ranges`;
each driver's search and what it maps.  Sequential, but every result depends on
cell counts inherited from parents, on the order of nodes and on disabled ones.
Correct when: each driver gets the registers and the interrupt of the device it
asked for, memory and cpus are those of the tree.

### Network drivers (`drivers/net.c`, `drivers/virtio/`, `drivers/bcmgenet.c`)
State: descriptors, rings and indices shared with the device, the buffers in
them, the interrupt status.  Operations: probe and negotiation, transmission,
completion, reception, refilling.  Hard: the device works and interrupts at
any point; indices wrap; the ring fills; the heap runs out.  Correct when: no
descriptor or buffer is lost or in two places, and frames go through whole,
once and in order.

### Not modelled
* The assembly start-up and exception vectors, TLB and cache maintenance: what
  they do is hardware state that no C code reads back.
* The list and acknowledge registers of `drivers/gicv2.c`, and the injection of
  SPIs; GICv3 injection is in `Vgic`.
* System registers other than ICC_SGI1R_EL1: read-only constants and copies.
* The register sequences of UART, GPIO, mailbox, PCI and timer drivers: their
  state is in the device.
* Formatting, logging, string functions, the guests.
* Copying the guest's kernel, device tree and initrd into its memory at boot
  (`map_guest_image` and `copy_to_guest`, `main/node.c:52-64`): one cpu, before
  any other node or the guest runs; it writes pages that are mapped already.
* Code that nothing calls: `core/emul.c` and `vsm_access`, which only it uses,
  `copy_from_guest`, `alloc_guestmem`, `s2pageunmap`, `early_fdt_*`,
  `msg_dequeue`, `node_panic_signal`, `drivers/pci.c`,
  `drivers/virtio/virtio-pci.c`; `iofree` has an empty body.

### How the parts interact
A data abort (trap) enters the shared memory protocol, which sends through the
message layer and is called back by it; both share the page lock.  Bring-up
fills the table that the protocol's manager function, the message layer's
addresses and the vPSCI's routing read.  vPSCI and MMIO forwarding use the
message layer's request/reply exchange.  The message layer hands buffers to the
network driver and gets them from its interrupt handler; both allocate them on
the heap.  A fetched page is mapped by the stage-2 walk, which takes tables
from the page allocator.

## 2. Modules

| module | models | state and actions |
|---|---|---|
| `CoherentPage` | what a guest may rely on for one page | stores in one total order, every node's view only moves forward and only to the newest contents |
| `Vsm` | the protocol for one page on all nodes | one action per locked step: fault, request, serve, send, forward, invalidate, reply, unlock |
| `PageMonitor` | the page lock as `Vsm` uses it | a holder and a FIFO of requests |
| `PageLock` | the page lock as `core/vsm.c` implements it | one action per exclusive load or store, enqueue, serve, unlock |
| `Msg` | reception and waiting on one node | per cpu: base level, `do_recv_waitqueue`, interrupt |
| `Cluster` | the discovery protocol | per machine: the thread of cpu 0 and the message handlers |
| `CpuOn`, `MCCpuOn` | PSCI CPU_ON and the start of a vCPU | callers, the handler of each node, each physical cpu |
| `Vgic`, `MCVgic` | injecting interrupts on one node | per cpu a stack of nested handlers: search and write of a list register, lock/store/announce of a ring, its emptying by SGI_INJECT; the timer and the guest |
| `RegisterBank` | what the GIC emulation promises a guest | a value per interrupt and owner; an access touches each interrupt at one moment before it returns |
| `GicMmio`, `MCGicMmio` | trapped accesses to distributor and redistributor, GICv2 and v3 | one action per interrupt of a handler, forward, serve, reply, broadcast, and the physical enable bits |
| `PageAlloc` | page allocator and heap | operators on one record: free lists, frames, tables |
| `PageTable` | table walk, pages, blocks, stage 2 | operators on that record; entries keep the bits the code tests |
| `DeviceTree` | parser and queries | operators on the token sequence and on the tree |
| `Memory`, `MCMemory` | a node from its first C function to its guests' faults | one action per call of `vmm_init_cpu0`; then faults (one action per load or store of an entry), `malloc`/`free`, pass-through mappings |
| `FrameService` | what a node expects of its NIC driver | two FIFOs, out and in |
| `Iobuf` | buffers, Ethernet header, where a body is found | operators on offsets |
| `VirtioNet` | virtqueues, the MMIO transport, virtio-net, the device | probe steps, sender under the queue lock, interrupt handler, the device's reads and writes |
| `Genet` | the GENET driver and its hardware | start with its failures, transmit ring, receive ring, both handlers |
| `NetDev`, `MCNetDev` | `nic->ops`: one of the two drivers | the composition that is checked against `FrameService` |
| `VsmInvariants` | the inductive invariants of `Vsm` | four layers, used by the module below |
| `VsmProofs` | proofs about `Vsm` | layers 1 to 4, between them the refinement of `CoherentPage` |
| `PageLockProofs`, `MsgProofs`, `ClusterProofs`, `CpuOnProofs`, `VgicProofs`, `GicMmioProofs`, `NetDevProofs` | proofs about the module of that name | each begins with its inductive invariant |

Abstractions and why they are sound:

* **One page.**  Descriptors, entries and messages of different pages share
  nothing but the transport.  What a page contains is the number of stores it
  includes.  The guest stores at any time while the entry is writable.
* **`Vsm` uses the lock as a monitor**: a request is appended and, if the page
  is free, its server takes the page in the same step.  That is what
  `PageMonitor` says and what `PageLock` is shown to implement.
* **Order of messages.**  Requests and invalidations between two nodes stay in
  order: one frame each, one receive queue (that of the NIC's cpu).  Replies go
  to the requesting cpu's queue and may overtake them, so `Vsm` keeps them
  apart.  Frames are not lost: the code never retransmits, it panics
  (`core/msg.c:312`).
* **`copying`** in `Vsm` separates the moment a server takes its entry down
  from the moment it sends the frame, because another cpu of the node may still
  be running guest code in between.
* **Exclusive monitor** (`PageLock`): a store to the halfword clears the marks
  of the other cpus and sets their event registers; a store-exclusive may fail
  spuriously.  The message context runs on `NicCpu`, which stands still
  meanwhile and must have its interrupts enabled for it to start.
* **wfi** (`Cluster`, `CpuOn`): the test and the wfi are separate steps; a
  handled interrupt ends a wfi only if the cpu is already in it.  `OtherIrq` is
  any other interrupt; it may happen and need not, because the hypervisor has
  no tick (its timer is masked, `drivers/arch-timer.c:27-31`).
* **Interrupts** (`Msg`): `IrqEntry` takes one interrupt.
  `gicv3_irq_handler` goes on with those that arrive before it is done
  (`drivers/gicv3.c:352-376`); for the queues that is the same as entering once
  more before the tail.
* **Nested handlers** (`Vgic`): `stack[c]` holds the unfinished handlers of cpu
  c.  Steps that only touch what the cpu itself owns are merged with the next
  visible one; the search for a free list register and the write stay apart,
  because a nested handler may come in between.  The search reads `ICH_ELSR`
  once, so it is one step.  A message is handled at the tail of an interrupt
  taken from the guest or from a trap handler, never inside another interrupt.
* **A panic** stops its node; in `Vsm` a state in which the code panics is
  excluded by `NoPanic`.
* **Memory in `Cluster`** is counted in units of `MEM_PER_NODE`, the only size
  `localvm_init` accepts.  The cluster stays below `NODE_MAX` and `VCPU_MAX` and
  every machine has a network device, so the panics of `core/node.c:146-156` do
  not occur.
* **Handlers of GIC registers** (`GicMmio`): a register holds `Width` = 2
  interrupts instead of 4 to 32; each is one step under its lock.  One PPI (the
  timer) and one SPI have a physical interrupt.  SPI state belongs to a node, as
  in the code: a guest's write reaches the node of its vCPU only (`owner` in
  `RegisterBank` is that node), except ITARGETSR, which is broadcast.  All vCPUs
  have been started: starting one resets its private interrupts
  (`vgic_cpu_init`), and what another vCPU had written to them before is lost.
  Registers name existing interrupts; the last ones of a range reach 1020 and
  more, where `core/vgic.c:213` asserts.
* **Small address spaces** (`Memory`): a table has 2^Order entries, so a 2 MiB
  block is `Chunk` pages; register addresses count half pages (`PAGESIZE` = 2),
  so a region can begin inside a page; a device-tree cell wraps at `CellBase`.
  The walk of a fault is interleaved load by load and store by store; calls of
  the allocators run under a spinlock with interrupts off and are one step.
* **Node names** (`DeviceTree`) are sequences of parts, so that the code's
  comparison up to a length is a prefix test.
* **Buffers and frames** (`VirtioNet`, `Genet`): a buffer is a number, its
  contents a frame with the bytes behind the header; only sizes and offsets are
  calculated.  The device may take any queued descriptor at any time and raise
  its interrupt at any time after.
* **Frames with a page through GENET**: `TxFrames` is what virtio is given to
  send, `GenetTx` what GENET is given.  `tx_reclaim` frees the buffer of a frame
  with a page once for each of its two descriptors (`drivers/bcmgenet.c:368`),
  and `Reclaimed` does so too.  In the run, and as the hypothesis of the theorems
  about both drivers, GENET is given frames without a page (`HeaderOnly`);
  `GenetPages.cfg` shows what happens with one.  What the double free does to
  the heap's own lists is not modelled: the buffer is free again.
* **A receive buffer that cannot be allocated** stops the virtio node
  (`FillFault`): `fill_recv_queue` uses the result of `alloc_iobuf` unseen
  (`drivers/virtio/virtio-net.c:86-88`).

## 3. Runs

| run | instance | what it shows |
|---|---|---|
| `vsm_safety` | 3 nodes, 1 cpu each, all using the page, 1 store | ownership, newest contents, copy tracking, no panic, no cycle of nodes that wait for each other with the page locked |
| `vsm_cpus` | 2 nodes, 2 cpus | replies find their cpu, every fetch is answered, stale copies go away, refinement of `CoherentPage` |
| `page_lock` | 2 cpus and the message context, 2 messages | mutual exclusion, no lost wake-up, service, refinement of `PageMonitor` |
| `msg` | 2 cpus, 2 requests each way | nothing stranded, right replies that fit, all handled |
| `cluster` | Node 0 waits for two of three machines | disjoint resources and agreement of the tables, boot after setup, who may panic; the guest boots unless a machine oversleeps |
| `lost_wakeup` | Node 0 waits for both of its machines | **violation**: a machine sleeps through the last message and the guest does not boot (finding below) |
| `cpu_on` | 2 nodes, 4 vCPUs, 4 calls, firmware failures | one SUCCESS, right entry with the clock set, running vCPUs untouched; calls return, success leads to entry unless the booted cpu oversleeps |
| `vgic` | 3 cpus, one list register, rings of two, SGIs to each other and to another node, one message, one timer, one cpu started late | one owner per pending interrupt, waiting ones are announced, all are delivered |
| `nic` | both drivers; rings of 4, two receive buffers, 4 buffers, indices modulo 4; four PHYs | descriptors and buffers accounted for, refinement of `FrameService`, what is queued gets sent or handed up |
| `memory` | a virt board and a Raspberry Pi 4, nodes in two orders; two cpus, 3 operations | every page has one owner, the tables hold what was asked, the devices found are those of the tree |
| `s2_race` | the same, faults under one missing table | **violation**: the entry just mapped is gone (finding below) |
| `gic_mmio` | 2 nodes, 3 vCPUs, 24 different accesses of which any 3 happen, both versions | targets agree, the physical GIC follows, accesses return, refinement of `RegisterBank` |

Each `TypeOK` describes its module's state for readers and for the proofs; it
is a property of a run where a theorem states it.

Why the bounds are enough to be interesting: three nodes are the fewest with a
requester, an owner and a manager that are all different, which is when
requests are forwarded; two cpus on a node are the fewest with a fault that
finds the page already there and with a reply for the other cpu; one store
separates old from new contents and two order the stores of different nodes.
Liveness is checked with two nodes, where nothing is forwarded; with three
`NoWaitCycle` takes its place, and `VsmForward.cfg` is a smaller instance, whose
manager only forwards, in which every fetch is answered.
`MaxChan` only keeps new faults away from a node whose channels are already
full; requests that are on their way are never refused.  Two messages in
`page_lock` make one wait in the queue while the other is served.  In `cpu_on`
vCPU 0 has the two calls it needs to start vCPUs 1 and 3, which then race for
vCPU 2; or it starts one of them and races with it.  The third machine of
`cluster` may answer before, while or after Node 0 reads its table.  In `vgic`
each of two vCPUs has two senders, one of them the other, which is what a cycle
of ring locks would need; a ring of two has one usable
slot (the code's four have three), so that it is full when both have sent, and
one list register is full as soon as an interrupt is in it.

In `nic` up to four frames, of two or three descriptors each, go through a ring of four, so
the free list is exhausted, refilled out of order and the indices wrap; four
buffers for two directions make the heap run dry; the GENET threshold of two
leaves a completed frame unreported.  In `memory` the boards put the image, the
device-tree blob and reserved ranges at the beginning, in the middle and across
blocks, the second order moves every node, and three operations let one cpu
fault or allocate between the steps of the other's fault.  The remote
pages 66 and 128 of `memory` are under different tables, since two faults under
one missing table are what `s2_race` is about.  In `gic_mmio` three accesses
are two that interleave and one that reads the result; vCPU 0 alone writes
ITARGETSR, since the broadcasts of two writers are not ordered (see Findings).

Deadlock is checked in `page_lock` and the `vsm_*` runs.  In `msg`, `cluster`,
`cpu_on`, `vgic`, `nic`, `memory` and `gic_mmio` the workload is finite and the
system stops when it is done, or a node panics as the code does; there the
liveness properties take the place of the deadlock check.

### Fairness
* Cpus keep executing, interrupts that are pending and enabled are taken:
  weak fairness per cpu or context.
* A store-exclusive that is retried for ever eventually succeeds (strong
  fairness on the store), as the architecture promises for such loops.
* `Vsm`: strong fairness on receiving the next request of each channel, since
  `recv_waitq` is handled in order of arrival.
* `page_spinlock` and `vwq_lock` are *not* fair.  `AllServed` therefore assumes
  that the guests stop faulting on the page, and `FetchAnswered` ends at
  "drain", where the fetched page is mapped and only the waitqueue is left.
* `Cluster`: nothing promises that a machine is switched on or heard MSG_INIT;
  `VmBoots` asks that enough of them heard it, and that nobody registers after
  the table was sent (Node 0 would wait for a machine that has stopped).
* `Cluster`, `CpuOn`: nothing promises another interrupt to a cpu in wfi.
  `Overslept` says that a cpu sleeps although what it waits for has come.  `BootsUnlessOverslept` and
  `EntersUnlessOverslept` show that this is the only way in which a boot or an
  entry fails to come; that it can happen, `lost_wakeup` and `CpuOnSleep.cfg`.
* `Vgic`: weak fairness of each cpu's handlers; a pending SGI_INJECT is taken
  if the cpu accepts interrupts again and again (strong fairness).  The guest
  need not acknowledge or end anything.
* `NetDev`: weak fairness of the interrupt handler, of the cpu that holds the
  queue lock, of the message layer that frees a buffer, and of the device.
  Nobody has to send.  Nothing is promised for frames received through GENET:
  one interrupt hands up one packet.
* `GicMmio`: weak fairness of the handlers and servers (`Work`); the guest need
  not make an access.  `Memory` is checked for safety only.

### Findings
Two runs end in a counterexample.

`lost_wakeup`: `while(!flag) wfi();` with interrupts enabled loses the wake-up
when the flag is set between the two (`core/node.c:86-91`, `187-189`, and
`core/vcpu.c:114` for `vcpu->online`).  Node 0 tests whether its nodes are set
up, the interrupt with the last MSG_SETUP_DONE is handled, and Node 0 sleeps.
Step 5 of the protocol, "VM is booted! signal" (`core/node.c:139`), is not
taken: nobody sends anything any more, and the hypervisor's timer is masked.

`s2_race`: `pagewalk` tests an entry and stores a new table without a lock
(`core/mm.c:83`).  A fault handler holds the lock of its own page only, so two
cpus that fault on two pages of one missing table both allocate it; the second
store hides the first table with the entry in it, and `assert(pte)`
(`core/vsm.c:554`) fails.

Five more disagreements are kept as configurations that can be run by hand;
each ends in a counterexample:
* `tlc -config VsmWide.cfg Vsm` - `S2PTE_COPYSET` keeps four bits, the cluster
  may have 32 nodes.  A read served to node 4 leaves the owner with an empty
  copyset: nobody owns the page, and the next request ends in the branch marked
  unreachable.
* `tlc -config MsgTimeout.cfg Msg` - after the wait loop of `__send_msg` the
  local `reply` may be NULL while `reply_buf` has just been set.
* `tlc -config CpuOnSleep.cfg MCCpuOn` - the wake-up that `vcpu_initcore` loses:
  a vCPU whose CPU_ON returned SUCCESS is never entered.
* `tlc -config GenetPages.cfg MCNetDev` - a GENET node sends a frame with a
  page; its buffer is freed at the first of its two descriptors, and one buffer
  is in two places.
* `tlc -config VgicTimer.cfg MCVgic` - `gicv3_inject_guest_irq` finds a free
  list register and writes it with interrupts enabled; a timer interrupt in
  between uses the same one and is overwritten, and the guest's timer is silent
  from then on.

Noticed while modelling, at the lines the hazards of `PROJECT.json` name where
they are listed, and kept out of the runs' inputs or allowed by the
properties:
* GENET: `bcmgenet_rxintr` hands up one packet per interrupt.
* `iomap` ignores where in a page a region begins, so it may map one page too
  few; `iomalloc` changes its list after unlocking.
* Pages are never merged when they are freed, the device-tree blob is not
  reserved, and early memory limits what `map_memory` can map (about 4 GiB).
* `irq->count` of a PPI is shared by all vCPUs, and a PPI is enabled on the cpu
  that runs the handler, which for a forwarded access is the network cpu.
* ITARGETSR written by two nodes at once: each applies its own value and then
  the other's, and the copies stay different.  The other distributor registers
  are not replicated at all.  In the v2 emulation a read of ISACTIVER falls
  through to the next case.
* The status of a forwarded access is ignored.

## 4. Proofs

TLAPS checks the theorems below for every value of the constants that the
module's `ASSUME` and the stated hypothesis admit.  None of the properties is
inductive by itself.  Every strengthening was checked with TLC on the run's
instance first (that of virtio in a form that names the free list and the
chains).  A proof has one lemma per action, and under it one step per conjunct
of the invariant.

| theorem | property | hypothesis |
|---|---|---|
| `LockInvHolds`, `MutualExclusionHolds`, `NoLostWakeupHolds` | `MutualExclusion`, `NoLostWakeup` | |
| `QueueInvHolds`, `PageMonitorImplemented` | `ImplementsPageMonitor` | |
| `TypeCorrect`, `ReplyMatches` | `TypeOK`, `ReplyMatchesFault` of `Vsm` | |
| `OwnershipSafe`, `NewestWithOwner` | `SingleOwner`, `OwnerIsLatest` | node ids fit the copyset |
| `CopiesReachable`, `StaleCopiesDoomed`, `CoherentPageImplemented` | `CopiesTracked`, `StaleIsDoomed`, `ImplementsCoherentPage` | node ids fit the copyset |
| `RequestsReachOwner` | `NoPanic` of `Vsm` | node ids fit the copyset |
| `NothingStrandedHolds` | `NothingStranded` | |
| `OwnReplyHolds` | `OwnReply` | no timeout |
| `ClusterInvHolds`, `NoPanicHolds`, `BootAfterSetupHolds` | `NoPanic`, `BootAfterSetup` of `Cluster` | |
| `TablesAgreeHolds` | `TablesAgree` | two nodes or more |
| `EntryInvHolds`, `EntersOnceHolds`, `RunningUntouchedHolds` | `RunningUntouched` | |
| `EntersWhereAskedHolds` | `EntersWhereAsked` | one node besides Node 0 |
| `VgicInvHolds`, `KickedHolds`, `PendirqOnceHolds` | `Kicked`, `PendirqOnce` | |
| `GicTypes`, `OneHolder`, `SpiFollows`, `CallsMatch` | | |
| `PhysicalFollows` | `HwFollows` | a vCPU writes its own enables |
| `NodesAgree` | `TargetsAgree` | one vCPU writes ITARGETSR of SPIs |
| `RegisterBankImplemented` | `ImplementsRegisterBank` | |
| `Accounted` | `RingsAccounted` | GENET sends frames without a page |
| `Implements` | `ImplementsFrameService` | GENET sends frames without a page |

The hypotheses are where the code really stops keeping the property, or the
smallest cluster it is used with:

* *Node ids fit the copyset* (`Nodes \subseteq 0..(CopysetBits - 1)`):
  `VsmWide.cfg` shows what happens otherwise.  Types and the matching of
  replies do not need it.
* *No timeout* (`~MayTimeOut`): `MsgTimeout.cfg`.  `NothingStranded` does not
  need it.
* *One node besides Node 0* (`OneSubNode`): with two, a CPU_ON that one
  sub-node sends to another can overtake Node 0's boot signal, and the vCPU
  enters with the boot clock unset.  Only the clock depends on it:
  `EntersOnceHolds` is the rest of `EntersWhereAsked` for any cluster.
* *Two nodes or more* (`NrNode > 1`, the default is 2): a single node that
  registers a late comer after its guest has started changes the count its
  last vCPU is compared with.
* *A vCPU writes its own enables* (`OwnEnables`): the redistributor of another
  vCPU may be written, but a PPI is enabled on the cpu that runs the handler,
  which for a forwarded access is the network cpu of the other node.  Only the
  timer depends on it: `SpiFollows` is the rest of `HwFollows` for any guest.
* *One vCPU writes ITARGETSR of SPIs* (`OneTargeter`): two broadcasts that
  cross leave the copies different (see Findings).
* *GENET sends frames without a page* (`HeaderOnly`): with a page both are false
  of the code (`drivers/bcmgenet.c:368`, `GenetPages.cfg`).  A Raspberry Pi 4
  that serves a page sends such a frame, so on that board they cover the
  requests, replies and signals only.  virtio sends frames of both kinds.

`MCGicMmio` assumes two of these of the accesses it gives the guests, so the
run `gic_mmio` and the theorems speak of the same guests.

The arguments:

* `PageLock`.  A store-exclusive of `vwq_lock` writes the lock byte it loaded
  earlier.  `LockInv` says that the bytes tell who is inside, that the mark of
  a sleeping cpu is set while the byte it waits for is taken, and that a mark
  still set proves the loaded value still there (`MarkIsFresh`).  For the
  refinement of `PageMonitor` the procs are numbered in order of arrival:
  those served, those in the batch of the actor that serves and those in the
  queue are consecutive intervals (`Numbered`), so none is lost, served twice
  or overtaken; and a page that is not locked has nobody waiting (`NoneLeft`).
* `Vsm`, four layers.  (1) `TokenInv`: exactly one thing stands for a cpu's
  wait, one request in one queue or one reply of the right kind, and the cpu
  holds its node's lock meanwhile.  Without it a second reply could meet the
  wrong wait.  (2) `OwnerInv`: one node has the ownership in its entry, in the
  server that is sending it or in a reply, and the newest contents are there.
  (3) `CopyInv`: every copy is in the copyset that goes with the ownership or
  has an invalidation coming, and one that misses a store has.  (4) `RouteInv`:
  requests at a node other than the manager wait behind an ownership that is
  there or was asked for, nothing follows a write request to the same node,
  and the manager's record leads to the owner.  Channels and waitqueues are
  treated as one family of queues, so that receiving and forwarding are the
  same move.  Layers 1 to 3 give each step of the refinement of
  `CoherentPage`.
* `Msg`.  `NothingStranded` needs the types only.  For `OwnReply`, a reply on
  its way is in one place (owed, on the wire, in the queue or in the list of
  its cpu), and its cpu waits for it with `reply_buf` empty.
* `Cluster`.  Node 0's table only grows, with disjoint entries; a machine is
  asked, answers and is registered once; the header that Node 0 sends, what
  was sent and what a sub-node made of it agree with the table's beginning; an
  active id belongs to a node that is set up; the boot signal is sent once.
* `CpuOn`.  A call on another node is one frame, one handler or one
  acknowledgement; the lock of a vCPU has one holder; who found the vCPU not
  online knows that its `elr` is the one it wrote; and a SUCCESS that has not
  been delivered is the only one.  With one sub-node also: a node that has not
  taken the boot signal has it first in its channel and starts no vCPU.
* `Vgic`.  Only the innermost handler of a cpu can be inside a ring lock or
  in the SGI_INJECT handler, because both run with interrupts masked; so the
  lock excludes (`LockOK`), a position read under it stays true, and a drain
  and a store of one ring do not meet.  `OwnersOK` says where each pending
  interrupt is; a few lemmas say what positions modulo the ring's size are in
  use (`RingFacts`), what a push or a pop does to a stack (`OnTop`), and that
  malloc returns memory not in use (`FreshExists`).
* `GicMmio`.  `Works` says that what a cpu does is an access of its own guest,
  a request that was forwarded to it or a broadcast, at a legal point of a loop
  that the register's handler really enters.  Then four arguments follow.
  (1) `LockOK`: an interrupt held over the update of the physical one has one
  holder, and its enable bit is what that holder wrote; so the count read
  before and written after is still the right one for an SPI (`SpiOK`), whose
  virtual enable, count and physical enable go 0-0-off, 1-0-off, 1-1-on.  The
  count of a PPI is shared and may be wrong; the timer of a vCPU is right
  nevertheless because enabling never looks at the count and disabling can only
  leave it on (`TimerOK`).  (2) `RouteOK`: the route follows the target because
  both are set in one step.  (3) `TellOK`: with one writer of ITARGETSR, what
  another node comes to is the last broadcast in the channel to it, or what its
  server is writing, or its copy; that is the writer's copy, unless the writer
  is between its first write and its broadcast.  (4) `CallOK`: an answer finds
  its vCPU waiting; a server works for a vCPU that waits for just that access
  and has no answer; a request in a channel is the only one of a vCPU that
  waits for it and is not served.  So the place of a forwarded access is
  unique, and each step maps to `Begin`, `BeginOther`, `Touch` or `End` of
  `RegisterBank` or to nothing: reading, writing or enabling one interrupt
  is `Touch`; sending, receiving, dispatching, replying and the physical GIC
  are invisible.
* `NetDev`, for both drivers.  `NetDevAssumption` says that the rings'
  sizes divide the range of the indices, that a virtqueue holds the longest
  chain, and that the heap can fill the receive ring.  GENET (`GenetInv`): what the hardware has
  consumed lies between what was reclaimed and what was produced, the count of
  free descriptors and the write pointer follow from these (`TxIndices`);
  `TxBuffers` and `RxBuffers` say what the buffers of a ring hold, and that
  those of one ring are all different, so that reclaiming or refilling one
  place never touches the buffer of another (in the transmit ring this is where
  `HeaderOnly` is needed).  virtio: `Layout` gives every descriptor one
  owner, either nobody, and then it is at one place of the free list, or the
  first descriptor of a chain of two or three.  `RingsAs` says that the chains
  waiting in the available ring, at the device and in the used ring are
  different and all outstanding, so that what is dequeued was out with a
  buffer.  A ring never overflows, because the second descriptor of a chain is
  never in it (`RingRoom`); `SlotWrap` keeps places apart when the indices
  wrap.  The walks of the free list and of a chain are recursive functions; the
  proof determines them by uniqueness, two functions with the same steps are
  the same (`SameSteps`).
* `NetDev`, the refinement of `FrameService`.  What waits in a ring is
  a `Window` of it: n entries from an index on.  Three lemmas say what happens
  to one when an entry is put at its end, taken from its start or when it is
  left alone (`WindowPuts`, `WindowTakes`, `WindowSame`), and that index and
  pointer name the same place because the ring's size divides the range of the
  indices (`Wrap`).  GENET: `GenetServes` adds to `GenetInv` that the pointers are
  where the indices are, that each waiting place holds a whole frame, and that
  the hardware has no frame in hand between two steps.  Reclaiming and refilling
  are invisible because the buffers they touch are in no window.  virtio:
  `VirtioServes` adds to `VirtioInv` that outstanding chains have different
  buffers, that one in the transmit queue has as many descriptors as its frame
  asks for, all of that frame's buffer (`ChainFor`), that one in the receive
  queue has a buffer that is empty or filled, and that a used entry's length is
  that of the frame it names (`UsedAre`).  Chaining or freeing one leaves the
  others as they are (`Joins`, `Leaves`), so the device finds the frame that was
  queued (`ChainRead`), although chains come back in any order.  With either
  driver, what is handed up has the body that was sent: the offsets of
  `RecvBuffer` and `RecvBody` undo padding, headers and the frame check sequence
  (`GenetBody`, `VirtioBody`).

Only model-checked:
* everything about liveness and fairness (out of the prover's reach);
* the invariants of `Memory`: they rest on folds and recursive functions over
  free lists, tables and token sequences, which need induction over data.

## 5. Plan

1. Lemmas about `PageAlloc`: `expand` and `alloc_pages` split a block without
   loss or overlap, one step at a time.
2. The list registers of `drivers/gicv2.c`, where "busy" compares the sender's
   number of an SGI (line 131), and the injection of SPIs.

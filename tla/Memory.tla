------------------------------- MODULE Memory -------------------------------
(***************************************************************************)
(* The memory of one node, from the first instruction of vmm_init_cpu0     *)
(* (core/init.c) to the page faults of its vCPUs: the early allocator, the *)
(* VMM's own translation tables, the device tree and the devices found in  *)
(* it, the page allocator, and the guest's stage-2 tables.                 *)
(*                                                                         *)
(* The boot runs on cpu 0 alone, one action for each call of               *)
(* vmm_init_cpu0 or setup_pagetable that changes this state.  Afterwards   *)
(* the cpus in Cpus take page faults whose fetch reply is mapped by        *)
(* mappages: that walk is not locked, so each read and each write of an    *)
(* entry is a step.                                                        *)
(*                                                                         *)
(* Addresses are page numbers; the addresses and sizes of device registers *)
(* count half pages, so that a region can start inside a page.             *)
(***************************************************************************)
EXTENDS PageTable, DeviceTree

CONSTANTS
  Boards,       \* the machines to boot: see Board
  Cpus,         \* cpus that take guest page faults
  OwnIpas,      \* guest pages of this node's memory range
  RemoteIpas,   \* guest pages of other nodes
  PassIpas,     \* device pages passed through to the guest
  MaxOps        \* bound: runtime operations

(* The sections of include/memlayout.h: 2 MiB, 6 MiB, 2 GiB and 3 GiB.     *)
FDT_SECTION_BASE   == Chunk
IOMEM_SECTION_BASE == 3 * Chunk
VMM_SECTION_BASE   == 2 * Chunk ^ 2
VIRT_BASE          == 3 * Chunk ^ 2
PAGESIZE           == 2            \* of a device address
vmm_pagetable      == -2           \* the static root table
NoPage             == NULL

ASSUME MemoryAssumption ==
  /\ Classes = {"small", "large"}
  /\ MaxOps \in Nat
  /\ \A b \in Boards : b.image % Chunk = 0 /\ b.image_pages \in 1..Chunk

VARIABLES
  board,     \* the machine
  pc,        \* the next call of vmm_init_cpu0, then "run"
  mem,       \* freelists, heap and tables
  reserved,  \* reserved[] as <<start, pages>>
  slots,     \* system_memory.slots as <<start, pages>>
  fdt,       \* fdt_parse: the tree so far and the open node
  area,      \* the free I/O address space, [start, npages]
  devs,      \* devices mapped by iomap, in order
  cpudevs,   \* mpidr -> enable method and release address
  vttbr,     \* root of the stage-2 tables
  held,      \* pages in use, as <<page, order, for good>>
  blocks,    \* heap blocks in use, as <<class, block, for good>>
  fault,     \* cpu -> the fetch it maps
  locked,    \* guest pages whose descriptor is locked
  ops,       \* runtime operations so far
  round      \* rounds of the loop of the present call

vars == <<board, pc, mem, reserved, slots, fdt, area, devs, cpudevs, vttbr,
          held, blocks, fault, locked, ops, round>>

tree == fdt.tree          \* localnode.device_tree

Idle == [at |-> "idle", ipa |-> 0, level |-> 0, pgt |-> NoPage, body |-> NoPage, new |-> NoPage]

EarlyChunks == 4
early_phys_start == board.image + Chunk        \* ALIGN_UP(vmm_end, 2 MiB)
EarlyPages == early_phys_start..(early_phys_start + EarlyChunks * Chunk - 1)

Init ==
  /\ board \in Boards
  /\ pc = "early_allocator_init"
  /\ mem = AddTable(NoMem, vmm_pagetable)
  /\ reserved = << >> /\ slots = << >> /\ fdt = NoTree /\ devs = << >>
  /\ area = [start |-> 0, npages |-> 0]
  /\ cpudevs = << >>
  /\ vttbr = NoPage
  /\ held = {} /\ blocks = {}
  /\ fault = [c \in Cpus |-> Idle]
  /\ locked = {}
  /\ ops = 0 /\ round = 0

\* a call of the boot: from one to the next, unless it panics
Call(this, next) == pc = this /\ ~mem.panic /\ pc' = next /\ round' = 0

\* one round of a call that loops n times
Round(this, next, n) ==
  /\ pc = this /\ ~mem.panic
  /\ IF round + 1 < n THEN pc' = pc /\ round' = round + 1 ELSE pc' = next /\ round' = 0

Rest == UNCHANGED <<board, fault, locked, ops>>

-----------------------------------------------------------------------------
(* The early allocator and setup_pagetable                                 *)

\* the pages behind the image, one by one
early_allocator_init ==
  /\ Call("early_allocator_init", "iomem_init")
  /\ mem' = FoldLeft(LAMBDA m, i : free_page(m, early_phys_start + i - 1), mem,
                     [i \in 1..(EarlyChunks * Chunk) |-> i])
  /\ Rest /\ UNCHANGED <<reserved, slots, fdt, area, devs, cpudevs, vttbr, held, blocks>>

iomem_init ==
  /\ Call("iomem_init", "remap_image")
  /\ area' = [start |-> IOMEM_SECTION_BASE, npages |-> VMM_SECTION_BASE - IOMEM_SECTION_BASE]
  /\ Rest /\ UNCHANGED <<mem, reserved, slots, fdt, devs, cpudevs, vttbr, held, blocks>>

\* system_memory_reserve rounds to 2 MiB
system_memory_reserve(start, end) ==
  LET first == (start \div Chunk) * Chunk
      last  == ((end + Chunk - 1) \div Chunk) * Chunk
  IN  reserved' = Append(reserved, <<first, last - first>>)

\* the image starts with text and rodata, board.text and board.rodata pages
is_vmm_text(kv)   == kv - VMM_SECTION_BASE \in 0..(board.text - 1)
is_vmm_rodata(kv) == kv - VMM_SECTION_BASE \in board.text..(board.text + board.rodata - 1)

ImageAttr(kv) == (IF is_vmm_text(kv) THEN {} ELSE {"xn"})
                 \cup (IF is_vmm_text(kv) \/ is_vmm_rodata(kv) THEN {"ro"} ELSE {})

pagemap(m, va, pa, at) == MapPage(m, vmm_pagetable, va, pa, at, 1)

remap_image ==
  /\ Round("remap_image", "remap_earlymem", board.image_pages)
  /\ mem' = pagemap(mem, VMM_SECTION_BASE + round, board.image + round, ImageAttr(VMM_SECTION_BASE + round))
  /\ IF round' # 0 THEN UNCHANGED reserved
     ELSE system_memory_reserve(board.image, board.image + board.image_pages)
  /\ Rest /\ UNCHANGED <<slots, fdt, area, devs, cpudevs, vttbr, held, blocks>>

remap_earlymem ==
  /\ Round("remap_earlymem", "remap_earlycon", EarlyChunks * Chunk)
  /\ mem' = pagemap(mem, VIRT_BASE + early_phys_start + round, early_phys_start + round, {})
  /\ IF round' # 0 THEN UNCHANGED reserved
     ELSE system_memory_reserve(early_phys_start, early_phys_start + EarlyChunks * Chunk)
  /\ Rest /\ UNCHANGED <<slots, fdt, area, devs, cpudevs, vttbr, held, blocks>>

\* the console keeps its physical address
remap_earlycon ==
  /\ Call("remap_earlycon", "remap_fdt")
  /\ mem' = pagemap(mem, board.pl011, board.pl011, {"dev", "xn"})
  /\ Rest /\ UNCHANGED <<reserved, slots, fdt, area, devs, cpudevs, vttbr, held, blocks>>

\* the 2 MiB around the flattened tree
remap_fdt ==
  LET b == memmap_huge(mem, vmm_pagetable, FDT_SECTION_BASE, (board.fdt \div Chunk) * Chunk,
                       {"ro", "xn"}, 1)
  IN  /\ Call("remap_fdt", "device_tree_init")
      /\ mem' = IF b.rc < 0 THEN Panic(b.mem) ELSE b.mem
      /\ Rest /\ UNCHANGED <<reserved, slots, fdt, area, devs, cpudevs, vttbr, held, blocks>>

\* a heap block that is never freed; none left is a panic of the caller
KeepBlock(s, c, a) ==
  IF a.block = << >> THEN [s EXCEPT !.mem = Panic(@)]
  ELSE [s EXCEPT !.mem = a.mem, !.blocks = @ \cup {<<c, a.block, TRUE>>}]

MallocKept(s, c) == KeepBlock(s, c, malloc(s.mem, c))

\* fdt_parse takes a block for every node and property; after the last token
\* setup_system_memory
device_tree_init ==
  LET token  == board.tokens[round + 1]
      s      == [mem |-> mem, blocks |-> blocks]
      alloc  == CASE token.tag = "begin" -> MallocKept(s, "large")
                  [] token.tag = "prop"  -> MallocKept(s, "small")
                  [] OTHER -> s
      new    == ParseToken(fdt, token)
      ranges == MemoryRanges(new.tree)
      last   == round + 1 = Len(board.tokens)
  IN  /\ Round("device_tree_init", "map_memory", Len(board.tokens))
      /\ fdt' = new
      /\ blocks' = alloc.blocks
      /\ slots' = IF last THEN ranges ELSE slots
      /\ mem' = IF last /\ ranges = << >> THEN Panic(alloc.mem) ELSE alloc.mem
      /\ Rest /\ UNCHANGED <<reserved, area, devs, cpudevs, vttbr, held>>

Pages(ranges) == UNION {ranges[i][1]..(ranges[i][1] + ranges[i][2] - 1) : i \in DOMAIN ranges}

\* the pages of the slots in order
SlotPages(ranges) == FlattenSeq([i \in DOMAIN ranges |->
                        [k \in 1..ranges[i][2] |-> ranges[i][1] + k - 1]])

InEarlyMem(p) == early_phys_start <= p /\ p < early_phys_start + EarlyChunks * Chunk

\* the linear map of all memory; early memory is mapped already.  The kernel
\* address decides the attributes, so the alias of text is read-only as well
map_memory ==
  LET pages == SlotPages(slots)
      p     == pages[round + 1]
      kern  == p - board.image + VMM_SECTION_BASE       \* phys2kern
  IN  /\ Round("map_memory", "irqchip_init", Len(pages))
      /\ mem' = IF InEarlyMem(p) THEN mem ELSE pagemap(mem, VIRT_BASE + p, p, ImageAttr(kern))
      /\ Rest /\ UNCHANGED <<reserved, slots, fdt, area, devs, cpudevs, vttbr, held, blocks>>

-----------------------------------------------------------------------------
(* Devices.  s = [mem, area, blocks, devs]                                 *)

PAGE_ALIGN(n) == ((n + PAGESIZE - 1) \div PAGESIZE) * PAGESIZE

\* the first pages of the free area; the lists are never given back.  Taking
\* the last page would free() a static object: outside the bound of the model
iomalloc(s, pa, size) ==
  LET npages == PAGE_ALIGN((pa % PAGESIZE) + size) \div PAGESIZE
  IN  IF npages >= s.area.npages THEN [s EXCEPT !.mem = Panic(@)]
      ELSE [MallocKept(s, "small") EXCEPT !.area = [start |-> @.start + npages, npages |-> @.npages - npages]]

\* maps PAGE_ALIGN(size) from the page of pa on, whatever the offset of pa
iomap(s, n, pa, size) ==
  LET sz == PAGE_ALIGN(size)
      a  == iomalloc(s, pa, sz)
      va == s.area.start
  IN  [a EXCEPT !.mem = mappages(@, vmm_pagetable, va, pa \div PAGESIZE, sz \div PAGESIZE,
                                 {"dev", "xn"}, 1),
                !.devs = Append(@, [node |-> n, base |-> pa, size |-> size, va |-> va])]

\* a driver reads its first k regs and maps them all, or none and fails
HasRegs(n, k) == \A i \in 0..(k - 1) : dt_node_prop_addr(tree, n, i) # << >>

MapRegs(s, n, k) ==
  FoldLeft(LAMBDA t, r : iomap(t, n, r[1], r[2]), s,
           [i \in 1..k |-> dt_node_prop_addr(tree, n, i - 1)])

DevState == [mem |-> mem, area |-> area, blocks |-> blocks, devs |-> devs]

SetDevState(s) == mem' = s.mem /\ area' = s.area /\ blocks' = s.blocks /\ devs' = s.devs

gicv2_compat  == {"arm,gic-400", "arm,cortex-a15-gic"}
gicv3_compat  == {"arm,gic-v3"}
pl011_compat  == {"arm,pl011", "arm,primecell"}
vtmmio_compat == {"virtio,mmio"}
bcmgenet_compat == {"brcm,bcm2711-genet-v5"}

\* the first compatible interrupt controller: GICv2 has four register frames,
\* GICv3 two
irqchip_init ==
  LET chips == SelectSeq(MatchNodes(tree, gicv2_compat \cup gicv3_compat),
                         LAMBDA n : dt_node_propb(tree[n], "interrupt-controller"))
      n == Head(chips)
      k == IF dt_compatible_device(gicv2_compat, tree[n]) THEN 4 ELSE 2
  IN  /\ Call("irqchip_init", "gpio_init")
      /\ IF chips # << >> /\ HasRegs(n, k) THEN SetDevState(MapRegs(DevState, n, k))
         ELSE mem' = Panic(mem) /\ UNCHANGED <<area, blocks, devs>>
      /\ Rest /\ UNCHANGED <<reserved, slots, fdt, cpudevs, vttbr, held>>

\* a device named by an alias
InitAlias(a) == \E n \in {dt_find_node_alias(tree, a)} :
  IF n # NoNode /\ dt_node_propb(tree[n], "compatible") /\ HasRegs(n, 1)
  THEN SetDevState(MapRegs(DevState, n, 1))
  ELSE /\ mem' = IF a = "mailbox" /\ n # NoNode THEN Panic(mem) ELSE mem
       /\ UNCHANGED <<area, blocks, devs>>

gpio_init ==
  /\ Call("gpio_init", "mailbox_init")
  /\ InitAlias("gpio")
  /\ Rest /\ UNCHANGED <<reserved, slots, fdt, cpudevs, vttbr, held>>

mailbox_init ==
  /\ Call("mailbox_init", "uart_init")
  /\ InitAlias("mailbox")
  /\ Rest /\ UNCHANGED <<reserved, slots, fdt, cpudevs, vttbr, held>>

\* uart_init tries the serial nodes until one succeeds; pl011_dt_init maps the
\* registers before it looks for the interrupt
uart_init ==
  LET try(t, n) ==
        IF t.done \/ dt_node_props_is(tree[n], "status", "disabled") \/ ~HasRegs(n, 1) THEN t
        ELSE [s |-> MapRegs(t.s, n, 1), done |-> dt_node_prop_intr(tree[n], 0) # << >>]
      result(t) == IF t.done THEN t.s ELSE [t.s EXCEPT !.mem = Panic(@)]
  IN  /\ Call("uart_init", "pageallocator_init")
      /\ SetDevState(result(FoldLeft(try, [s |-> DevState, done |-> FALSE],
                                     MatchNodes(tree, pl011_compat))))
      /\ Rest /\ UNCHANGED <<reserved, slots, fdt, cpudevs, vttbr, held>>

\* the 2 MiB steps through the slots
ChunksOf(ranges) == FlattenSeq([i \in DOMAIN ranges |->
                       [k \in 1..((ranges[i][2] + Chunk - 1) \div Chunk) |->
                          ranges[i][1] + (k - 1) * Chunk]])

is_reserved(p) == \E i \in DOMAIN reserved :
                    reserved[i][1] <= p /\ p < reserved[i][1] + reserved[i][2]

\* the blocks of 2 MiB that do not start in reserved memory
pageallocator_init ==
  /\ Call("pageallocator_init", "psci_init")
  /\ mem' = FoldLeft(LAMBDA m, p : freelist_add(m, Order, p), mem,
                     SelectSeq(ChunksOf(slots), LAMBDA p : ~is_reserved(p)))
  /\ Rest /\ UNCHANGED <<reserved, slots, fdt, area, devs, cpudevs, vttbr, held, blocks>>

\* a /psci node must give the function ids of cpu_on and cpu_off
psci_init ==
  LET n == dt_find_node_path(tree, <<<<"psci">>>>)
  IN  /\ Call("psci_init", "pcpu_init")
      /\ mem' = IF n = NoNode \/ (dt_node_propb(tree[n], "cpu_on")
                                  /\ dt_node_propb(tree[n], "cpu_off"))
                THEN mem ELSE Panic(mem)
      /\ Rest /\ UNCHANGED <<reserved, slots, fdt, area, devs, cpudevs, vttbr, held, blocks>>

\* cpu_prepare and cpu_init_enable_method; a spin-table cpu needs its address
EnableMethod(n) ==
  LET release == dt_node_prop_raw(tree[n], "cpu-release-addr")
  IN  IF dt_node_props_is(tree[n], "enable-method", "psci")
      THEN [method |-> "psci", release |-> 0]
      ELSE IF dt_node_props_is(tree[n], "enable-method", "spin-table") /\ release # << >>
      THEN [method |-> "spin-table", release |-> prop_read_number(release)]
      ELSE [method |-> "none", release |-> 0]

pcpu_init ==
  LET cpus == CpuDevices(tree)
      all  == {tree[cpus[i]] : i \in DOMAIN cpus}
      new  == [id \in {dt_node_prop_raw(n, "reg")[1] : n \in all} |->
                 EnableMethod(cpus[SelectInSeq(cpus,
                   LAMBDA c : dt_node_prop_raw(tree[c], "reg")[1] = id)])]
  IN  /\ Call("pcpu_init", "peripheral_device_init")
      /\ cpudevs' = new
      /\ mem' = IF cpus = << >> \/ (Len(cpus) > 1 /\ \E id \in DOMAIN new : new[id].method = "none")
                THEN Panic(mem) ELSE mem
      /\ Rest /\ UNCHANGED <<reserved, slots, fdt, area, devs, vttbr, held, blocks>>

\* the pages a network driver keeps: rings, control blocks and buffers
DriverPages == 2

TakePages(m, n) ==
  FoldLeft(LAMBDA t, i : LET a == alloc_page(t.mem) IN
             IF a.page = NULL THEN [t EXCEPT !.mem = Panic(@)]
             ELSE [mem |-> a.mem, pages |-> t.pages \cup {<<a.page, 0, TRUE>>}],
           [mem |-> m, pages |-> {}], [i \in 1..n |-> i])

KeepPages(t, taken) == [t EXCEPT !.s.mem = taken.mem, !.held = @ \cup taken.pages]

\* after the registers of device n are mapped: the interrupts, for genet the
\* mdio child, without which it panics, and the start of the device
Probe(t, n) ==
  LET genet == dt_compatible_device(bcmgenet_compat, tree[n])
      irqs  == dt_node_prop_intr(tree[n], IF genet THEN 1 ELSE 0) # << >>
      mdio  == dt_compatible_child(tree, n, "brcm,genet-mdio-v5")
  IN  IF ~irqs THEN t
      ELSE IF genet /\ mdio = << >> THEN [t EXCEPT !.s.mem = Panic(@)]
      ELSE IF genet /\ ~HasRegs(Head(mdio), 1) THEN t
      ELSE KeepPages(t, TakePages(t.s.mem, DriverPages))

\* vtmmio_dt_init and bcmgenet_dt_init
InitPeripheral(t, n) ==
  IF ~HasRegs(n, 1) THEN t ELSE Probe([t EXCEPT !.s = MapRegs(@, n, 1)], n)

peripheral_device_init ==
  /\ Call("peripheral_device_init", "localvm_init")
  /\ \E end \in {FoldLeft(InitPeripheral, [s |-> DevState, held |-> held],
                          MatchNodes(tree, vtmmio_compat \cup bcmgenet_compat))} :
      /\ SetDevState(end.s)
      /\ held' = end.held
  /\ Rest /\ UNCHANGED <<reserved, slots, fdt, cpudevs, vttbr>>

-----------------------------------------------------------------------------
(* The guest's memory                                                      *)

\* s2mmu_init, map_guest_peripherals (identity) and the four pages of vgic_init
localvm_init ==
  LET root == alloc_page(mem)
      pass == FoldLeft(LAMBDA m, ipa : MapPage(m, root.page, ipa, ipa, {"dev", "xn"}, 0),
                       AddTable(root.mem, root.page), SetToSeq(PassIpas))
      spis == alloc_pages(pass, 2)
  IN  /\ Call("localvm_init", "vsm_node_init")
      /\ IF root.page = NULL THEN mem' = Panic(mem) /\ UNCHANGED <<vttbr, held>>
         ELSE IF spis.page = NULL THEN mem' = Panic(pass) /\ UNCHANGED <<vttbr, held>>
         ELSE mem' = spis.mem /\ vttbr' = root.page /\ held' = held \cup {<<spis.page, 2, TRUE>>}
      /\ Rest /\ UNCHANGED <<reserved, slots, fdt, area, devs, cpudevs, blocks>>

\* a page for every address of the node's memory range
vsm_node_init ==
  /\ Call("vsm_node_init", "run")
  /\ mem' = FoldLeft(LAMBDA m, ipa :
                       LET a == alloc_page(m)
                       IN  IF a.page = NULL THEN Panic(m)
                           ELSE MapPage(a.mem, vttbr, ipa, a.page, {}, 0),
                     mem, SetToSeq(OwnIpas))
  /\ Rest /\ UNCHANGED <<reserved, slots, fdt, area, devs, cpudevs, vttbr, held, blocks>>

Boot ==
  \/ early_allocator_init \/ iomem_init \/ remap_image \/ remap_earlymem \/ remap_earlycon
  \/ remap_fdt \/ device_tree_init \/ map_memory \/ irqchip_init \/ gpio_init \/ mailbox_init
  \/ uart_init \/ pageallocator_init \/ psci_init \/ pcpu_init \/ peripheral_device_init
  \/ localvm_init \/ vsm_node_init

-----------------------------------------------------------------------------
(* A running node                                                          *)

Keep == UNCHANGED <<board, pc, reserved, slots, fdt, cpudevs, vttbr, round>>
Op   == pc = "run" /\ ~mem.panic /\ ops < MaxOps /\ ops' = ops + 1

Ipas == OwnIpas \cup RemoteIpas

\* page_spinlock; the fetch reply arrives with its page, the receive buffer's
Fault(c, ipa) ==
  LET a == alloc_page(mem)
  IN  /\ Op
      /\ fault[c].at = "idle"
      /\ ipa \notin locked
      /\ ~Accessible(mem, vttbr, ipa, 0)
      /\ a.page # NULL
      /\ mem' = a.mem
      /\ locked' = locked \cup {ipa}
      /\ fault' = [fault EXCEPT ![c] = [Idle EXCEPT !.at = "walk", !.ipa = ipa,
                                                    !.pgt = vttbr, !.body = a.page]]
      /\ Keep /\ UNCHANGED <<area, devs, held, blocks>>

Busy(c, at) == pc = "run" /\ ~mem.panic /\ fault[c].at = at

\* pagewalk reads an entry; for a missing table it allocates a page
WalkRead(c) ==
  LET f == fault[c]
      e == mem.tables[f.pgt][PIDX(f.level, f.ipa)]
      a == alloc_page(mem)
  IN  /\ Busy(c, "walk")
      /\ f.level < 3
      /\ IF IsTable(e)
         THEN /\ fault' = [fault EXCEPT ![c].pgt = e.pa, ![c].level = @ + 1]
              /\ UNCHANGED mem
         ELSE IF a.page = NULL THEN mem' = Panic(mem) /\ UNCHANGED fault
         ELSE /\ fault' = [fault EXCEPT ![c].at = "set", ![c].new = a.page]
              /\ mem' = AddTable(a.mem, a.page)
      /\ Keep /\ UNCHANGED <<area, devs, held, blocks, locked, ops>>

\* and writes the entry
WalkWrite(c) ==
  LET f == fault[c]
  IN  /\ Busy(c, "set")
      /\ mem' = [mem EXCEPT !.tables[f.pgt][PIDX(f.level, f.ipa)] = pte_set_table(f.new)]
      /\ fault' = [fault EXCEPT ![c] = [@ EXCEPT !.at = "walk", !.pgt = f.new, !.new = NoPage,
                                                 !.level = @ + 1]]
      /\ Keep /\ UNCHANGED <<area, devs, held, blocks, locked, ops>>

\* the last entry: mappages panics if it is used
WalkMap(c) ==
  LET f == fault[c]
      i == PIDX(3, f.ipa)
  IN  /\ Busy(c, "walk")
      /\ f.level = 3
      /\ IF mem.tables[f.pgt][i].af THEN mem' = Panic(mem) /\ UNCHANGED fault
         ELSE /\ mem' = [mem EXCEPT !.tables[f.pgt][i] = pte_set_entry(f.body, {})]
              /\ fault' = [fault EXCEPT ![c].at = "check", ![c].body = NoPage]
      /\ Keep /\ UNCHANGED <<area, devs, held, blocks, locked, ops>>

\* the handler looks the entry up again and asserts it; a read fault makes it
\* read-only, a write fault leaves it writable; then the page is unlocked
FaultEnd(c, at) ==
  LET ipa == fault[c].ipa
      e   == Lookup(mem, vttbr, ipa, 0)
  IN  /\ Busy(c, "check")
      /\ mem' = IF e.af THEN SetEntry(mem, vttbr, ipa, 0, [e EXCEPT !.at = at]) ELSE Panic(mem)
      /\ locked' = locked \ {ipa}
      /\ fault' = [fault EXCEPT ![c] = Idle]
      /\ Keep /\ UNCHANGED <<area, devs, held, blocks, ops>>

\* a page is invalidated, or given away by the write server: the frame is freed
Invalidate(ipa) ==
  /\ Op
  /\ ipa \notin locked
  /\ Accessible(mem, vttbr, ipa, 0)
  /\ mem' = s2_page_invalidate(mem, vttbr, ipa, 0)
  /\ Keep /\ UNCHANGED <<area, devs, held, blocks, fault, locked>>

\* s2_page_ro, by the read server
ReadOnly(ipa) ==
  LET e == Lookup(mem, vttbr, ipa, 0)
  IN  /\ Op
      /\ ipa \notin locked
      /\ e.af /\ "ro" \notin e.at
      /\ mem' = SetEntry(mem, vttbr, ipa, 0, [e EXCEPT !.at = @ \cup {"ro"}])
      /\ Keep /\ UNCHANGED <<area, devs, held, blocks, fault, locked>>

\* network buffers come and go
AllocPages(order) ==
  LET a == alloc_pages(mem, order)
  IN  /\ Op
      /\ a.page # NULL
      /\ mem' = a.mem
      /\ held' = held \cup {<<a.page, order, FALSE>>}
      /\ Keep /\ UNCHANGED <<area, devs, blocks, fault, locked>>

FreePagesOf(b) ==
  /\ Op
  /\ ~b[3]
  /\ mem' = free_pages(mem, b[1], b[2])
  /\ held' = held \ {b}
  /\ Keep /\ UNCHANGED <<area, devs, blocks, fault, locked>>

\* descriptors of messages, requests and interrupts come and go
Malloc(c) ==
  LET a == malloc(mem, c)
  IN  /\ Op
      /\ a.block # << >>
      /\ mem' = a.mem
      /\ blocks' = blocks \cup {<<c, a.block, FALSE>>}
      /\ Keep /\ UNCHANGED <<area, devs, held, fault, locked>>

Free(b) ==
  /\ Op
  /\ ~b[3]
  /\ mem' = free(mem, b[1], b[2])
  /\ blocks' = blocks \ {b}
  /\ Keep /\ UNCHANGED <<area, devs, held, fault, locked>>

\* spintable_boot maps the word it releases the cpu with
SpintableBoot(id) ==
  /\ Op
  /\ cpudevs[id].method = "spin-table"
  /\ SetDevState(iomap(DevState, NoNode, cpudevs[id].release, 1))
  /\ Keep /\ UNCHANGED <<held, fault, locked>>

Run ==
  \/ \E c \in Cpus : \/ \E ipa \in Ipas : Fault(c, ipa)
                     \/ WalkRead(c) \/ WalkWrite(c) \/ WalkMap(c)
                     \/ \E at \in {{}, {"ro"}} : FaultEnd(c, at)
  \/ \E ipa \in Ipas : Invalidate(ipa) \/ ReadOnly(ipa)
  \/ \E o \in 0..1 : AllocPages(o)
  \/ \E b \in held : FreePagesOf(b)
  \/ \E c \in Classes : Malloc(c)
  \/ \E b \in blocks : Free(b)
  \/ \E id \in DOMAIN cpudevs : SpintableBoot(id)

Next == Boot \/ Run

Spec == Init /\ [][Next]_vars

-----------------------------------------------------------------------------
(* Properties                                                              *)

\* the pages that are the allocator's to give
Pool == IF pc = "early_allocator_init" THEN {}
        ELSE EarlyPages \cup
             IF pc \in {"iomem_init", "remap_image", "remap_earlymem", "remap_earlycon",
                        "remap_fdt", "device_tree_init", "map_memory", "irqchip_init",
                        "gpio_init", "mailbox_init", "uart_init", "pageallocator_init"}
             THEN {}
             ELSE Pages(slots) \ (EarlyPages \cup board.image..(early_phys_start - 1))

\* stage-2 entries the guest can use, without the devices
GuestLeaves == IF vttbr = NoPage THEN {}
               ELSE {l \in Leaves0(mem, vttbr) : "dev" \notin l[2].at}

BlockPages(b) == b[1]..(b[1] + 2 ^ b[2] - 1)

\* Every page the allocator was given is in one place and only there: on a
\* freelist, under the heap, a translation table, a page the guest can use, a
\* buffer, or a page on its way into a stage-2 entry; none is lost, none has
\* two owners (allocpage.c, malloc.c, mm.c, s2mm.c).  Every heap block is
\* either free or in use.
PagesAccounted ==
  LET tables == TablePages(mem) \ {vmm_pagetable}
      guest  == {l[2].pa : l \in GuestLeaves}
      bufs   == UNION {BlockPages(b) : b \in held}
      moving == {fault[c].body : c \in Cpus} \ {NoPage}
  IN  /\ FreePages(mem) \cup HeapPages(mem) \cup tables \cup guest \cup bufs \cup moving = Pool
      /\ NrFree(mem) + Cardinality(HeapPages(mem)) + Cardinality(tables)
           + Cardinality(GuestLeaves) + Cardinality(bufs) + Cardinality(moving)
         = Cardinality(Pool)
      /\ \A c \in Classes : \A k \in DOMAIN mem.heap[c] :
           LET f    == mem.heap[c][k]
               used == {b[2][2] : b \in {x \in blocks : x[1] = c /\ x[2][1] = f.page}}
           IN  /\ ToSet(f.free) \cap used = {}
               /\ Len(f.free) + Cardinality(used) = Blocks[c]

\* the calls of the boot in order
BootCalls == <<"early_allocator_init", "iomem_init", "remap_image", "remap_earlymem",
  "remap_earlycon", "remap_fdt", "device_tree_init", "map_memory", "irqchip_init", "gpio_init",
  "mailbox_init", "uart_init", "pageallocator_init", "psci_init", "pcpu_init",
  "peripheral_device_init", "localvm_init", "vsm_node_init", "run">>

Done(call) == SelectInSeq(BootCalls, LAMBDA b : b = pc) > SelectInSeq(BootCalls, LAMBDA b : b = call)

\* what each call of the boot is to map: <<va, pa, attributes>>
Wanted ==
  LET image == {<<VMM_SECTION_BASE + i, board.image + i, ImageAttr(VMM_SECTION_BASE + i)>> :
                  i \in 0..(board.image_pages - 1)}
      blob  == {<<FDT_SECTION_BASE + i, (board.fdt \div Chunk) * Chunk + i, {"ro", "xn"}>> : i \in Idx}
      early == {<<VIRT_BASE + p, p, {}>> : p \in EarlyPages}
      ram   == {<<VIRT_BASE + p, p, ImageAttr(VMM_SECTION_BASE + p - board.image)>> :
                  p \in Pages(slots) \ EarlyPages}
      dev(d) == {<<d.va + i, d.base \div PAGESIZE + i, {"dev", "xn"}>> :
                  i \in 0..((d.base + d.size - 1) \div PAGESIZE - d.base \div PAGESIZE)}
  IN  UNION {IF Done("remap_image") THEN image ELSE {},
             IF Done("remap_earlymem") THEN early ELSE {},
             IF Done("remap_earlycon") THEN {<<board.pl011, board.pl011, {"dev", "xn"}>>} ELSE {},
             IF Done("remap_fdt") THEN blob ELSE {},
             IF Done("map_memory") THEN ram ELSE {},
             UNION {dev(devs[i]) : i \in DOMAIN devs}}

\* The VMM's tables map exactly what the boot asked for: every page of the
\* image, of memory, of the tree and of every device at its address and with
\* its attributes, so text and rodata are read-only in the linear map too, and
\* no mapping has displaced another; and no call runs out of early pages,
\* finds an address mapped already or asks for a page twice, at boot or in a
\* fault (the assertions and panics of mm.c, s2mm.c, allocpage.c and vsm.c)
MapsAsAsked ==
  /\ ~mem.panic
  /\ round = 0 => {<<l[1], l[2].pa, l[2].at>> : l \in Leaves1(mem, vmm_pagetable, 0)} = Wanted

(* The tree as its tokens say it, without the parser: depth counts the     *)
(* open nodes.                                                             *)
Tok(i)      == board.tokens[i]
Begins      == {i \in DOMAIN board.tokens : Tok(i).tag = "begin"}
DepthAt(i)  == Cardinality({k \in 1..i : Tok(k).tag = "begin"})
               - Cardinality({k \in 1..i : Tok(k).tag = "end"})
Inside(i)   == {j \in DOMAIN board.tokens : j > i /\ \A k \in i..j : DepthAt(k) >= DepthAt(i)}
Own(i, name) == {j \in Inside(i) : DepthAt(j) = DepthAt(i) /\ Tok(j).tag = "prop"
                                   /\ Tok(j).name = name}
Value(i, name) == Tok(CHOOSE j \in Own(i, name) : TRUE).data
ParentOf(i) == Max({k \in Begins : k < i /\ DepthAt(k) = DepthAt(i) - 1})
Compatible(i, table) == Own(i, "compatible") # {} /\ Value(i, "compatible")[1] \in table

\* the first register region of a node, translated by the range of its bus
\* that holds it
Region(i) ==
  LET bus  == ParentOf(i)
      na   == Value(bus, "#address-cells")[1]
      ns   == Value(bus, "#size-cells")[1]
      reg  == Value(i, "reg")
      addr == prop_read_number(SubSeq(reg, 1, na))
      r    == IF Own(bus, "ranges") = {} THEN << >> ELSE Value(bus, "ranges")
      npa  == Value(ParentOf(bus), "#address-cells")[1]
      num(k, n) == prop_read_number(SubSeq(r, k + 1, k + n))
      in   == {k \in {j * (na + npa + ns) : j \in 0..Len(r)} :
                 /\ k < Len(r)
                 /\ addr \in num(k, na)..(num(k, na) + num(k + na + npa, ns) - 1)}
      off  == IF r = << >> THEN 0 ELSE LET k == CHOOSE k \in in : TRUE
                                      IN  num(k + na, npa) - num(k, na)
  IN  <<addr + off, prop_read_number(SubSeq(reg, na + 1, na + ns))>>

\* Every network device the flattened tree describes is initialised once, at
\* the address the tree gives it, wherever in the tree it stands; the same
\* holds for the interrupt controller, and the memory slots and the cpus are
\* the tree's (fdt.c, device.c and the drivers' dt_init functions)
DevicesFound == pc = "localvm_init" /\ ~mem.panic =>
  LET nics  == {i \in Begins : Compatible(i, vtmmio_compat \cup bcmgenet_compat)}
      gics  == {i \in Begins : Compatible(i, gicv2_compat \cup gicv3_compat)}
      found(table) == SelectSeq(devs, LAMBDA d : d.node # NoNode
                                 /\ dt_compatible_device(table, tree[d.node]))
      nic   == found(vtmmio_compat \cup bcmgenet_compat)
      ram   == CHOOSE i \in Begins : Own(i, "device_type") # {}
                                     /\ Value(i, "device_type") = <<"memory">>
  IN  /\ Len(nic) = Cardinality(nics)
      /\ {<<nic[k].base, nic[k].size>> : k \in DOMAIN nic} = {Region(i) : i \in nics}
      /\ \E k \in DOMAIN devs : \E i \in gics : <<devs[k].base, devs[k].size>> = Region(i)
      /\ slots[1] = Region(ram)
      /\ DOMAIN cpudevs = {Value(i, "reg")[1] : i \in
           {j \in Begins : Own(j, "device_type") # {} /\ Value(j, "device_type") = <<"cpu">>}}

\* Once the reply of its fetch is mapped, a fault handler finds the entry it
\* waited for: assert(pte) in both fault handlers of vsm.c
PteFound == \A c \in Cpus : fault[c].at = "check" => Accessible(mem, vttbr, fault[c].ipa, 0)
=============================================================================

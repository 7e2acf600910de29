------------------------------ MODULE GicMmio ------------------------------
(***************************************************************************)
(* The guest's accesses to the registers of its interrupt controller:      *)
(* core/trap.c vm_dabort, core/vmmio.c, the register handlers of           *)
(* core/vgic.c, core/vgic-v2.c and core/vgic-v3.c, and what they set in    *)
(* the physical controller through core/irq.c.                             *)
(*                                                                         *)
(* The state of an interrupt is kept by an owner: a vCPU for SGIs and      *)
(* PPIs, every node its own copy for SPIs.  The handlers take the          *)
(* interrupts of a register one by one under the lock of each, so another  *)
(* cpu may come in between.  Redistributor registers of a vCPU of another  *)
(* node are forwarded by request and reply; ITARGETSR of SPIs is broadcast *)
(* without an answer.  Requests and broadcasts are served on the cpu that  *)
(* takes the network interrupt, inside whatever it was doing.              *)
(*                                                                         *)
(* A register of any family holds Width interrupts.  Bank 0 are the        *)
(* private ones, SGIs and then PPIs, the last the timer; bank 1 are SPIs,  *)
(* the first one connected to a physical interrupt.                        *)
(***************************************************************************)
EXTENDS Integers, Sequences, FiniteSetsExt, SequencesExt

CONSTANTS
  Versions,   \* GIC versions
  VcpusOf,    \* node -> its vCPUs (numbers); vCPU v runs on its own cpu
  Width,      \* interrupts of a register
  Accesses,   \* vCPU -> the accesses its guest makes
  MaxOps      \* bound on the number of accesses

Nodes   == DOMAIN VcpusOf
Vcpus   == UNION {VcpusOf[n] : n \in Nodes}
Bits    == 0..(Width - 1)
NodeOf(v)  == CHOOSE n \in Nodes : v \in VcpusOf[n]
NicCpu(n)  == Min(VcpusOf[n])
NoVcpu  == -1
IRM     == 100            \* GICD_IROUTER_IRM: any cpu
None    == [i \in Bits |-> 0]

\* who keeps an interrupt, and who runs: the server of a node or a vCPU
Vcpu(v) == <<"vcpu", v>>
Node(n) == <<"node", n>>
Owners  == {Vcpu(v) : v \in Vcpus} \cup {Node(n) : n \in Nodes}
NodeOfOwner(o) == IF o[1] = "vcpu" THEN NodeOf(o[2]) ELSE o[2]
CpuOf(g)       == IF g[1] = "vcpu" THEN g[2] ELSE NicCpu(g[2])

\* struct mmio_access and what it decodes to: see vmmio_emulate
AccessRec ==
  [frame : {"gicd", "gicr", "gits", "hole"}, vcpu : Vcpus, bank : {0, 1}, reg : STRING,
   wr : BOOLEAN, word : BOOLEAN, val : [Bits -> Nat]]

ASSUME GicMmioAssumption ==
  /\ Versions \subseteq {2, 3}
  /\ Width \in Nat \ {0, 1}
  /\ \A n, m \in Nodes : n # m => VcpusOf[n] \cap VcpusOf[m] = {}
  /\ Vcpus \subseteq Nat /\ MaxOps \in Nat
  \* the first cpu of a node runs a vCPU
  /\ Nodes # {} /\ \A n \in Nodes : VcpusOf[n] # {}
  /\ \A v \in Vcpus : Accesses[v] \subseteq AccessRec
  \* the u8 targets of struct vgic_irq has a bit for every vCPU
  /\ 2 \in Versions => \A v \in Vcpus : 2 ^ v \in 0..255

VARIABLES
  version,  \* of the GIC
  irqs,     \* irqs[o][i]: struct vgic_irq
  ctlr,     \* ctlr[n]: vgic->enabled
  hwen,     \* hwen[o]: the physical interrupt is enabled, per cpu and per node
  hwroute,  \* hwroute[n]: the cpu the physical SPI goes to
  count,    \* count[n]: struct irq.count of the timer and of the SPI
  job,      \* job[g]: what a vCPU's trap handler or a node's server is doing
  net,      \* net[<<n, m>>]: requests and broadcasts from n to m
  reply,    \* reply[v]: the answer to a forwarded access
  x,        \* x[v]: the guest register filled by the last read
  ops,      \* accesses made
  dead      \* nodes that have panicked

vars == <<version, irqs, ctlr, hwen, hwroute, count, job, net, reply, x, ops, dead>>

Idle    == [at |-> "idle", a |-> << >>, owner |-> << >>, i |-> 0, val |-> None,
            seen |-> 0, from |-> NoVcpu]
NoReply == << >>

IsHw(o, i) == IF o[1] = "vcpu" THEN i = Width - 1 ELSE i = 0
Kind(o)    == IF o[1] = "vcpu" THEN "ppi" ELSE "spi"

\* vgic_init, vgic_cpu_init and vgic_connect_hwirq
Init ==
  /\ version \in Versions
  /\ irqs = [o \in Owners |-> [i \in Bits |->
       LET sgi == o[1] = "vcpu" /\ i < Width - 1
           ppi == o[1] = "vcpu" /\ i = Width - 1
       IN  [enabled |-> IF sgi THEN 1 ELSE 0, igroup |-> 0, priority |-> 0,
            cfg |-> IF sgi THEN 1 ELSE 0,
            targets |-> IF ~ppi THEN 0 ELSE IF version = 2 THEN 2 ^ o[2] ELSE o[2],
            target |-> IF ppi THEN o[2] ELSE NoVcpu]]]
  /\ ctlr = [n \in Nodes |-> 0]
  /\ hwen = [o \in Owners |-> FALSE]
  /\ hwroute = [n \in Nodes |-> NicCpu(n)]
  /\ count = [n \in Nodes |-> [k \in {"ppi", "spi"} |-> 0]]
  /\ job = [o \in Owners |-> Idle]
  /\ net = [p \in Nodes \X Nodes |-> << >>]
  /\ reply = [v \in Vcpus |-> NoReply]
  /\ x = [v \in Vcpus |-> None]
  /\ ops = 0
  /\ dead = {}

-----------------------------------------------------------------------------
(* What a handler does with a register.  An access is a record             *)
(*   [frame, vcpu, bank, reg, wr, word, val]                               *)
(* frame is "gicd", "gicr" of a vCPU, "gits" or "hole"; val is written.    *)
(* The outcome is the name of a loop, or "const": a fixed value is read, a *)
(* write is ignored; "keep": not even the value is set; "fail": the        *)
(* handler returns -1; "panic".                                            *)

Loop == [igroup |-> "igroup", isenable |-> "enabled", icenable |-> "enabled",
         ipriority |-> "priority", icfg |-> "cfg"]

vgic_v2_d_mmio_read(a) ==
  CASE ~a.word -> "panic"
    [] a.reg = "ctlr" -> "ctlr"
    [] a.reg \in {"typer", "iidr", "pidr2"} -> "const"
    [] a.reg \in DOMAIN Loop -> "loop"
    [] a.reg \in {"ispend", "icpend"} -> "pend"
    \* the case falls through to the priorities, below their first interrupt
    [] a.reg \in {"isactive", "icactive"} -> "panic"
    [] a.reg = "itargets" -> "targets"
    [] OTHER -> "fail"

vgic_v2_d_mmio_write(a) ==
  CASE a.reg = "ctlr" -> "ctlr"
    [] a.reg \in {"typer", "iidr", "pidr2", "ispend", "icpend", "isactive", "icactive"} -> "const"
    [] a.reg \in DOMAIN Loop -> "loop"
    [] a.reg = "itargets" -> "targets"
    [] a.reg = "sgir" -> "const"      \* vgic_emulate_sgi: module Vgic
    [] OTHER -> "fail"

vgic_v3_d_mmio_read(a) ==
  CASE a.reg = "ctlr" -> "ctlr"
    [] a.reg \in {"typer", "iidr", "typer2", "itargets", "isactive", "icactive", "pidr2"} -> "const"
    [] a.reg \in DOMAIN Loop -> "loop"
    [] a.reg \in {"ispend", "icpend"} -> "pend"
    [] a.reg = "irouter" -> IF a.bank = 0 THEN "keep" ELSE "route"
    [] OTHER -> "fail"

vgic_v3_d_mmio_write(a) ==
  CASE a.reg = "ctlr" -> "ctlr"
    [] a.reg \in {"typer", "iidr", "itargets", "ispend", "icpend", "isactive", "icactive",
                  "pidr2"} -> "const"
    [] a.reg \in DOMAIN Loop -> "loop"
    [] a.reg = "irouter" -> IF a.bank = 0 THEN "const" ELSE "route"
    [] OTHER -> "fail"

__vgicr_mmio_read(a) ==
  CASE a.reg \in {"ctlr", "waker", "iidr", "typer", "pidr2", "ispend", "icpend", "isactive",
                  "icactive", "igrpmod"} -> "const"
    [] a.reg \in DOMAIN Loop -> "loop"
    [] OTHER -> "fail"

__vgicr_mmio_write(a) ==
  CASE a.reg \in {"ctlr", "waker", "typer", "pidr2", "icpend", "isactive", "icactive",
                  "igrpmod"} -> "const"
    [] a.reg \in DOMAIN Loop -> "loop"
    [] OTHER -> "fail"

vgits_mmio_read(a)  == IF a.reg = "pidr2" THEN "const" ELSE "fail"
vgits_mmio_write(a) == "fail"

\* the regions that vgic_v2_init and vgic_v3_init register; no region is -1
vmmio_emulate(a) ==
  CASE a.frame = "gicd" /\ version = 2 ->
         IF a.wr THEN vgic_v2_d_mmio_write(a) ELSE vgic_v2_d_mmio_read(a)
    [] a.frame = "gicd" /\ version = 3 ->
         IF a.wr THEN vgic_v3_d_mmio_write(a) ELSE vgic_v3_d_mmio_read(a)
    [] a.frame = "gicr" /\ version = 3 ->
         IF a.wr THEN __vgicr_mmio_write(a) ELSE __vgicr_mmio_read(a)
    [] a.frame = "gits" /\ version = 3 ->
         IF a.wr THEN vgits_mmio_write(a) ELSE vgits_mmio_read(a)
    [] OTHER -> "fail"

\* mutant: the redistributor is that of the vCPU that accesses it
OwnerOfSelf(v, a) == IF a.frame = "gicr" \/ a.bank = 0 THEN Vcpu(v) ELSE Node(NodeOf(v))

\* vgic_get_irq: private interrupts are the redistributor's vCPU's, or of the
\* vCPU that accesses the distributor
OwnerOf(v, a) ==
  IF a.frame = "gicr" THEN Vcpu(a.vcpu) ELSE IF a.bank = 0 THEN Vcpu(v) ELSE Node(NodeOf(v))

IsLast(v) == v = Max(Vcpus)

\* vgicr_typer_read tells the vCPUs apart; the other constants are one value
ConstOf(a) ==
  IF a.frame = "gicr" /\ a.reg = "typer" THEN [None EXCEPT ![0] = a.vcpu, ![1] = IF IsLast(a.vcpu) THEN 1 ELSE 0]
  ELSE None

-----------------------------------------------------------------------------
(* The trap and the server                                                 *)

Alive(g) == NodeOfOwner(g) \notin dead

\* A handler of the vCPU on the network cpu does not go on while the server
\* of its node runs on top of it
Runs(g) ==
  /\ Alive(g)
  /\ g[1] = "vcpu" /\ g[2] = NicCpu(NodeOf(g[2])) => job[Node(NodeOf(g[2]))].at = "idle"

Same == UNCHANGED <<version, ops>>

\* g has the answer of its access: the vCPU returns to the guest in a step of
\* its own, the server sends MSG_MMIO_REPLY
Answer(g, val) ==
  IF g[1] = "vcpu" THEN job' = [job EXCEPT ![g].at = "end", ![g].val = val] /\ UNCHANGED reply
  ELSE /\ reply' = [reply EXCEPT ![job[g].from] = <<val>>]
       /\ job' = [job EXCEPT ![g] = Idle]

\* a failing handler: unexpected data abort in the trap, a status nobody reads
\* in the reply, whose value is the request's
Fail(g) == IF g[1] = "vcpu" THEN "panic" ELSE "answer"

\* vm_dabort finds no page and calls vmmio_emulate; vgicr_mmio_read and
\* vgicr_mmio_write forward what is not theirs
Access(v, a) ==
  LET g == Vcpu(v)
      forward == a.frame = "gicr" /\ version = 3 /\ a.vcpu \notin VcpusOf[NodeOf(v)]
      new == [Idle EXCEPT !.a = a, !.owner = OwnerOf(v, a),
                          !.val = IF a.wr THEN a.val ELSE x[v]]
  IN  /\ Runs(g)
      /\ job[g].at = "idle"
      /\ version = 2 => a.frame = "gicd"      \* the guest drives the GIC it has
      /\ ops < MaxOps
      /\ ops' = ops + 1
      /\ job' = [job EXCEPT ![g] = [new EXCEPT !.at = IF forward THEN "wait" ELSE "do"]]
      /\ net' = IF forward
                THEN [net EXCEPT ![<<NodeOf(v), NodeOf(a.vcpu)>>] =
                        Append(@, [type |-> "request", a |-> a, val |-> new.val, from |-> v])]
                ELSE net
      /\ UNCHANGED <<version, irqs, ctlr, hwen, hwroute, count, reply, x, dead>>

\* mutant: a cpu that waits for an answer has its interrupts masked
TakesMasked(n) == /\ Alive(Node(n)) /\ job[Node(n)].at = "idle"
                  /\ job[Vcpu(NicCpu(n))].at # "wait"

\* the network interrupt is taken in the guest, in a handler and in a wait, as
\* vm_sync_handler enables interrupts first; not inside the server
Takes(n) == Alive(Node(n)) /\ job[Node(n)].at = "idle"

\* the server takes a message: vmmio_req_recv_intr, recv_gic_config_msg_intr
Receive(n, m) ==
  LET g   == Node(n)
      msg == Head(net[<<m, n>>])
  IN  /\ Takes(n)
      /\ net[<<m, n>>] # << >>
      /\ net' = [net EXCEPT ![<<m, n>>] = Tail(@)]
      /\ job' = [job EXCEPT ![g] =
           IF msg.type = "request"
           THEN [Idle EXCEPT !.at = "do", !.a = msg.a, !.owner = Vcpu(msg.a.vcpu),
                             !.val = msg.val, !.from = msg.from]
           ELSE [Idle EXCEPT !.at = "targets", !.a = msg.a, !.owner = Node(n), !.val = msg.val]]
      /\ Same /\ UNCHANGED <<irqs, ctlr, hwen, hwroute, count, reply, x, dead>>

\* the dispatch of an access; the loops follow interrupt by interrupt
Emulate(g) ==
  LET j    == job[g]
      n    == NodeOfOwner(g)
      what == vmmio_emulate(j.a)
      out  == IF what = "fail" THEN Fail(g) ELSE what
  IN  /\ Runs(g)
      /\ j.at = "do"
      /\ \/ /\ out = "panic"
            /\ dead' = dead \cup {n} /\ UNCHANGED <<job, reply, ctlr>>
         \/ /\ out \in {"answer", "keep"}
            /\ Answer(g, j.val) /\ UNCHANGED <<dead, ctlr>>
         \/ /\ out = "const"
            /\ Answer(g, ConstOf(j.a)) /\ UNCHANGED <<dead, ctlr>>
         \/ /\ out = "pend"          \* the list registers of this cpu
            /\ \E val \in [Bits -> {0, 1}] : Answer(g, val)
            /\ UNCHANGED <<dead, ctlr>>
         \/ /\ out = "ctlr"
            /\ Answer(g, [None EXCEPT ![0] = ctlr[n]])
            /\ ctlr' = IF j.a.wr THEN [ctlr EXCEPT ![n] = j.a.val[0]] ELSE ctlr
            /\ UNCHANGED dead
         \/ /\ out \in {"loop", "targets", "route"}
            /\ job' = [job EXCEPT ![g].at = out] /\ UNCHANGED <<reply, dead, ctlr>>
      /\ Same /\ UNCHANGED <<irqs, hwen, hwroute, count, net, x>>

-----------------------------------------------------------------------------
(* One interrupt of a register, under its lock                             *)

\* irq->lock is held over the update of the physical interrupt
Locked(o, i) == \E g \in Owners : job[g].at = "count" /\ job[g].owner = o /\ job[g].i = i

\* the interrupt is done with: the next one, or the end of the loop
Next1(g, j) ==
  IF j.i + 1 < Width
  THEN job' = [job EXCEPT ![g] = [j EXCEPT !.i = @ + 1]] /\ UNCHANGED reply
  ELSE Answer(g, j.val)

ReadBit(g) ==
  LET j == job[g]
  IN  /\ Runs(g)
      /\ j.at = "loop" /\ ~j.a.wr
      /\ ~Locked(j.owner, j.i)
      /\ Next1(g, [j EXCEPT !.val[j.i] = irqs[j.owner][j.i][Loop[j.a.reg]]])
      /\ Same /\ UNCHANGED <<irqs, ctlr, hwen, hwroute, count, net, x, dead>>

\* vgic_igroup_write, vgic_ipriority_write, vgic_icfg_write
WriteBit(g) ==
  LET j == job[g]
  IN  /\ Runs(g)
      /\ j.at = "loop" /\ j.a.wr /\ j.a.reg \notin {"isenable", "icenable"}
      /\ ~Locked(j.owner, j.i)
      /\ irqs' = [irqs EXCEPT ![j.owner][j.i][Loop[j.a.reg]] = j.val[j.i]]
      /\ Next1(g, j)
      /\ Same /\ UNCHANGED <<ctlr, hwen, hwroute, count, net, x, dead>>

\* mutant: enabling twice counts twice
WantsTwice(j) == j.val[j.i] = 1

\* vgic_enable_irq and vgic_disable_irq return early for an interrupt that is
\* enabled, or disabled, already
Wants(j) == j.val[j.i] = 1 /\ irqs[j.owner][j.i].enabled = IF j.a.reg = "isenable" THEN 0 ELSE 1

\* vgic_isenable_write and vgic_icenable_write up to irq_enable or irq_disable,
\* which reads the count of the physical interrupt
EnableBit(g) ==
  LET j == job[g]
  IN  /\ Runs(g)
      /\ j.at = "loop" /\ j.a.wr /\ j.a.reg \in {"isenable", "icenable"}
      /\ ~Locked(j.owner, j.i)
      /\ IF ~Wants(j) THEN Next1(g, j) /\ UNCHANGED irqs
         ELSE /\ irqs' = [irqs EXCEPT ![j.owner][j.i].enabled = IF j.a.reg = "isenable" THEN 1 ELSE 0]
              /\ IF IsHw(j.owner, j.i)
                 THEN /\ job' = [job EXCEPT ![g].at = "count",
                                            ![g].seen = count[NodeOfOwner(g)][Kind(j.owner)]]
                      /\ UNCHANGED reply
                 ELSE Next1(g, j)
      /\ Same /\ UNCHANGED <<ctlr, hwen, hwroute, count, net, x, dead>>

\* and writes it: the count of a PPI is shared by the cpus of the node and has
\* no lock of its own.  A PPI is enabled on the cpu that runs the handler
EnableHw(g) ==
  LET j   == job[g]
      n   == NodeOfOwner(g)
      hw  == IF Kind(j.owner) = "ppi" THEN Vcpu(CpuOf(g)) ELSE Node(n)
      on  == j.a.reg = "isenable"
      new == IF on THEN j.seen + 1 ELSE j.seen - 1
  IN  /\ Alive(g)
      /\ j.at = "count"
      /\ count' = [count EXCEPT ![n][Kind(j.owner)] = new]
      /\ hwen' = IF on THEN [hwen EXCEPT ![hw] = TRUE]
                 ELSE IF new = 0 THEN [hwen EXCEPT ![hw] = FALSE] ELSE hwen
      /\ Next1(g, [j EXCEPT !.at = "loop", !.seen = 0])
      /\ Same /\ UNCHANGED <<irqs, ctlr, hwroute, net, x, dead>>

\* node_vcpu
Local(n, v) == IF v \in VcpusOf[n] THEN v ELSE NoVcpu

\* __builtin_ffs of a target byte
FirstTarget(targets) ==
  LET set == {v \in Vcpus : (targets \div 2 ^ v) % 2 = 1} IN IF set = {} THEN NoVcpu ELSE Min(set)

SetTarget(o, i, n, targets, target) ==
  /\ irqs' = [irqs EXCEPT ![o][i].targets = targets, ![o][i].target = target]
  /\ hwroute' = IF o[1] = "node" /\ IsHw(o, i)
                THEN [hwroute EXCEPT ![n] = IF target = NoVcpu THEN NicCpu(n) ELSE target]
                ELSE hwroute

\* vgic_v2_itargets_read, and vgic_v2_set_targets for a write or a broadcast
TargetBit(g) ==
  LET j == job[g]
      n == NodeOfOwner(g)
      last == j.i + 1 = Width
  IN  /\ Runs(g)
      /\ j.at = "targets"
      /\ ~Locked(j.owner, j.i)
      /\ IF j.a.wr
         THEN /\ SetTarget(j.owner, j.i, n, j.val[j.i], Local(n, FirstTarget(j.val[j.i])))
              /\ job' = [job EXCEPT ![g] = IF ~last THEN [j EXCEPT !.i = @ + 1]
                                           ELSE IF g[1] = "node" THEN Idle
                                           ELSE [j EXCEPT !.at = IF j.a.bank = 1 THEN "bcast" ELSE "end"]]
              /\ UNCHANGED reply
         ELSE /\ Next1(g, [j EXCEPT !.val[j.i] = irqs[j.owner][j.i].targets])
              /\ UNCHANGED <<irqs, hwroute>>
      /\ Same /\ UNCHANGED <<ctlr, hwen, count, net, x, dead>>

\* mutant: the other nodes are not told
BroadcastNone(g) ==
  /\ Runs(g)
  /\ job[g].at = "bcast"
  /\ job' = [job EXCEPT ![g].at = "end"]
  /\ Same /\ UNCHANGED <<irqs, ctlr, hwen, hwroute, count, net, reply, x, dead>>

\* MSG_GIC_CONFIG to every other node
Broadcast(g) ==
  LET n == NodeOfOwner(g)
      j == job[g]
  IN  /\ Runs(g)
      /\ j.at = "bcast"
      /\ net' = [p \in DOMAIN net |->
                   IF p[1] = n /\ p[2] # n
                   THEN Append(net[p], [type |-> "config", a |-> j.a, val |-> j.val, from |-> NoVcpu])
                   ELSE net[p]]
      /\ job' = [job EXCEPT ![g].at = "end"]
      /\ Same /\ UNCHANGED <<irqs, ctlr, hwen, hwroute, count, reply, x, dead>>

\* vgic_v3_iroute_read and vgic_v3_iroute_write: one interrupt, this node only
Route(g) ==
  LET j == job[g]
      n == NodeOfOwner(g)
      r == j.val[0]
      v == IF r = IRM THEN Min(VcpusOf[n]) ELSE r
  IN  /\ Runs(g)
      /\ j.at = "route"
      /\ ~Locked(j.owner, 0)
      /\ IF j.a.wr
         THEN SetTarget(j.owner, 0, n, v, Local(n, v)) /\ Answer(g, j.val)
         ELSE Answer(g, [None EXCEPT ![0] = irqs[j.owner][0].targets]) /\ UNCHANGED <<irqs, hwroute>>
      /\ Same /\ UNCHANGED <<ctlr, hwen, count, net, x, dead>>

-----------------------------------------------------------------------------
(* The end of an access                                                    *)

\* vmmio_recv_reply: the value goes into the access, the status is dropped
RecvReply(v) ==
  LET g == Vcpu(v)
  IN  /\ Alive(g)
      /\ job[g].at = "wait"
      /\ reply[v] # NoReply
      /\ job' = [job EXCEPT ![g].at = "end", ![g].val = reply[v][1]]
      /\ reply' = [reply EXCEPT ![v] = NoReply]
      /\ Same /\ UNCHANGED <<irqs, ctlr, hwen, hwroute, count, net, x, dead>>

\* vm_dabort returns: a read fills the register, the guest goes on
Return(v) ==
  LET g == Vcpu(v)
  IN  /\ Runs(g)
      /\ job[g].at = "end"
      /\ x' = IF job[g].a.wr THEN x ELSE [x EXCEPT ![v] = job[g].val]
      /\ job' = [job EXCEPT ![g] = Idle]
      /\ Same /\ UNCHANGED <<irqs, ctlr, hwen, hwroute, count, net, reply, dead>>

Handler(g) ==
  \/ Emulate(g) \/ ReadBit(g) \/ WriteBit(g) \/ EnableBit(g) \/ EnableHw(g) \/ TargetBit(g)
  \/ Broadcast(g) \/ Route(g)

Trap(v)   == Handler(Vcpu(v)) \/ RecvReply(v) \/ Return(v)
Server(n) == Handler(Node(n)) \/ \E m \in Nodes : Receive(n, m)

Work == (\E v \in Vcpus : Trap(v)) \/ (\E n \in Nodes : Server(n))

Next == Work \/ \E v \in Vcpus : \E a \in Accesses[v] : Access(v, a)

Spec == Init /\ [][Next]_vars

\* the machine does not stop while a handler can go on or a message can be
\* taken: less than that every cpu runs, and enough
FairSpec == Spec /\ WF_vars(Work)

-----------------------------------------------------------------------------
(* Properties                                                              *)

\* Every access returns to the guest: nodes whose cpus wait for each other's
\* answers still serve each other, as the wait is with interrupts enabled
\* (vm_sync_handler, send_msg_cb).  A node that panics answers nobody.
AccessReturns == \A v \in Vcpus : job[Vcpu(v)].at # "idle" ~> job[Vcpu(v)].at = "idle" \/ dead # {}

\* the interrupts of the register v is accessing: here, at the server, or done
Fields == {"enabled", "igroup", "priority", "cfg"}

Known(a) == a.reg \in DOMAIN Loop /\ vmmio_emulate(a) = "loop"

OpOf(a) ==
  IF ~a.wr THEN "read" ELSE IF a.reg = "isenable" THEN "set"
  ELSE IF a.reg = "icenable" THEN "clear" ELSE "write"

NoAccess == [op |-> "none", owner |-> <<"none", 0>>, field |-> "none", next |-> 0, val |-> None]

\* the access j of v, whose server does s and has answered r
View(v, j, s, r, known) ==
  LET away == j.at = "wait"
      done == (away /\ r # NoReply) \/ j.at = "end"
      here == IF away THEN s ELSE j
      busy == ~away \/ (s.at # "idle" /\ s.from = v)
  IN  IF j.at = "idle" THEN NoAccess
      ELSE IF ~known THEN [NoAccess EXCEPT !.op = "other"]
      ELSE [op    |-> OpOf(j.a),
            owner |-> IF j.a.frame = "gicr" THEN Vcpu(j.a.vcpu)
                      ELSE IF j.a.bank = 0 THEN Vcpu(v) ELSE Node(NodeOf(v)),
            field |-> Loop[j.a.reg],
            next  |-> IF done THEN Width ELSE IF ~busy THEN 0
                      ELSE here.i + IF here.at = "count" THEN 1 ELSE 0,
            val   |-> IF away /\ done THEN r[1] ELSE IF busy THEN here.val ELSE j.val]

Progress ==
  [v \in Vcpus |-> LET j == job[Vcpu(v)]
                   IN  View(v, j, job[Node(NodeOf(j.a.vcpu))], reply[v], Known(j.a))]

Registers == [o \in Owners |-> [i \in Bits |-> [f \in Fields |-> irqs[o][i][f]]]]

Abstract == INSTANCE RegisterBank WITH
  Owners <- Owners, Values <- Nat, bank <- Registers, acc <- Progress

\* Forwarded or not, an access to a register of enables, groups, priorities or
\* trigger modes takes every interrupt once, at its owner, between the trap and
\* the return, and a read returns what it found there (vmmio.c, vgic.c).
ImplementsRegisterBank == Abstract!Spec

\* What the guest does with the registers that the nodes do not keep alike:
\* ITARGETSR of the SPIs is written by one vCPU
Targeting(a) == a.frame = "gicd" /\ a.reg = "itargets" /\ a.bank = 1 /\ a.wr

OneTargeter ==
  \A v, u \in Vcpus : \A a \in Accesses[v], b \in Accesses[u] :
    Targeting(a) /\ Targeting(b) => v = u

\* and the enables of a redistributor by its own vCPU
OwnEnables ==
  \A v \in Vcpus : \A a \in Accesses[v] :
    a.frame = "gicr" /\ a.wr /\ a.reg \in {"isenable", "icenable"} => a.vcpu = v

\* g is changing the target of an SPI, or its message is still on its way
Moving(n) ==
  \/ job[Node(n)].at = "targets"
  \/ \E v \in VcpusOf[n] : job[Vcpu(v)].at \in {"targets", "bcast"} /\ job[Vcpu(v)].a.wr
  \/ \E m \in Nodes : \E k \in DOMAIN net[<<m, n>>] : net[<<m, n>>][k].type = "config"

\* ITARGETSR of an SPI that one node writes is the same on every node when no
\* broadcast is left, and on at most one node is the interrupt's target a vCPU
\* of its own: "forward itargets value to other node" (vgic-v2.c)
TargetsAgree ==
  version = 2 /\ (\A n \in Nodes : ~Moving(n)) =>
    \A i \in Bits :
      /\ \A n, m \in Nodes : irqs[Node(n)][i].targets = irqs[Node(m)][i].targets
      /\ \A n, m \in Nodes : n # m => irqs[Node(n)][i].target = NoVcpu
                                      \/ irqs[Node(m)][i].target = NoVcpu

\* The physical interrupt follows the virtual one it is connected to: an SPI is
\* enabled exactly when the guest's is and goes to the cpu of its target, a
\* timer whose interrupt the guest has enabled is enabled on its cpu, whatever
\* the shared count has come to (vgic_enable_irq, vgic_disable_irq, irq.c)
HwFollows ==
  \A n \in Nodes :
    LET o == Node(n)
    IN  /\ Locked(o, 0) \/ (hwen[o] <=> irqs[o][0].enabled = 1)
        /\ hwroute[n] = IF irqs[o][0].target = NoVcpu THEN NicCpu(n) ELSE irqs[o][0].target
        /\ \A v \in VcpusOf[n] :
             irqs[Vcpu(v)][Width - 1].enabled = 1 => hwen[Vcpu(v)] \/ Locked(Vcpu(v), Width - 1)
=============================================================================

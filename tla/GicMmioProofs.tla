-------------------------- MODULE GicMmioProofs --------------------------
(***************************************************************************)
(* What the emulation of the interrupt controller's registers keeps, for   *)
(* any number of nodes, vCPUs, interrupts and accesses (module GicMmio).   *)
(*                                                                         *)
(* Four arguments rest on one another.  Every handler and every message    *)
(* does a legal piece of work (TypeOK, Works).  The lock of an interrupt   *)
(* has one holder, and so the count, the enable and the route of a         *)
(* physical interrupt follow the virtual one (LockOK, SpiOK, RouteOK,      *)
(* TimerOK).  What the writer of ITARGETSR has written, said and not yet   *)
(* said determines what the other nodes come to (TellOK).  A forwarded     *)
(* access has one request, one server or one reply (CallOK), which makes   *)
(* every step a step of RegisterBank or none.                              *)
(***************************************************************************)
EXTENDS GicMmio, SequenceTheorems, FiniteSetTheorems, TLAPS

(* The inductive invariant.                                                *)

\* The values, the accesses, the stages of a job, and the records of GicMmio.
Vals == [Bits -> Nat]
Accs == UNION {Accesses[v] : v \in Vcpus}
Ats  == {"idle", "wait", "do", "loop", "count", "targets", "bcast", "route", "end"}
Irqs == [enabled : {0, 1}, igroup : Nat, priority : Nat, cfg : Nat, targets : Nat,
         target : Vcpus \cup {NoVcpu}]
Jobs == [at : Ats, a : Accs \cup {<< >>}, owner : Owners \cup {<< >>}, i : Bits, val : Vals,
         seen : Int, from : Vcpus \cup {NoVcpu}]
Msgs == [type : {"request", "config"}, a : Accs, val : Vals, from : Vcpus \cup {NoVcpu}]

\* Every variable has its type.
TypeOK ==
  /\ version \in {2, 3}
  /\ irqs \in [Owners -> [Bits -> Irqs]]
  /\ ctlr \in [Nodes -> Nat]
  /\ hwen \in [Owners -> BOOLEAN]
  /\ hwroute \in [Nodes -> Vcpus \cup {NicCpu(n) : n \in Nodes}]
  /\ count \in [Nodes -> [{"ppi", "spi"} -> Int]]
  /\ job \in [Owners -> Jobs]
  /\ net \in [Nodes \X Nodes -> Seq(Msgs)]
  /\ reply \in [Vcpus -> Seq(Vals)]
  /\ x \in [Vcpus -> Vals]
  /\ ops \in 0..MaxOps
  /\ dead \subseteq Nodes

\* the access of v is not for its own node
Away(v, a) == a.frame = "gicr" /\ version = 3 /\ a.vcpu \notin VcpusOf[NodeOf(v)]

\* a write of ITARGETSR of SPIs
Config(a) == version = 2 /\ Targeting(a)

\* The work j of g: a vCPU's own access,
TrapJob(g, j) ==
  /\ g[1] = "vcpu"
  /\ j.a \in Accesses[g[2]] /\ j.owner = OwnerOf(g[2], j.a) /\ j.from = NoVcpu
  /\ version = 2 => j.a.frame = "gicd"
  /\ j.at # "end" => (j.at = "wait" <=> Away(g[2], j.a))

\* the request of another node
RequestJob(g, j) ==
  /\ g[1] = "node" /\ j.at \in {"do", "loop", "count"}
  /\ j.from \in Vcpus /\ j.a \in Accesses[j.from] /\ Away(j.from, j.a)
  /\ NodeOf(j.a.vcpu) = g[2] /\ j.owner = Vcpu(j.a.vcpu)

\* or its broadcast
ConfigJob(g, j) ==
  /\ g[1] = "node" /\ j.at = "targets"
  /\ j.from = NoVcpu /\ j.owner = g /\ j.a \in Accs /\ Config(j.a)

\* how far it is
Stage(j) ==
  /\ j.at = "do" => j.i = 0
  /\ j.at \in {"loop", "count"} => vmmio_emulate(j.a) = "loop"
  /\ j.at = "count" => j.a.wr /\ j.a.reg \in {"isenable", "icenable"} /\ IsHw(j.owner, j.i)
  /\ j.at \in {"targets", "bcast"} => vmmio_emulate(j.a) = "targets"
  /\ j.at = "bcast" => j.a.wr /\ j.a.bank = 1
  /\ j.at = "route" => vmmio_emulate(j.a) = "route"

GoodJob(g) ==
  {j \in Jobs : j.at # "idle" => (TrapJob(g, j) \/ RequestJob(g, j) \/ ConfigJob(g, j)) /\ Stage(j)}

RequestMsg(m, n, msg) ==
  /\ msg.type = "request" /\ msg.from \in Vcpus /\ msg.a \in Accesses[msg.from]
  /\ Away(msg.from, msg.a) /\ NodeOf(msg.from) = m /\ NodeOf(msg.a.vcpu) = n

ConfigMsg(msg) == msg.type = "config" /\ msg.from = NoVcpu /\ Config(msg.a)

GoodMsg(m, n) == {msg \in Msgs : RequestMsg(m, n, msg) \/ ConfigMsg(msg)}

\* Every job and every message is legal.
Works ==
  /\ \A g \in Owners : job[g] \in GoodJob(g)
  /\ \A m, n \in Nodes : net[<<m, n>>] \in Seq(GoodMsg(m, n))

\* The lock of an interrupt: one holder, and what it has written is there.
Holds(j, o, i) == j.at = "count" /\ j.owner = o /\ j.i = i

LockOK ==
  /\ \A g, h \in Owners : \A o \in Owners : \A i \in Bits : Holds(job[g], o, i) /\ Holds(job[h], o, i) => g = h
  /\ \A g \in Owners : job[g].at = "count" =>
       irqs[job[g].owner][job[g].i].enabled = IF job[g].a.reg = "isenable" THEN 1 ELSE 0

\* The count of the physical SPI and its enable.
SpiOK ==
  \A n \in Nodes :
    /\ hwen[Node(n)] <=> count[n]["spi"] = 1
    /\ \/ Locked(Node(n), 0)
       \/ count[n]["spi"] = irqs[Node(n)][0].enabled
    /\ \A g \in Owners : Holds(job[g], Node(n), 0) =>
         job[g].seen = count[n]["spi"] /\ job[g].seen = 1 - irqs[Node(n)][0].enabled

\* The physical SPI goes to the cpu of its target.
RouteOK ==
  \A n \in Nodes : hwroute[n] = IF irqs[Node(n)][0].target = NoVcpu THEN NicCpu(n) ELSE irqs[Node(n)][0].target

\* A timer the guest has enabled is enabled on its vCPU's cpu, or is about to be.
TimerOK ==
  \A v \in Vcpus : irqs[Vcpu(v)][Width - 1].enabled = 1 =>
     hwen[Vcpu(v)] \/ Holds(job[Vcpu(v)], Vcpu(v), Width - 1)

\* What holds whatever the guest does.
HwInv == TypeOK /\ Works /\ LockOK /\ SpiOK /\ RouteOK

\* The target of an SPI is the vCPU of n that its targets name, if any.
Agree(n) == \A i \in Bits : irqs[Node(n)][i].target \in {NoVcpu, Local(n, FirstTarget(irqs[Node(n)][i].targets))}

\* vCPU w is between the write of the first target and the broadcast
Telling(w) == job[Vcpu(w)].at \in {"targets", "bcast"} /\ Targeting(job[Vcpu(w)].a)

\* The targets job j has written
Written(n, j) == \A i \in Bits : (i < j.i) => irqs[Node(n)][i].targets = j.val[i]

\* the targets of SPI i that n ends up with
Coming(n, m, i) ==
  LET q == net[<<m, n>>]
  IN IF q # << >> THEN q[Len(q)].val[i]
     ELSE IF job[Node(n)].at = "targets" THEN job[Node(n)].val[i]
     ELSE irqs[Node(n)][i].targets

\* only w writes ITARGETSR of SPIs
Writer(w) == \A v \in Vcpus : \A a \in Accesses[v] : Targeting(a) => v = w

\* only the node of w sends, and not to itself
Silent(w) == \A m, n \in Nodes : m # NodeOf(w) \/ n = NodeOf(w) => net[<<m, n>>] = << >>

\* a server writes what it was told, from the first to the last
Serving(w) ==
  \A n \in Nodes : job[Node(n)].at # "idle" =>
    n # NodeOf(w) /\ job[Node(n)].at = "targets" /\ Written(n, job[Node(n)])

\* what w has written and not yet sent
Speaking(w) ==
  Telling(w) =>
    /\ job[Vcpu(w)].at = "targets" => Written(NodeOf(w), job[Vcpu(w)])
    /\ job[Vcpu(w)].at = "bcast" =>
         \A i \in Bits : irqs[Node(NodeOf(w))][i].targets = job[Vcpu(w)].val[i]

\* what w has sent is what the others come to
Told(w) ==
  ~Telling(w) => \A n \in Nodes \ {NodeOf(w)} : \A i \in Bits :
    Coming(n, NodeOf(w), i) = irqs[Node(NodeOf(w))][i].targets

\* The agreement of the nodes on ITARGETSR that w writes.
TellOK(w) ==
  version = 2 => (\A n \in Nodes : Agree(n)) /\ Silent(w) /\ Serving(w) /\ Speaking(w) /\ Told(w)

\* v waits for the answer to a
Waits(v, a) == job[Vcpu(v)].at = "wait" /\ job[Vcpu(v)].a = a /\ reply[v] = NoReply

\* the server n works for v
Serves(n, v) == job[Node(n)].at # "idle" /\ job[Node(n)].from = v

\* an answer is there, the request is served, or it is on its way, once
Replied == \A v \in Vcpus : reply[v] # NoReply => job[Vcpu(v)].at = "wait"

Served == \A n \in Nodes : \A v \in Vcpus : Serves(n, v) => Waits(v, job[Node(n)].a)

Posted ==
  \A m, n \in Nodes : \A k \in 1..Len(net[<<m, n>>]) :
    LET q == net[<<m, n>>]
    IN  q[k].type = "request" =>
          /\ Waits(q[k].from, q[k].a) /\ job[Vcpu(q[k].from)].val = q[k].val
          /\ ~Serves(n, q[k].from)
          /\ \A l \in 1..Len(q) : q[l].from = q[k].from => l = k

\* A forwarded access: one request, one server or one reply.
CallOK == Replied /\ Served /\ Posted

-----------------------------------------------------------------------------
(* Nodes, vCPUs and owners.                                                *)

\* node_vcpu: a vCPU is of one node.
LEMMA NodeOfIs ==
  /\ \A v \in Vcpus : NodeOf(v) \in Nodes /\ v \in VcpusOf[NodeOf(v)]
  /\ \A n \in Nodes : \A v \in VcpusOf[n] : v \in Vcpus /\ NodeOf(v) = n
<1>1. ASSUME NEW v \in Vcpus PROVE NodeOf(v) \in Nodes /\ v \in VcpusOf[NodeOf(v)]
  <2>1. \E n \in Nodes : v \in VcpusOf[n]
    BY DEF Vcpus
  <2> QED BY <2>1 DEF NodeOf
<1>2. ASSUME NEW n \in Nodes, NEW v \in VcpusOf[n] PROVE v \in Vcpus /\ NodeOf(v) = n
  <2>1. v \in Vcpus
    BY DEF Vcpus
  <2> QED BY <2>1, <1>1, GicMmioAssumption
<1> QED BY <1>1, <1>2

\* The owners of interrupts, who are also those who run.
LEMMA OwnerIs ==
  /\ \A v : Vcpu(v)[1] = "vcpu" /\ Vcpu(v)[2] = v
  /\ \A n : Node(n)[1] = "node" /\ Node(n)[2] = n
  /\ \A v \in Vcpus : Vcpu(v) \in Owners /\ NodeOfOwner(Vcpu(v)) = NodeOf(v)
  /\ \A n \in Nodes : Node(n) \in Owners /\ NodeOfOwner(Node(n)) = n
  /\ \A o \in Owners : \/ o[1] = "vcpu" /\ o[2] \in Vcpus /\ o = Vcpu(o[2])
                       \/ o[1] = "node" /\ o[2] \in Nodes /\ o = Node(o[2])
  /\ \A v, u : Vcpu(v) = Vcpu(u) => v = u
  /\ \A v, u : Node(v) = Node(u) => v = u
  /\ \A v, n : Vcpu(v) # Node(n)
  /\ \A o \in Owners : NodeOfOwner(o) \in Nodes /\ o # << >>
<1>1. /\ \A v : Vcpu(v)[1] = "vcpu" /\ Vcpu(v)[2] = v
      /\ \A n : Node(n)[1] = "node" /\ Node(n)[2] = n
  BY DEF Vcpu, Node
<1>2. \A o \in Owners : \/ o[1] = "vcpu" /\ o[2] \in Vcpus /\ o = Vcpu(o[2])
                        \/ o[1] = "node" /\ o[2] \in Nodes /\ o = Node(o[2])
  BY <1>1 DEF Owners
<1>3. \A v \in Vcpus : Vcpu(v) \in Owners /\ NodeOfOwner(Vcpu(v)) = NodeOf(v)
  BY <1>1 DEF Owners, NodeOfOwner
<1>4. \A n \in Nodes : Node(n) \in Owners /\ NodeOfOwner(Node(n)) = n
  BY <1>1 DEF Owners, NodeOfOwner
<1>5. /\ \A v, u : Vcpu(v) = Vcpu(u) => v = u
      /\ \A v, u : Node(v) = Node(u) => v = u
      /\ \A v, n : Vcpu(v) # Node(n)
  BY <1>1
<1>6. \A o \in Owners : NodeOfOwner(o) \in Nodes
  BY <1>1, <1>2, NodeOfIs DEF NodeOfOwner
<1>7. \A o \in Owners : o # << >>
  BY <1>2 DEF Vcpu, Node
<1> QED BY <1>1, <1>2, <1>3, <1>4, <1>5, <1>6, <1>7

\* NoVcpu is no vCPU, and a register has interrupts 0 and Width - 1.
LEMMA NumbersAt ==
  /\ NoVcpu \notin Vcpus /\ Vcpus \subseteq Nat
  /\ Width \in Nat /\ Width > 1 /\ 0 \in Bits /\ Width - 1 \in Bits /\ Width - 1 # 0
  /\ \A i \in Bits : i \in Nat /\ i < Width
  /\ \A i \in Nat : i < Width => i \in Bits
  /\ None \in Vals
<1>1. Width \in Nat /\ Width > 1 /\ Vcpus \subseteq Nat
  BY GicMmioAssumption
<1> QED BY <1>1 DEF NoVcpu, Bits, None, Vals

\* A nonempty set of numbers has a least one.
LEMMA LeastExists ==
  ASSUME NEW T, T \subseteq Nat, T # {}
  PROVE  Min(T) \in T
<1>1. PICK n \in T : TRUE
  OBVIOUS
<1> DEFINE S == 0..n
           U == {A \in SUBSET S : \E t \in T : A = 0..t}
<1>2. IsFiniteSet(S)
  BY <1>1, FS_Interval
<1>3. IsWellFoundedOn(StrictSubsetOrdering(S), FiniteSubsetsOf(S))
  BY FS_StrictSubsetOrderingWellFounded
<1>4. U \subseteq FiniteSubsetsOf(S) /\ U # {}
  BY <1>1, <1>2, FS_FiniteSubsetsOfFinite
<1>5. PICK A \in U : \A B \in U : ~(<<B, A>> \in StrictSubsetOrdering(S))
  <2> HIDE DEF U, S
  <2> QED BY <1>3, <1>4, WFMin
<1>6. PICK t \in T : A = 0..t
  BY <1>5
<1>7. ASSUME NEW e \in T, ~(t <= e) PROVE FALSE
  <2>1. e < t /\ e \in Nat /\ t \in Nat
    BY <1>7
  <2>2. 0..e \subseteq A /\ t \in A /\ t \notin 0..e
    BY <2>1, <1>6
  <2>3. 0..e \in U
    BY <2>2, <1>5
  <2>4. <<0..e, A>> \in StrictSubsetOrdering(S)
    BY <2>2, <2>3, <1>5 DEF StrictSubsetOrdering
  <2> QED BY <1>5, <2>3, <2>4
<1>8. \A e \in T : t <= e
  BY <1>7
<1> QED BY <1>8 DEF Min

\* The cpu that takes the network interrupt of a node with a vCPU is one of
\* its own.
LEMMA NicCpuIs ==
  \A n \in Nodes : VcpusOf[n] # {} => NicCpu(n) \in VcpusOf[n]
<1> SUFFICES ASSUME NEW n \in Nodes, VcpusOf[n] # {} PROVE NicCpu(n) \in VcpusOf[n]
  OBVIOUS
<1>1. VcpusOf[n] \subseteq Nat
  BY NodeOfIs, NumbersAt
<1> QED BY <1>1, LeastExists DEF NicCpu

-----------------------------------------------------------------------------
(* What the dispatch of an access tells of it.                             *)

\* Which registers lead to which loop.
LEMMA EmulateIs ==
  ASSUME NEW a \in AccessRec, version \in {2, 3}
  PROVE  /\ vmmio_emulate(a) = "loop" => a.reg \in DOMAIN Loop
         /\ vmmio_emulate(a) = "targets" => version = 2 /\ a.frame = "gicd" /\ a.reg = "itargets"
         /\ vmmio_emulate(a) = "route" => version = 3 /\ a.frame = "gicd" /\ a.bank = 1
         /\ Targeting(a) /\ version = 2 => vmmio_emulate(a) = "targets"
         /\ vmmio_emulate(a) # "answer"
<1> DEFINE D == DOMAIN Loop
<1>1. /\ "itargets" \notin D /\ "irouter" \notin D
      /\ a.frame \in {"gicd", "gicr", "gits", "hole"} /\ a.wr \in BOOLEAN /\ a.bank \in {0, 1}
  BY DEF Loop, AccessRec
<1> HIDE DEF D
<1>2. CASE a.frame = "gicd" /\ version = 2 /\ a.wr
  BY <1>1, <1>2 DEF vmmio_emulate, vgic_v2_d_mmio_write, D, Targeting
<1>3. CASE a.frame = "gicd" /\ version = 2 /\ ~a.wr
  BY <1>1, <1>3 DEF vmmio_emulate, vgic_v2_d_mmio_read, D, Targeting
<1>4. CASE a.frame = "gicd" /\ version = 3 /\ a.wr
  BY <1>1, <1>4 DEF vmmio_emulate, vgic_v3_d_mmio_write, D, Targeting
<1>5. CASE a.frame = "gicd" /\ version = 3 /\ ~a.wr
  BY <1>1, <1>5 DEF vmmio_emulate, vgic_v3_d_mmio_read, D, Targeting
<1>6. CASE a.frame = "gicr" /\ version = 3
  BY <1>1, <1>6 DEF vmmio_emulate, __vgicr_mmio_write, __vgicr_mmio_read, D, Targeting
<1>7. CASE a.frame = "gits" /\ version = 3
  BY <1>1, <1>7 DEF vmmio_emulate, vgits_mmio_write, vgits_mmio_read, D, Targeting
<1>8. CASE a.frame = "hole" \/ (a.frame \in {"gicr", "gits"} /\ version = 2)
  BY <1>1, <1>8 DEF vmmio_emulate, D, Targeting
<1> QED BY <1>1, <1>2, <1>3, <1>4, <1>5, <1>6, <1>7, <1>8

\* The GIC's version does not change, and with it what is legal.
LEMMA Fixed ==
  ASSUME version' = version
  PROVE  /\ \A a : vmmio_emulate(a)' = vmmio_emulate(a)
         /\ \A g : GoodJob(g)' = GoodJob(g)
         /\ \A m, n : GoodMsg(m, n)' = GoodMsg(m, n)
<1>1. ASSUME NEW a PROVE vmmio_emulate(a)' = vmmio_emulate(a)
  BY DEF vmmio_emulate
<1>2. /\ \A v, a : Away(v, a)' = Away(v, a)
      /\ \A a : Config(a)' = Config(a)
  BY DEF Away, Config
<1>3. ASSUME NEW g, NEW j PROVE TrapJob(g, j)' = TrapJob(g, j)
  BY <1>2 DEF TrapJob
<1>4. ASSUME NEW g, NEW j PROVE RequestJob(g, j)' = RequestJob(g, j)
  BY <1>2 DEF RequestJob
<1>5. ASSUME NEW g, NEW j PROVE ConfigJob(g, j)' = ConfigJob(g, j)
  BY <1>2 DEF ConfigJob
<1>6. ASSUME NEW j PROVE Stage(j)' = Stage(j)
  BY <1>1 DEF Stage
<1>7. \A g : GoodJob(g)' = GoodJob(g)
  BY <1>3, <1>4, <1>5, <1>6 DEF GoodJob
<1>8. \A m, n : GoodMsg(m, n)' = GoodMsg(m, n)
  BY <1>2 DEF GoodMsg, RequestMsg, ConfigMsg
<1> QED BY <1>1, <1>7, <1>8

-----------------------------------------------------------------------------
(* The work of a cpu.                                                      *)

\* g goes on with k.
Step(g, k) == k \in GoodJob(g) /\ job' = [job EXCEPT ![g] = k]

\* g has answered val, and goes on with k.
Answered(g, k, val) ==
  IF g[1] = "vcpu" THEN k = [job[g] EXCEPT !.at = "end", !.val = val] /\ reply' = reply
  ELSE k = Idle /\ reply' = [reply EXCEPT ![job[g].from] = <<val>>]

\* What is known of the work of g.
LEMMA JobIs ==
  ASSUME TypeOK, Works, NEW g \in Owners, job[g].at # "idle"
  PROVE  /\ job[g] \in GoodJob(g) /\ job[g] \in Jobs /\ Stage(job[g])
         /\ TrapJob(g, job[g]) \/ RequestJob(g, job[g]) \/ ConfigJob(g, job[g])
         /\ job[g].a \in Accs /\ job[g].a \in AccessRec /\ job[g].owner \in Owners
         /\ job[g].at \notin {"wait", "end"} => NodeOfOwner(job[g].owner) = NodeOfOwner(g)
         /\ g[1] = "node" => job[g].at \in {"do", "loop", "count", "targets"}
         /\ g[1] = "node" /\ job[g].at # "targets" => job[g].from \in Vcpus
<1> DEFINE j == job[g]
<1>1. j \in Jobs /\ j \in GoodJob(g)
  BY DEF TypeOK, Works
<1> HIDE DEF j
<1>2. TrapJob(g, j) \/ RequestJob(g, j) \/ ConfigJob(g, j)
  BY <1>1 DEF GoodJob, j
<1>3. Stage(j)
  BY <1>1 DEF GoodJob, j
<1>4. \A v \in Vcpus : \A a \in Accesses[v] : a \in Accs /\ a \in AccessRec
  BY GicMmioAssumption DEF Accs
<1>5. CASE TrapJob(g, j)
  <2>1. PICK v \in Vcpus : g = Vcpu(v) /\ g[2] = v /\ g[1] = "vcpu"
    BY <1>5, OwnerIs DEF TrapJob
  <2>2. j.a \in Accesses[v] /\ j.owner = OwnerOf(v, j.a) /\ (version = 2 => j.a.frame = "gicd")
        /\ (j.at # "end" => (j.at = "wait" <=> Away(v, j.a)))
    BY <1>5, <2>1 DEF TrapJob
  <2>3. j.a \in Accs /\ j.a \in AccessRec /\ j.a.vcpu \in Vcpus
    BY <1>4, <2>2 DEF AccessRec
  <2>4. j.owner \in Owners
    BY <2>2, <2>3, NodeOfIs, OwnerIs DEF OwnerOf
  <2>5. j.at \notin {"wait", "end"} => NodeOfOwner(j.owner) = NodeOfOwner(g)
    <3>1. SUFFICES ASSUME j.at \notin {"wait", "end"} PROVE NodeOfOwner(j.owner) = NodeOf(v)
      BY <2>1, OwnerIs
    <3>2. j.a.frame = "gicr" => j.a.vcpu \in VcpusOf[NodeOf(v)]
      BY <3>1, <2>2 DEF Away, TypeOK
    <3> QED BY <3>2, <2>2, <2>3, NodeOfIs, OwnerIs DEF OwnerOf
  <2> QED BY <1>1, <1>2, <1>3, <2>1, <2>3, <2>4, <2>5 DEF j
<1>6. CASE RequestJob(g, j)
  <2>1. /\ j.from \in Vcpus /\ j.a \in Accs /\ j.a \in AccessRec /\ j.at \in {"do", "loop", "count"}
        /\ g[1] = "node" /\ NodeOf(j.a.vcpu) = g[2] /\ j.owner = Vcpu(j.a.vcpu)
    BY <1>4, <1>6 DEF RequestJob
  <2>2. j.a.vcpu \in Vcpus
    BY <2>1 DEF AccessRec
  <2>3. j.owner \in Owners /\ NodeOfOwner(j.owner) = NodeOfOwner(g)
    BY <2>1, <2>2, OwnerIs DEF NodeOfOwner
  <2> QED BY <1>1, <1>2, <1>3, <2>1, <2>3 DEF j
<1>7. CASE ConfigJob(g, j)
  <2>1. j.a \in Accs /\ j.owner = g /\ j.at = "targets"
    BY <1>7 DEF ConfigJob
  <2>2. j.a \in AccessRec
    BY <1>4, <2>1 DEF Accs
  <2> QED BY <1>1, <1>2, <1>3, <2>1, <2>2 DEF j
<1> QED BY <1>2, <1>5, <1>6, <1>7 DEF j

\* The same access, further on.
LEMMA Reshaped ==
  ASSUME NEW g \in Owners, NEW j \in GoodJob(g), NEW k \in Jobs, j.at # "idle",
         k.a = j.a, k.owner = j.owner, k.from = j.from, Stage(k),
         g[1] = "vcpu" => k.at = "end" \/ (j.at \notin {"wait", "end"} /\ k.at # "wait"),
         g[1] = "node" => \/ j.at # "targets" /\ k.at \in {"do", "loop", "count"}
                          \/ j.at = "targets" /\ k.at = "targets"
  PROVE  k \in GoodJob(g)
<1>1. TrapJob(g, j) \/ RequestJob(g, j) \/ ConfigJob(g, j)
  BY DEF GoodJob
<1>2. CASE TrapJob(g, j)
  <2>1. TrapJob(g, k)
    BY <1>2 DEF TrapJob
  <2> QED BY <2>1 DEF GoodJob
<1>3. CASE RequestJob(g, j)
  <2>1. RequestJob(g, k)
    BY <1>3 DEF RequestJob
  <2> QED BY <2>1 DEF GoodJob
<1>4. CASE ConfigJob(g, j)
  <2>1. ConfigJob(g, k)
    BY <1>4 DEF ConfigJob
  <2> QED BY <2>1 DEF GoodJob
<1> QED BY <1>1, <1>2, <1>3, <1>4

\* Doing nothing is always legal.
LEMMA IdleGood ==
  Idle \in Jobs /\ \A g : Idle \in GoodJob(g)
<1>1. Idle \in Jobs /\ Idle.at = "idle"
  BY NumbersAt DEF Idle, Jobs, Ats
<1> QED BY <1>1 DEF GoodJob

\* One cpu goes on: the others stay where they are.
LEMMA StepKeeps ==
  ASSUME TypeOK, Works, version' = version, NEW g \in Owners, NEW k, Step(g, k)
  PROVE  /\ k \in Jobs /\ job' \in [Owners -> Jobs] /\ job'[g] = k
         /\ \A h \in Owners \ {g} : job'[h] = job[h]
         /\ \A h \in Owners : job'[h] \in GoodJob(h)'
<1>1. k \in Jobs /\ k \in GoodJob(g) /\ job \in [Owners -> Jobs] /\ job' = [job EXCEPT ![g] = k]
  BY DEF Step, GoodJob, TypeOK
<1>2. job' \in [Owners -> Jobs] /\ job'[g] = k /\ \A h \in Owners \ {g} : job'[h] = job[h]
  BY <1>1
<1>3. \A h \in Owners : job'[h] \in GoodJob(h)
  BY <1>1, <1>2 DEF Works
<1> QED BY <1>1, <1>2, <1>3, Fixed

\* The messages are left alone.
LEMMA NetKept ==
  ASSUME Works, version' = version, net' = net
  PROVE  \A m, n \in Nodes : net'[<<m, n>>] \in Seq(GoodMsg(m, n)')
  BY Fixed DEF Works

\* The answer to an access: MSG_MMIO_REPLY or the return to the guest.
LEMMA AnswerAt ==
  ASSUME TypeOK, Works, NEW g \in Owners, NEW val \in Vals, job[g].at # "idle",
         g[1] = "node" => job[g].at # "targets",
         Answer(g, val)
  PROVE  \E k : /\ Step(g, k) /\ k.at \in {"end", "idle"}
                /\ reply' \in [Vcpus -> Seq(Vals)] /\ Answered(g, k, val)
<1>1. /\ job[g] \in GoodJob(g) /\ job[g] \in Jobs
      /\ g[1] = "node" /\ job[g].at # "targets" => job[g].from \in Vcpus
  BY JobIs
<1>2. CASE g[1] = "vcpu"
  <2> DEFINE k == [job[g] EXCEPT !.at = "end", !.val = val]
  <2>1. /\ k \in Jobs /\ k.at = "end" /\ k.a = job[g].a /\ k.owner = job[g].owner
        /\ k.from = job[g].from
    BY <1>1 DEF Jobs, Ats
  <2>2. job' = [job EXCEPT ![g] = k] /\ reply' = reply
    BY <1>2 DEF Answer
  <2> HIDE DEF k
  <2>3. Stage(k)
    BY <2>1 DEF Stage
  <2>4. k \in GoodJob(g)
    BY <1>1, <1>2, <2>1, <2>3, Reshaped
  <2> QED BY <1>2, <2>1, <2>2, <2>4 DEF k, Step, TypeOK, Answered
<1>3. CASE g[1] # "vcpu"
  <2>1. job[g].from \in Vcpus
    BY <1>1, <1>3, OwnerIs
  <2>2. /\ reply' = [reply EXCEPT ![job[g].from] = <<val>>] /\ job' = [job EXCEPT ![g] = Idle]
    BY <1>3 DEF Answer
  <2>3. <<val>> \in Seq(Vals)
    OBVIOUS
  <2>4. reply' \in [Vcpus -> Seq(Vals)]
    BY <2>1, <2>2, <2>3 DEF TypeOK
  <2>5. Idle.at = "idle"
    BY DEF Idle
  <2> QED BY <1>3, <2>2, <2>4, <2>5, IdleGood DEF Step, Answered
<1> QED BY <1>2, <1>3

\* The interrupt is done with: the next one or the answer.
LEMMA NextAt ==
  ASSUME TypeOK, Works, NEW g \in Owners, NEW j \in Jobs,
         job[g].at \in {"loop", "count", "targets"}, g[1] = "node" => job[g].at # "targets",
         j.at \in {"loop", "targets"}, j.at = "targets" <=> job[g].at = "targets",
         j.a = job[g].a, j.owner = job[g].owner, j.from = job[g].from,
         Next1(g, j)
  PROVE  \E k : /\ Step(g, k) /\ k.at # "count"
                /\ reply' \in [Vcpus -> Seq(Vals)]
                /\ j.i + 1 < Width => k = [j EXCEPT !.i = j.i + 1] /\ reply' = reply
                /\ ~(j.i + 1 < Width) => Answered(g, k, j.val)
<1>1. job[g] \in GoodJob(g) /\ job[g] \in Jobs /\ Stage(job[g])
  BY JobIs
<1>2. CASE j.i + 1 < Width
  <2> DEFINE k == [j EXCEPT !.i = j.i + 1]
  <2>1. j.i \in Nat /\ j.i + 1 \in Bits
    BY <1>2, NumbersAt DEF Jobs
  <2>2. /\ k \in Jobs /\ k.at = j.at /\ k.a = job[g].a /\ k.owner = job[g].owner
        /\ k.from = job[g].from
    BY <2>1 DEF Jobs
  <2>3. job' = [job EXCEPT ![g] = k] /\ reply' = reply
    BY <1>2 DEF Next1
  <2> HIDE DEF k
  <2>4. Stage(k)
    BY <1>1, <2>2 DEF Stage
  <2>5. k \in GoodJob(g)
    BY <1>1, <2>2, <2>4, Reshaped
  <2> QED BY <1>2, <2>2, <2>3, <2>5 DEF k, Step, TypeOK
<1>3. CASE ~(j.i + 1 < Width)
  <2>1. Answer(g, j.val) /\ j.val \in Vals
    BY <1>3 DEF Next1, Jobs
  <2>2. PICK k : /\ Step(g, k) /\ k.at \in {"end", "idle"}
                 /\ reply' \in [Vcpus -> Seq(Vals)] /\ Answered(g, k, j.val)
    BY <2>1, AnswerAt
  <2> QED BY <1>3, <2>2
<1> QED BY <1>2, <1>3

-----------------------------------------------------------------------------
(* Types and legal work, action by action.                                 *)

\* An access begins.
LEMMA AccessAt ==
  ASSUME TypeOK, Works, NEW v \in Vcpus, NEW a \in Accesses[v], Access(v, a)
  PROVE  /\ TypeOK' /\ Works'
         /\ \E k : /\ Step(Vcpu(v), k)
                   /\ k = [at |-> IF Away(v, a) THEN "wait" ELSE "do", a |-> a,
                           owner |-> OwnerOf(v, a), i |-> 0,
                           val |-> IF a.wr THEN a.val ELSE x[v], seen |-> 0, from |-> NoVcpu]
                   /\ ~Away(v, a) => net' = net
                   /\ Away(v, a) => net' = [net EXCEPT ![<<NodeOf(v), NodeOf(a.vcpu)>>] =
                        Append(@, [type |-> "request", a |-> a, val |-> k.val, from |-> v])]
<1> DEFINE g == Vcpu(v)
           m == NodeOf(v)
           n == NodeOf(a.vcpu)
           val == IF a.wr THEN a.val ELSE x[v]
           k == [at |-> IF Away(v, a) THEN "wait" ELSE "do", a |-> a, owner |-> OwnerOf(v, a),
                 i |-> 0, val |-> val, seen |-> 0, from |-> NoVcpu]
           msg == [type |-> "request", a |-> a, val |-> val, from |-> v]
<1>1. /\ a \in AccessRec /\ a \in Accs /\ a.vcpu \in Vcpus /\ a.val \in Vals
  BY GicMmioAssumption DEF Accs, AccessRec, Vals
<1>2. val \in Vals
  BY <1>1 DEF TypeOK
<1>3. g \in Owners /\ g[1] = "vcpu" /\ g[2] = v /\ m \in Nodes /\ n \in Nodes
  BY <1>1, OwnerIs, NodeOfIs
<1>4. job' = [job EXCEPT ![g] = k] /\ version' = version
  <2> DEFINE at == IF Away(v, a) THEN "wait" ELSE "do"
  <2>1. /\ job' = [job EXCEPT ![g] = [[Idle EXCEPT !.a = a, !.owner = OwnerOf(v, a), !.val = val] EXCEPT !.at = at]]
        /\ version' = version
    BY DEF Access, Away
  <2>2. PICK r : r = Idle
    OBVIOUS
  <2>5. r = [at |-> "idle", a |-> << >>, owner |-> << >>, i |-> 0, val |-> None, seen |-> 0, from |-> NoVcpu]
    BY <2>2 DEF Idle
  <2>3. PICK s : s = [r EXCEPT !.a = a, !.owner = OwnerOf(v, a), !.val = val]
    OBVIOUS
  <2>4. k = [s EXCEPT !.at = at]
    <3> HIDE DEF val
    <3>1. s = [at |-> "idle", a |-> a, owner |-> OwnerOf(v, a), i |-> 0, val |-> val, seen |-> 0, from |-> NoVcpu]
      BY <2>3, <2>5
    <3> QED BY <3>1
  <2> HIDE DEF k, at, val
  <2> QED BY <2>1, <2>2, <2>3, <2>4
<1>5. /\ ~Away(v, a) => net' = net
      /\ Away(v, a) => net' = [net EXCEPT ![<<m, n>>] = Append(@, msg)]
  BY DEF Access, Away, Idle
<1>6. OwnerOf(v, a) \in Owners
  BY <1>1, <1>3, OwnerIs DEF OwnerOf
<1>7. version = 2 => a.frame = "gicd"
  BY DEF Access
<1> HIDE DEF val
<1>8. k \in Jobs
  BY <1>1, <1>2, <1>6, NumbersAt DEF Jobs, Ats
<1>9. k \in GoodJob(g)
  <2>1. k.at # "end" /\ (k.at = "wait" <=> Away(v, a)) /\ k.a = a /\ k.owner = OwnerOf(v, a) /\ k.from = NoVcpu
        /\ k.i = 0 /\ k.at \in {"wait", "do"}
    OBVIOUS
  <2> HIDE DEF k
  <2>2. TrapJob(g, k)
    BY <2>1, <1>3, <1>7 DEF TrapJob
  <2>3. Stage(k)
    BY <2>1 DEF Stage
  <2> QED BY <2>2, <2>3, <1>8 DEF GoodJob
<1> HIDE DEF k
<1>10. Step(g, k)
  BY <1>4, <1>9 DEF Step
<1>11. Away(v, a) => msg \in GoodMsg(m, n) /\ msg \in Msgs
  BY <1>1, <1>2 DEF GoodMsg, RequestMsg, Msgs
<1>12. net \in [Nodes \X Nodes -> Seq(Msgs)] /\ \A p, q \in Nodes : net[<<p, q>>] \in Seq(GoodMsg(p, q))
  BY DEF TypeOK, Works
<1> HIDE DEF msg, g, m, n
<1>13. net' \in [Nodes \X Nodes -> Seq(Msgs)]
  <2>1. net[<<m, n>>] \in Seq(Msgs)
    BY <1>3, <1>12
  <2>2. Away(v, a) => Append(net[<<m, n>>], msg) \in Seq(Msgs)
    BY <1>11, <2>1
  <2> QED BY <1>5, <1>12, <2>2
<1>14. \A p, q \in Nodes : net'[<<p, q>>] \in Seq(GoodMsg(p, q))
  <2>1. Away(v, a) => Append(net[<<m, n>>], msg) \in Seq(GoodMsg(m, n))
    BY <1>3, <1>11, <1>12
  <2> QED BY <1>5, <1>12, <2>1
<1>15. Works'
  BY <1>3, <1>4, <1>10, <1>14, StepKeeps, Fixed DEF Works
<1>16. job' \in [Owners -> Jobs]
  BY <1>3, <1>4, <1>10, StepKeeps
<1>17. /\ UNCHANGED <<version, irqs, ctlr, hwen, hwroute, count, reply, x, dead>>
       /\ ops < MaxOps /\ ops' = ops + 1
  BY DEF Access
<1>18. ops' \in 0..MaxOps
  BY <1>17, GicMmioAssumption DEF TypeOK
<1>19. TypeOK'
  BY <1>13, <1>16, <1>17, <1>18 DEF TypeOK
<1>20. Step(Vcpu(v), k)
  BY <1>10 DEF g
<1>21. k = [at |-> IF Away(v, a) THEN "wait" ELSE "do", a |-> a, owner |-> OwnerOf(v, a), i |-> 0,
            val |-> IF a.wr THEN a.val ELSE x[v], seen |-> 0, from |-> NoVcpu]
  BY DEF k, val
<1>22. k.val = val
  BY DEF k
<1>23. Away(v, a) => net' = [net EXCEPT ![<<NodeOf(v), NodeOf(a.vcpu)>>] =
                        Append(@, [type |-> "request", a |-> a, val |-> k.val, from |-> v])]
  BY <1>5, <1>22 DEF m, n, msg
<1> QED BY <1>5, <1>15, <1>19, <1>20, <1>21, <1>23, Zenon

\* The head of a queue and what stays behind.
LEMMA TakeAt ==
  ASSUME NEW S, NEW q \in Seq(S), q # << >>
  PROVE  /\ Head(q) \in S /\ Head(q) = q[1] /\ Tail(q) \in Seq(S)
         /\ Len(q) \in Nat /\ Len(q) >= 1 /\ Len(Tail(q)) = Len(q) - 1
         /\ \A k \in 1..(Len(q) - 1) : Tail(q)[k] = q[k + 1]
  OBVIOUS

\* The server of a node takes a message.
LEMMA ReceiveAt ==
  ASSUME TypeOK, Works, NEW n \in Nodes, NEW m \in Nodes, Receive(n, m)
  PROVE  /\ TypeOK' /\ Works'
         /\ net[<<m, n>>] # << >> /\ net' = [net EXCEPT ![<<m, n>>] = Tail(@)]
         /\ \E msg \in GoodMsg(m, n) : \E k :
              /\ msg = Head(net[<<m, n>>]) /\ Step(Node(n), k)
              /\ msg.type = "request" =>
                   k = [at |-> "do", a |-> msg.a, owner |-> Vcpu(msg.a.vcpu), i |-> 0,
                        val |-> msg.val, seen |-> 0, from |-> msg.from]
              /\ msg.type = "config" =>
                   k = [at |-> "targets", a |-> msg.a, owner |-> Node(n), i |-> 0,
                        val |-> msg.val, seen |-> 0, from |-> NoVcpu]
<1> DEFINE g == Node(n)
           q == net[<<m, n>>]
<1>1. PICK msg : msg = Head(q)
  OBVIOUS
<1>2. q # << >> /\ q \in Seq(GoodMsg(m, n)) /\ q \in Seq(Msgs)
  BY DEF Receive, Works, TypeOK
<1>3. msg \in GoodMsg(m, n) /\ msg \in Msgs /\ Tail(q) \in Seq(GoodMsg(m, n)) /\ Tail(q) \in Seq(Msgs)
  BY <1>1, <1>2, TakeAt
<1>4. PICK k : k = IF msg.type = "request"
           THEN [at |-> "do", a |-> msg.a, owner |-> Vcpu(msg.a.vcpu), i |-> 0,
                        val |-> msg.val, seen |-> 0, from |-> msg.from]
           ELSE [at |-> "targets", a |-> msg.a, owner |-> Node(n), i |-> 0,
                        val |-> msg.val, seen |-> 0, from |-> NoVcpu]
  OBVIOUS
<1>5. job' = [job EXCEPT ![g] = k] /\ version' = version /\ net' = [net EXCEPT ![<<m, n>>] = Tail(@)]
  <2>0. PICK r : r = Idle
    OBVIOUS
  <2>6. r = [at |-> "idle", a |-> << >>, owner |-> << >>, i |-> 0, val |-> None, seen |-> 0, from |-> NoVcpu]
    BY <2>0 DEF Idle
  <2>7. PICK s : s = [r EXCEPT !.at = "do", !.a = msg.a, !.owner = Vcpu(msg.a.vcpu), !.val = msg.val, !.from = msg.from]
    OBVIOUS
  <2>8. PICK u : u = [r EXCEPT !.at = "targets", !.a = msg.a, !.owner = Node(n), !.val = msg.val]
    OBVIOUS
  <2>1. s = [at |-> "do", a |-> msg.a, owner |-> Vcpu(msg.a.vcpu), i |-> 0,
                        val |-> msg.val, seen |-> 0, from |-> msg.from]
    BY <2>6, <2>7
  <2>2. u = [at |-> "targets", a |-> msg.a, owner |-> Node(n), i |-> 0,
                        val |-> msg.val, seen |-> 0, from |-> NoVcpu]
    BY <2>6, <2>8
  <2>3. job' = [job EXCEPT ![g] =
           IF msg.type = "request"
           THEN [Idle EXCEPT !.at = "do", !.a = msg.a, !.owner = Vcpu(msg.a.vcpu),
                             !.val = msg.val, !.from = msg.from]
           ELSE [Idle EXCEPT !.at = "targets", !.a = msg.a, !.owner = Node(n), !.val = msg.val]]
    BY <1>1 DEF Receive
  <2>4. version' = version /\ net' = [net EXCEPT ![<<m, n>>] = Tail(@)]
    BY DEF Receive, Same
  <2>5. k = IF msg.type = "request" THEN s ELSE u
    BY <1>4, <2>1, <2>2
  <2> QED BY <2>0, <2>3, <2>4, <2>5, <2>7, <2>8
<1>6. g \in Owners /\ g[1] = "node" /\ g[2] = n
  BY OwnerIs
<1>7. k \in Jobs /\ k \in GoodJob(g)
  <2>0. msg.a \in Accs /\ msg.a \in AccessRec /\ msg.a.vcpu \in Vcpus /\ version \in {2, 3}
    BY <1>3, GicMmioAssumption DEF Msgs, Accs, AccessRec, TypeOK
  <2>1. CASE RequestMsg(m, n, msg)
    <3>1. k = [at |-> "do", a |-> msg.a, owner |-> Vcpu(msg.a.vcpu), i |-> 0,
                        val |-> msg.val, seen |-> 0, from |-> msg.from]
      BY <2>1, <1>4 DEF RequestMsg
    <3>5. /\ Vcpu(msg.a.vcpu) \in Owners /\ msg.val \in Vals /\ msg.from \in Vcpus \cup {NoVcpu}
          /\ 0 \in Bits /\ "do" \in Ats
      BY <2>0, <1>3, OwnerIs, NumbersAt DEF Msgs, Ats
    <3>2. k \in Jobs
      BY <3>1, <3>5, <2>0 DEF Jobs
    <3>3. RequestJob(g, k)
      BY <3>1, <2>1, <1>6 DEF RequestMsg, RequestJob
    <3>4. Stage(k)
      BY <3>1 DEF Stage
    <3> QED BY <3>2, <3>3, <3>4 DEF GoodJob
  <2>2. CASE ConfigMsg(msg)
    <3>1. k = [at |-> "targets", a |-> msg.a, owner |-> Node(n), i |-> 0,
                        val |-> msg.val, seen |-> 0, from |-> NoVcpu]
      BY <2>2, <1>4 DEF ConfigMsg
    <3>2. k \in Jobs
      BY <3>1, <2>0, <1>3, <1>6, NumbersAt DEF Jobs, Ats, Msgs
    <3>3. ConfigJob(g, k)
      BY <3>1, <2>0, <2>2, <1>6 DEF ConfigMsg, ConfigJob
    <3>5. vmmio_emulate(msg.a) = "targets"
      BY <2>0, <2>2, EmulateIs DEF ConfigMsg, Config
    <3>4. Stage(k)
      BY <3>1, <3>5 DEF Stage
    <3> QED BY <3>2, <3>3, <3>4 DEF GoodJob
  <2> QED BY <2>1, <2>2, <1>3 DEF GoodMsg
<1>8. Step(g, k)
  BY <1>5, <1>7 DEF Step
<1>9. net \in [Nodes \X Nodes -> Seq(Msgs)] /\ \A p, r \in Nodes : net[<<p, r>>] \in Seq(GoodMsg(p, r))
  BY DEF TypeOK, Works
<1>10. net' \in [Nodes \X Nodes -> Seq(Msgs)] /\ \A p, r \in Nodes : net'[<<p, r>>] \in Seq(GoodMsg(p, r))
  <2>1. net' = [net EXCEPT ![<<m, n>>] = Tail(q)]
    BY <1>5
  <2> HIDE DEF q
  <2> QED BY <2>1, <1>9, <1>3
<1>11. Works'
  BY <1>5, <1>6, <1>8, <1>10, StepKeeps, Fixed DEF Works
<1>12. job' \in [Owners -> Jobs]
  BY <1>5, <1>6, <1>8, StepKeeps
<1>13. UNCHANGED <<version, ops, irqs, ctlr, hwen, hwroute, count, reply, x, dead>>
  BY DEF Receive, Same
<1>14. TypeOK'
  BY <1>10, <1>12, <1>13 DEF TypeOK
<1> QED BY <1>1, <1>2, <1>3, <1>4, <1>5, <1>8, <1>11, <1>14

\* The values of read-only registers are words.
LEMMA ConstIs ==
  ASSUME NEW a \in AccessRec
  PROVE  ConstOf(a) \in Vals
<1>1. a.vcpu \in Nat /\ None \in Vals /\ 0 \in Bits /\ 1 \in Bits
  BY NumbersAt DEF AccessRec
<1>2. PICK b \in {0, 1} : b = IF IsLast(a.vcpu) THEN 1 ELSE 0
  OBVIOUS
<1>3. [None EXCEPT ![0] = a.vcpu, ![1] = b] \in Vals
  BY <1>1 DEF Vals
<1> QED BY <1>1, <1>2, <1>3 DEF ConstOf

\* The dispatch of an access.
LEMMA EmulateAt ==
  ASSUME TypeOK, Works, NEW g \in Owners, Emulate(g)
  PROVE  /\ TypeOK' /\ Works' /\ job[g].at = "do"
         /\ \E k : /\ Step(g, k) /\ k.at # "count"
                   /\ \/ /\ k = job[g] /\ reply' = reply
                         /\ vmmio_emulate(job[g].a) # "loop"
                      \/ /\ vmmio_emulate(job[g].a) # "loop"
                         /\ \E val \in Vals : Answered(g, k, val)
                      \/ /\ reply' = reply
                         /\ \E out \in {"loop", "targets", "route"} :
                              k = [job[g] EXCEPT !.at = out] /\ vmmio_emulate(job[g].a) = out
<1> DEFINE j == job[g]
           n == NodeOfOwner(g)
           what == vmmio_emulate(j.a)
           out == IF what = "fail" THEN Fail(g) ELSE what
<1>1. /\ j.at = "do" /\ UNCHANGED <<version, ops, irqs, hwen, hwroute, count, net, x>>
  BY DEF Emulate, Same
<1>2. /\ j \in GoodJob(g) /\ j \in Jobs /\ j.a \in Accs /\ j.a \in AccessRec
      /\ TrapJob(g, j) \/ RequestJob(g, j) \/ ConfigJob(g, j)
      /\ g[1] = "node" => j.from \in Vcpus
  BY <1>1, JobIs
<1>3. n \in Nodes /\ version \in {2, 3} /\ j.val \in Vals /\ j.a.val \in Vals /\ ctlr[n] \in Nat
  BY <1>2, OwnerIs DEF TypeOK, Jobs, AccessRec, Vals
<1>4. out \in {"loop", "targets", "route"} => what = out
  BY DEF Fail
<1>5. what = "loop" => out = "loop"
  OBVIOUS
<1> DEFINE R(k) == /\ Step(g, k) /\ k.at # "count"
                   /\ \/ /\ k = j /\ reply' = reply /\ what # "loop"
                      \/ /\ what # "loop" /\ \E val \in Vals : Answered(g, k, val)
                      \/ /\ reply' = reply
                         /\ \E o \in {"loop", "targets", "route"} : k = [j EXCEPT !.at = o] /\ what = o
           G == /\ \E k : R(k)
                /\ reply' \in [Vcpus -> Seq(Vals)] /\ dead' \subseteq Nodes /\ ctlr' \in [Nodes -> Nat]
<1>6. ASSUME NEW val \in Vals, Answer(g, val), what # "loop", dead' = dead, ctlr' \in [Nodes -> Nat]
      PROVE  G
  <2>1. PICK k : /\ Step(g, k) /\ k.at \in {"end", "idle"}
                 /\ reply' \in [Vcpus -> Seq(Vals)] /\ Answered(g, k, val)
    BY <1>1, <1>6, AnswerAt
  <2>2. R(k)
    BY <2>1, <1>6
  <2> HIDE DEF R
  <2> QED BY <2>1, <2>2, <1>6 DEF TypeOK
<1>7. ASSUME out = "panic" /\ dead' = dead \cup {n} /\ UNCHANGED <<job, reply, ctlr>>
      PROVE  G
  <2>1. Step(g, j)
    BY <1>2, <1>7 DEF Step, TypeOK
  <2>2. what # "loop"
    BY <1>5, <1>7
  <2>3. R(j)
    BY <2>1, <2>2, <1>1, <1>7
  <2> HIDE DEF R
  <2> QED BY <2>3, <1>3, <1>7 DEF TypeOK
<1>8. ASSUME out \in {"answer", "keep"} /\ Answer(g, j.val) /\ UNCHANGED <<dead, ctlr>>
      PROVE  G
  <2>1. what # "loop"
    BY <1>5, <1>8
  <2>2. ctlr' \in [Nodes -> Nat]
    BY <1>8 DEF TypeOK
  <2>3. /\ Answer(g, j.val) /\ dead' = dead
    BY <1>8
  <2> HIDE DEF G, what, out, j
  <2> QED BY <2>1, <2>2, <2>3, <1>3, <1>6
<1>9. ASSUME out = "const" /\ Answer(g, ConstOf(j.a)) /\ UNCHANGED <<dead, ctlr>>
      PROVE  G
  <2>1. what # "loop" /\ ConstOf(j.a) \in Vals
    BY <1>2, <1>5, <1>9, ConstIs
  <2>2. ctlr' \in [Nodes -> Nat]
    BY <1>9 DEF TypeOK
  <2>3. /\ Answer(g, ConstOf(j.a)) /\ dead' = dead
    BY <1>9
  <2> HIDE DEF G, what, out, j
  <2> QED BY <2>1, <2>2, <2>3, <1>6
<1>10. ASSUME out = "pend" /\ (\E val \in [Bits -> {0, 1}] : Answer(g, val)) /\ UNCHANGED <<dead, ctlr>>
      PROVE  G
  <2>1. PICK val \in [Bits -> {0, 1}] : Answer(g, val)
    BY <1>10
  <2>2. what # "loop" /\ val \in Vals
    BY <1>5, <1>10 DEF Vals
  <2>3. ctlr' \in [Nodes -> Nat] /\ dead' = dead
    BY <1>10 DEF TypeOK
  <2> HIDE DEF G, what, out, j
  <2> QED BY <2>1, <2>2, <2>3, <1>6
<1>11. ASSUME /\ out = "ctlr" /\ Answer(g, [None EXCEPT ![0] = ctlr[n]]) /\ UNCHANGED dead
              /\ ctlr' = IF j.a.wr THEN [ctlr EXCEPT ![n] = j.a.val[0]] ELSE ctlr
      PROVE  G
  <2>1. what # "loop"
    BY <1>5, <1>11
  <2>2. [None EXCEPT ![0] = ctlr[n]] \in Vals
    BY <1>3, NumbersAt DEF Vals
  <2>3. j.a.val[0] \in Nat
    BY <1>3, NumbersAt DEF Vals
  <2>4. ctlr' \in [Nodes -> Nat]
    BY <2>3, <1>3, <1>11 DEF TypeOK
  <2>5. PICK val : val = [None EXCEPT ![0] = ctlr[n]]
    OBVIOUS
  <2>6. Answer(g, val) /\ dead' = dead /\ val \in Vals
    BY <2>2, <2>5, <1>11
  <2> HIDE DEF G, what, out, j
  <2> QED BY <2>1, <2>4, <2>6, <1>6
<1>12. ASSUME /\ out \in {"loop", "targets", "route"}
              /\ job' = [job EXCEPT ![g].at = out] /\ UNCHANGED <<reply, dead, ctlr>>
      PROVE  G
  <2>1. PICK k : k = [j EXCEPT !.at = out]
    OBVIOUS
  <2>2. job' = [job EXCEPT ![g] = k]
    BY <2>1, <1>12
  <2>3. k \in Jobs /\ k.at = out /\ k.a = j.a /\ k.owner = j.owner /\ k.from = j.from /\ k.i = j.i
    BY <2>1, <1>2, <1>12 DEF Jobs, Ats
  <2>4. what = out
    BY <1>4, <1>12
  <2>5. Stage(k)
    <3> HIDE DEF out
    <3> QED BY <2>3, <2>4, <1>12 DEF Stage
  <2>6. g[1] = "node" => out = "loop"
    <3>1. g[1] = "node" => RequestJob(g, j)
      BY <1>1, <1>2 DEF TrapJob, ConfigJob
    <3>2. g[1] = "node" => j.a.frame = "gicr"
      BY <3>1 DEF RequestJob, Away
    <3> QED BY <3>2, <2>4, <1>2, <1>3, <1>12, EmulateIs
  <2>7. k \in GoodJob(g)
    <3> HIDE DEF out, what
    <3> QED BY <2>3, <2>5, <2>6, <1>1, <1>2, <1>12, Reshaped, OwnerIs
  <2>9. Step(g, k) /\ k.at # "count" /\ reply' = reply
    BY <2>2, <2>3, <2>7, <1>12 DEF Step
  <2>8. R(k)
    <3>1. out \in {"loop", "targets", "route"} /\ k = [j EXCEPT !.at = out] /\ what = out
      BY <2>1, <2>4, <1>12
    <3> HIDE DEF what, out, j
    <3> QED BY <2>9, <3>1
  <2> HIDE DEF R
  <2> QED BY <2>8, <1>12 DEF TypeOK
<1>13. G
  <2>1. \/ out = "panic" /\ dead' = dead \cup {n} /\ UNCHANGED <<job, reply, ctlr>>
        \/ out \in {"answer", "keep"} /\ Answer(g, j.val) /\ UNCHANGED <<dead, ctlr>>
        \/ out = "const" /\ Answer(g, ConstOf(j.a)) /\ UNCHANGED <<dead, ctlr>>
        \/ out = "pend" /\ (\E val \in [Bits -> {0, 1}] : Answer(g, val)) /\ UNCHANGED <<dead, ctlr>>
        \/ /\ out = "ctlr" /\ Answer(g, [None EXCEPT ![0] = ctlr[n]]) /\ UNCHANGED dead
           /\ ctlr' = IF j.a.wr THEN [ctlr EXCEPT ![n] = j.a.val[0]] ELSE ctlr
        \/ /\ out \in {"loop", "targets", "route"}
           /\ job' = [job EXCEPT ![g].at = out] /\ UNCHANGED <<reply, dead, ctlr>>
    BY Zenon DEF Emulate
  <2> HIDE DEF G, what, out, j
  <2> QED BY <2>1, <1>7, <1>8, <1>9, <1>10, <1>11, <1>12
<1>14. PICK k : R(k)
  BY <1>13
<1>15. job' \in [Owners -> Jobs] /\ \A h \in Owners : job'[h] \in GoodJob(h)'
  BY <1>1, <1>14, StepKeeps
<1>16. Works'
  BY <1>1, <1>15, NetKept DEF Works
<1>17. TypeOK'
  BY <1>1, <1>13, <1>15 DEF TypeOK
<1> QED BY <1>1, <1>14, <1>16, <1>17

\* The value of an interrupt is read.
LEMMA ReadBitAt ==
  ASSUME TypeOK, Works, NEW g \in Owners, ReadBit(g)
  PROVE  /\ TypeOK' /\ Works' /\ job[g].at = "loop" /\ ~job[g].a.wr
         /\ \E j \in Jobs : \E k :
              /\ j = [job[g] EXCEPT !.val = [job[g].val EXCEPT ![job[g].i] =
                        irqs[job[g].owner][job[g].i][Loop[job[g].a.reg]]]]
              /\ Step(g, k) /\ k.at # "count"
              /\ j.i + 1 < Width => k = [j EXCEPT !.i = j.i + 1] /\ reply' = reply
              /\ ~(j.i + 1 < Width) => Answered(g, k, j.val)
<1> DEFINE b == irqs[job[g].owner][job[g].i][Loop[job[g].a.reg]]
<1>1. /\ job[g].at = "loop" /\ ~job[g].a.wr
      /\ UNCHANGED <<version, ops, irqs, ctlr, hwen, hwroute, count, net, x, dead>>
  BY DEF ReadBit, Same
<1>2. /\ job[g] \in GoodJob(g) /\ job[g] \in Jobs /\ job[g].a \in AccessRec /\ job[g].owner \in Owners
      /\ Stage(job[g])
  BY <1>1, JobIs
<1>3. job[g].a.reg \in DOMAIN Loop /\ version \in {2, 3}
  BY <1>1, <1>2, EmulateIs DEF Stage, TypeOK
<1>4. irqs[job[g].owner][job[g].i] \in Irqs
  BY <1>2 DEF TypeOK, Jobs
<1>5. Loop[job[g].a.reg] \in {"enabled", "igroup", "priority", "cfg"}
  BY <1>3 DEF Loop
<1>6. b \in Nat
  BY <1>4, <1>5 DEF Irqs
<1> HIDE DEF b
<1>7. PICK val : val = [job[g].val EXCEPT ![job[g].i] = b]
  OBVIOUS
<1>8. PICK j : j = [job[g] EXCEPT !.val = val]
  OBVIOUS
<1>9. val \in Vals
  BY <1>2, <1>6, <1>7 DEF Jobs, Vals
<1>10. j \in Jobs /\ j.at = "loop" /\ j.a = job[g].a /\ j.owner = job[g].owner /\ j.from = job[g].from
  BY <1>1, <1>2, <1>8, <1>9 DEF Jobs
<1>11. Next1(g, j)
  <2>1. Next1(g, [job[g] EXCEPT !.val[job[g].i] = irqs[job[g].owner][job[g].i][Loop[job[g].a.reg]]])
    BY DEF ReadBit
  <2>2. j = [job[g] EXCEPT !.val[job[g].i] = irqs[job[g].owner][job[g].i][Loop[job[g].a.reg]]]
    BY <1>7, <1>8 DEF b
  <2> QED BY <2>1, <2>2
<1>12. PICK k : /\ Step(g, k) /\ k.at # "count" /\ reply' \in [Vcpus -> Seq(Vals)]
                /\ j.i + 1 < Width => k = [j EXCEPT !.i = j.i + 1] /\ reply' = reply
                /\ ~(j.i + 1 < Width) => Answered(g, k, j.val)
  BY <1>1, <1>10, <1>11, NextAt
<1>13. job' \in [Owners -> Jobs] /\ \A h \in Owners : job'[h] \in GoodJob(h)'
  BY <1>1, <1>12, StepKeeps
<1>14. Works'
  BY <1>1, <1>13, NetKept DEF Works
<1>15. TypeOK'
  BY <1>1, <1>12, <1>13 DEF TypeOK
<1> QED BY <1>1, <1>7, <1>8, <1>10, <1>12, <1>14, <1>15 DEF b

\* One interrupt of one owner is another: the rest is as it was.
Changed(o, i, r) ==
  /\ irqs'[o][i] = r
  /\ \A p \in Owners : \A q \in Bits : p # o \/ q # i => irqs'[p][q] = irqs[p][q]

\* An update of one interrupt changes that interrupt.
LEMMA IrqAt ==
  ASSUME TypeOK, NEW o \in Owners, NEW i \in Bits, NEW r \in Irqs,
         irqs' = [irqs EXCEPT ![o] = [irqs[o] EXCEPT ![i] = r]]
  PROVE  irqs' \in [Owners -> [Bits -> Irqs]] /\ Changed(o, i, r)
<1>1. irqs \in [Owners -> [Bits -> Irqs]] /\ irqs[o] \in [Bits -> Irqs]
  BY DEF TypeOK
<1>2. PICK f : f = [irqs[o] EXCEPT ![i] = r]
  OBVIOUS
<1>3. f \in [Bits -> Irqs] /\ f[i] = r /\ \A q \in Bits \ {i} : f[q] = irqs[o][q]
  BY <1>1, <1>2
<1>4. irqs' = [irqs EXCEPT ![o] = f]
  BY <1>2
<1>5. irqs' \in [Owners -> [Bits -> Irqs]] /\ irqs'[o] = f /\ \A p \in Owners \ {o} : irqs'[p] = irqs[p]
  BY <1>1, <1>3, <1>4
<1> QED BY <1>3, <1>5 DEF Changed

\* vgic_igroup_write and its like.
LEMMA WriteBitAt ==
  ASSUME TypeOK, Works, NEW g \in Owners, WriteBit(g)
  PROVE  /\ TypeOK' /\ Works' /\ job[g].at = "loop" /\ job[g].a.wr
         /\ job[g].a.reg \notin {"isenable", "icenable"}
         /\ Loop[job[g].a.reg] \in {"igroup", "priority", "cfg"}
         /\ Changed(job[g].owner, job[g].i,
                    [irqs[job[g].owner][job[g].i] EXCEPT ![Loop[job[g].a.reg]] = job[g].val[job[g].i]])
         /\ irqs'[job[g].owner][job[g].i].enabled = irqs[job[g].owner][job[g].i].enabled
         /\ irqs'[job[g].owner][job[g].i].targets = irqs[job[g].owner][job[g].i].targets
         /\ irqs'[job[g].owner][job[g].i].target = irqs[job[g].owner][job[g].i].target
         /\ \E k : /\ Step(g, k) /\ k.at # "count"
                   /\ job[g].i + 1 < Width => k = [job[g] EXCEPT !.i = job[g].i + 1] /\ reply' = reply
                   /\ ~(job[g].i + 1 < Width) => Answered(g, k, job[g].val)
<1>1. PICK j : j = job[g]
  OBVIOUS
<1>2. /\ j.at = "loop" /\ j.a.wr /\ j.a.reg \notin {"isenable", "icenable"} /\ Next1(g, j)
      /\ irqs' = [irqs EXCEPT ![j.owner][j.i][Loop[j.a.reg]] = j.val[j.i]]
      /\ UNCHANGED <<version, ops, ctlr, hwen, hwroute, count, net, x, dead>>
  BY <1>1 DEF WriteBit, Same
<1>3. j \in GoodJob(g) /\ j \in Jobs /\ j.a \in AccessRec /\ j.owner \in Owners /\ Stage(j)
  BY <1>1, <1>2, JobIs
<1>4. j.a.reg \in DOMAIN Loop /\ version \in {2, 3}
  BY <1>2, <1>3, EmulateIs DEF Stage, TypeOK
<1>5. Loop[j.a.reg] \in {"igroup", "priority", "cfg"}
  BY <1>2, <1>4 DEF Loop
<1>6. PICK f \in {"igroup", "priority", "cfg"} : f = Loop[j.a.reg]
  BY <1>5
<1>7. PICK b \in Nat : b = j.val[j.i]
  BY <1>3 DEF Jobs, Vals
<1>8. irqs[j.owner][j.i] \in Irqs /\ j.i \in Bits
  BY <1>3 DEF TypeOK, Jobs
<1>9. PICK r : r = [irqs[j.owner][j.i] EXCEPT ![f] = b]
  OBVIOUS
<1>10. r \in Irqs /\ r.enabled = irqs[j.owner][j.i].enabled /\ r.target = irqs[j.owner][j.i].target
       /\ r.targets = irqs[j.owner][j.i].targets
  <2>1. PICK s \in Irqs : s = irqs[j.owner][j.i]
    BY <1>8
  <2>2. r = [s EXCEPT ![f] = b]
    BY <2>1, <1>9
  <2>3. r \in Irqs /\ r.enabled = s.enabled /\ r.target = s.target /\ r.targets = s.targets
    <3>1. CASE f = "igroup"
      BY <2>1, <2>2, <3>1 DEF Irqs
    <3>2. CASE f = "priority"
      BY <2>1, <2>2, <3>2 DEF Irqs
    <3>3. CASE f = "cfg"
      BY <2>1, <2>2, <3>3 DEF Irqs
    <3> QED BY <3>1, <3>2, <3>3
  <2> QED BY <2>1, <2>3
<1>11. irqs' = [irqs EXCEPT ![j.owner] = [irqs[j.owner] EXCEPT ![j.i] = r]]
  BY <1>2, <1>6, <1>7, <1>9
<1>12. irqs' \in [Owners -> [Bits -> Irqs]] /\ Changed(j.owner, j.i, r)
  BY <1>3, <1>8, <1>10, <1>11, IrqAt
<1>13. PICK k : /\ Step(g, k) /\ k.at # "count" /\ reply' \in [Vcpus -> Seq(Vals)]
                /\ j.i + 1 < Width => k = [j EXCEPT !.i = j.i + 1] /\ reply' = reply
                /\ ~(j.i + 1 < Width) => Answered(g, k, j.val)
  BY <1>1, <1>2, <1>3, NextAt
<1>14. job' \in [Owners -> Jobs] /\ \A h \in Owners : job'[h] \in GoodJob(h)'
  BY <1>2, <1>13, StepKeeps
<1>15. Works'
  BY <1>2, <1>14, NetKept DEF Works
<1>16. TypeOK'
  BY <1>2, <1>12, <1>13, <1>14 DEF TypeOK
<1>17. irqs'[j.owner][j.i] = r
  BY <1>12 DEF Changed
<1> QED BY <1>1, <1>2, <1>5, <1>6, <1>7, <1>9, <1>10, <1>12, <1>13, <1>15, <1>16, <1>17

\* Which value an enable register leaves in an interrupt.
EnableOf(a) == IF a.reg = "isenable" THEN 1 ELSE 0

\* vgic_isenable_write and vgic_icenable_write, up to the physical interrupt.
LEMMA EnableBitAt ==
  ASSUME TypeOK, Works, NEW g \in Owners, EnableBit(g)
  PROVE  /\ TypeOK' /\ Works' /\ job[g].at = "loop" /\ job[g].a.wr
         /\ job[g].a.reg \in {"isenable", "icenable"} /\ ~Locked(job[g].owner, job[g].i)
         /\ Changed(job[g].owner, job[g].i,
                    [irqs[job[g].owner][job[g].i] EXCEPT !.enabled =
                       IF job[g].val[job[g].i] = 1 THEN EnableOf(job[g].a) ELSE irqs[job[g].owner][job[g].i].enabled])
         /\ ~Wants(job[g]) => irqs' = irqs
         /\ \E k : /\ Step(g, k)
                   /\ \/ /\ Wants(job[g]) /\ IsHw(job[g].owner, job[g].i) /\ reply' = reply
                         /\ k = [job[g] EXCEPT !.at = "count",
                                   !.seen = count[NodeOfOwner(g)][Kind(job[g].owner)]]
                      \/ /\ ~(Wants(job[g]) /\ IsHw(job[g].owner, job[g].i)) /\ k.at # "count"
                         /\ job[g].i + 1 < Width => k = [job[g] EXCEPT !.i = job[g].i + 1] /\ reply' = reply
                         /\ ~(job[g].i + 1 < Width) => Answered(g, k, job[g].val)
<1>1. PICK j : j = job[g]
  OBVIOUS
<1>2. /\ j.at = "loop" /\ j.a.wr /\ j.a.reg \in {"isenable", "icenable"} /\ ~Locked(j.owner, j.i)
      /\ UNCHANGED <<version, ops, ctlr, hwen, hwroute, count, net, x, dead>>
  BY <1>1 DEF EnableBit, Same
<1>3. j \in GoodJob(g) /\ j \in Jobs /\ j.a \in AccessRec /\ j.owner \in Owners /\ Stage(j)
  BY <1>1, <1>2, JobIs
<1>4. PICK s \in Irqs : s = irqs[j.owner][j.i]
  BY <1>3 DEF TypeOK, Jobs
<1>5. j.i \in Bits /\ irqs \in [Owners -> [Bits -> Irqs]] /\ version \in {2, 3}
  BY <1>3 DEF TypeOK, Jobs
<1>6. PICK e \in {0, 1} : e = EnableOf(j.a)
  BY DEF EnableOf
<1>7. PICK r : r = [s EXCEPT !.enabled = IF j.val[j.i] = 1 THEN e ELSE s.enabled]
  OBVIOUS
<1>8. r \in Irqs
  BY <1>4, <1>6, <1>7 DEF Irqs
<1>9. /\ irqs' \in [Owners -> [Bits -> Irqs]] /\ Changed(j.owner, j.i, r)
      /\ ~Wants(j) => irqs' = irqs
  <2>1. CASE Wants(j)
    <3>1. irqs' = [irqs EXCEPT ![j.owner][j.i].enabled = e] /\ j.val[j.i] = 1
      BY <1>1, <1>6, <2>1 DEF EnableBit, Wants, EnableOf
    <3>2. r = [s EXCEPT !.enabled = e]
      BY <1>7, <3>1
    <3>3. irqs' = [irqs EXCEPT ![j.owner] = [irqs[j.owner] EXCEPT ![j.i] = r]]
      BY <3>1, <3>2, <1>4
    <3> QED BY <2>1, <3>3, <1>3, <1>5, <1>8, IrqAt
  <2>2. CASE ~Wants(j)
    <3>1. irqs' = irqs
      BY <1>1, <2>2 DEF EnableBit
    <3>2. j.val[j.i] = 1 => s.enabled = e
      BY <1>4, <1>6, <2>2 DEF Wants, EnableOf, Irqs
    <3>3. r = s
      BY <1>4, <1>7, <3>2 DEF Irqs
    <3> QED BY <2>2, <3>1, <3>3, <1>4, <1>5 DEF Changed
  <2> QED BY <2>1, <2>2
<1>10. PICK k : /\ Step(g, k) /\ reply' \in [Vcpus -> Seq(Vals)]
                /\ \/ /\ Wants(j) /\ IsHw(j.owner, j.i) /\ reply' = reply
                      /\ k = [j EXCEPT !.at = "count", !.seen = count[NodeOfOwner(g)][Kind(j.owner)]]
                   \/ /\ ~(Wants(j) /\ IsHw(j.owner, j.i)) /\ k.at # "count"
                      /\ j.i + 1 < Width => k = [j EXCEPT !.i = j.i + 1] /\ reply' = reply
                      /\ ~(j.i + 1 < Width) => Answered(g, k, j.val)
  <2>1. CASE Wants(j) /\ IsHw(j.owner, j.i)
    <3>1. PICK c : c = count[NodeOfOwner(g)][Kind(j.owner)]
      OBVIOUS
    <3>2. c \in Int
      BY <3>1, OwnerIs DEF TypeOK, Kind
    <3>3. PICK k : k = [j EXCEPT !.at = "count", !.seen = c]
      OBVIOUS
    <3>4. job' = [job EXCEPT ![g].at = "count", ![g].seen = c] /\ reply' = reply
      BY <1>1, <2>1, <3>1 DEF EnableBit
    <3>5. job' = [job EXCEPT ![g] = k]
      BY <1>1, <3>3, <3>4 DEF TypeOK
    <3>6. k \in Jobs /\ k.at = "count" /\ k.a = j.a /\ k.owner = j.owner /\ k.from = j.from /\ k.i = j.i
      BY <1>3, <3>2, <3>3 DEF Jobs, Ats
    <3>7. Stage(k)
      BY <1>2, <1>3, <2>1, <3>6 DEF Stage
    <3>9. j.at = "loop" /\ k.at = "count"
      BY <1>2, <3>6
    <3>8. k \in GoodJob(g)
      BY <1>3, <3>6, <3>7, <3>9, Reshaped
    <3> QED BY <2>1, <3>1, <3>3, <3>4, <3>5, <3>8 DEF Step, TypeOK
  <2>2. CASE ~(Wants(j) /\ IsHw(j.owner, j.i))
    <3>1. Next1(g, j)
      BY <1>1, <2>2 DEF EnableBit
    <3> QED BY <1>1, <1>2, <1>3, <2>2, <3>1, NextAt
  <2> QED BY <2>1, <2>2
<1>14. job' \in [Owners -> Jobs] /\ \A h \in Owners : job'[h] \in GoodJob(h)'
  BY <1>2, <1>10, StepKeeps
<1>15. Works'
  BY <1>2, <1>14, NetKept DEF Works
<1>16. TypeOK'
  BY <1>2, <1>9, <1>10, <1>14 DEF TypeOK
<1> QED BY <1>1, <1>2, <1>4, <1>6, <1>7, <1>9, <1>10, <1>15, <1>16

\* irq_enable and irq_disable, and the way on.
LEMMA EnableHwAt ==
  ASSUME TypeOK, Works, NEW g \in Owners, EnableHw(g)
  PROVE  /\ TypeOK' /\ Works' /\ job[g].at = "count" /\ irqs' = irqs
         /\ job[g].a.reg \in {"isenable", "icenable"}
         /\ \E c \in Int :
              /\ c = IF job[g].a.reg = "isenable" THEN job[g].seen + 1 ELSE job[g].seen - 1
              /\ count' = [count EXCEPT ![NodeOfOwner(g)][Kind(job[g].owner)] = c]
              /\ \E hw : /\ hw = IF Kind(job[g].owner) = "ppi" THEN Vcpu(CpuOf(g)) ELSE Node(NodeOfOwner(g))
                         /\ hwen' = IF job[g].a.reg = "isenable" THEN [hwen EXCEPT ![hw] = TRUE]
                                    ELSE IF c = 0 THEN [hwen EXCEPT ![hw] = FALSE] ELSE hwen
         /\ \E k : /\ Step(g, k) /\ k.at # "count"
                   /\ job[g].i + 1 < Width =>
                        k = [job[g] EXCEPT !.at = "loop", !.seen = 0, !.i = job[g].i + 1] /\ reply' = reply
                   /\ ~(job[g].i + 1 < Width) => Answered(g, k, job[g].val)
<1>1. PICK j : j = job[g]
  OBVIOUS
<1>2. PICK l : l = [j EXCEPT !.at = "loop", !.seen = 0]
  OBVIOUS
<1>3. /\ j.at = "count" /\ Next1(g, l)
      /\ UNCHANGED <<version, ops, irqs, ctlr, hwroute, net, x, dead>>
  BY <1>1, <1>2 DEF EnableHw, Same
<1>4. j \in GoodJob(g) /\ j \in Jobs /\ j.owner \in Owners /\ Stage(j) /\ NodeOfOwner(g) \in Nodes
  BY <1>1, <1>3, JobIs, OwnerIs
<1>5. j.a.reg \in {"isenable", "icenable"}
  BY <1>3, <1>4 DEF Stage
<1>6. PICK c \in Int : c = IF j.a.reg = "isenable" THEN j.seen + 1 ELSE j.seen - 1
  BY <1>4 DEF Jobs
<1>7. PICK hw : hw = IF Kind(j.owner) = "ppi" THEN Vcpu(CpuOf(g)) ELSE Node(NodeOfOwner(g))
  OBVIOUS
<1>8. count' = [count EXCEPT ![NodeOfOwner(g)][Kind(j.owner)] = c]
  BY <1>1, <1>6 DEF EnableHw
<1>9. hwen' = IF j.a.reg = "isenable" THEN [hwen EXCEPT ![hw] = TRUE]
              ELSE IF c = 0 THEN [hwen EXCEPT ![hw] = FALSE] ELSE hwen
  BY <1>1, <1>6, <1>7 DEF EnableHw
<1>10. hwen' \in [Owners -> BOOLEAN]
  BY <1>9 DEF TypeOK
<1>11. count' \in [Nodes -> [{"ppi", "spi"} -> Int]]
  <2>1. Kind(j.owner) \in {"ppi", "spi"}
    BY DEF Kind
  <2> QED BY <2>1, <1>4, <1>6, <1>8 DEF TypeOK
<1>12. l \in Jobs /\ l.at = "loop" /\ l.a = j.a /\ l.owner = j.owner /\ l.from = j.from /\ l.i = j.i
       /\ l.val = j.val
  <2>1. PICK u : u = [j EXCEPT !.at = "loop"]
    OBVIOUS
  <2>2. u \in Jobs /\ u.at = "loop" /\ u.a = j.a /\ u.owner = j.owner /\ u.from = j.from /\ u.i = j.i
        /\ u.val = j.val
    BY <2>1, <1>4 DEF Jobs, Ats
  <2>3. l = [u EXCEPT !.seen = 0]
    BY <2>1, <1>2, <1>4 DEF Jobs
  <2> QED BY <2>2, <2>3 DEF Jobs
<1>13. PICK k : /\ Step(g, k) /\ k.at # "count" /\ reply' \in [Vcpus -> Seq(Vals)]
                /\ l.i + 1 < Width => k = [l EXCEPT !.i = l.i + 1] /\ reply' = reply
                /\ ~(l.i + 1 < Width) => Answered(g, k, l.val)
  BY <1>1, <1>3, <1>12, NextAt
<1>14. job' \in [Owners -> Jobs] /\ \A h \in Owners : job'[h] \in GoodJob(h)'
  BY <1>3, <1>13, StepKeeps
<1>15. Works'
  BY <1>3, <1>14, NetKept DEF Works
<1>16. TypeOK'
  BY <1>3, <1>10, <1>11, <1>13, <1>14 DEF TypeOK
<1>17. [l EXCEPT !.i = l.i + 1] = [j EXCEPT !.at = "loop", !.seen = 0, !.i = j.i + 1]
  <2>1. PICK m : m = j.i + 1
    OBVIOUS
  <2>2. [l EXCEPT !.i = m] = [j EXCEPT !.at = "loop", !.seen = 0, !.i = m]
    BY <1>2, <1>4 DEF Jobs
  <2> QED BY <2>1, <2>2, <1>12
<1>18. \E e \in Int :
              /\ e = IF j.a.reg = "isenable" THEN j.seen + 1 ELSE j.seen - 1
              /\ count' = [count EXCEPT ![NodeOfOwner(g)][Kind(j.owner)] = e]
              /\ \E h : /\ h = IF Kind(j.owner) = "ppi" THEN Vcpu(CpuOf(g)) ELSE Node(NodeOfOwner(g))
                        /\ hwen' = IF j.a.reg = "isenable" THEN [hwen EXCEPT ![h] = TRUE]
                                    ELSE IF e = 0 THEN [hwen EXCEPT ![h] = FALSE] ELSE hwen
  BY <1>6, <1>7, <1>8, <1>9
<1>19. \E m : /\ Step(g, m) /\ m.at # "count"
              /\ j.i + 1 < Width =>
                        m = [j EXCEPT !.at = "loop", !.seen = 0, !.i = j.i + 1] /\ reply' = reply
              /\ ~(j.i + 1 < Width) => Answered(g, m, j.val)
  BY <1>12, <1>13, <1>17
<1> QED BY <1>1, <1>3, <1>5, <1>15, <1>16, <1>18, <1>19

\* vgic_v2_set_targets and vgic_v3_iroute_write, for one interrupt.
LEMMA SetTargetAt ==
  ASSUME TypeOK, NEW o \in Owners, NEW i \in Bits, NEW n \in Nodes, NEW ts \in Nat,
         NEW t \in Vcpus \cup {NoVcpu}, SetTarget(o, i, n, ts, t)
  PROVE  /\ irqs' \in [Owners -> [Bits -> Irqs]]
         /\ hwroute' \in [Nodes -> Vcpus \cup {NicCpu(m) : m \in Nodes}]
         /\ Changed(o, i, [irqs[o][i] EXCEPT !.targets = ts, !.target = t])
         /\ irqs'[o][i].targets = ts /\ irqs'[o][i].target = t
         /\ irqs'[o][i].enabled = irqs[o][i].enabled
         /\ irqs'[o][i].igroup = irqs[o][i].igroup
         /\ irqs'[o][i].priority = irqs[o][i].priority
         /\ irqs'[o][i].cfg = irqs[o][i].cfg
<1>1. PICK s \in Irqs : s = irqs[o][i]
  BY DEF TypeOK
<1>2. PICK r : r = [s EXCEPT !.targets = ts, !.target = t]
  OBVIOUS
<1>3. r \in Irqs /\ r.targets = ts /\ r.target = t /\ r.enabled = s.enabled /\ r.igroup = s.igroup
      /\ r.priority = s.priority /\ r.cfg = s.cfg
  BY <1>1, <1>2 DEF Irqs
<1>4. irqs' = [irqs EXCEPT ![o] = [irqs[o] EXCEPT ![i] = r]]
  <2>1. irqs' = [irqs EXCEPT ![o][i].targets = ts, ![o][i].target = t]
    BY DEF SetTarget
  <2>2. irqs \in [Owners -> [Bits -> Irqs]]
    BY DEF TypeOK
  <2> QED BY <2>1, <2>2, <1>1, <1>2
<1>5. irqs' \in [Owners -> [Bits -> Irqs]] /\ Changed(o, i, r)
  BY <1>3, <1>4, IrqAt
<1>6. hwroute' \in [Nodes -> Vcpus \cup {NicCpu(m) : m \in Nodes}]
  BY DEF SetTarget, TypeOK
<1>7. irqs'[o][i] = r
  BY <1>5 DEF Changed
<1> QED BY <1>1, <1>2, <1>3, <1>5, <1>6, <1>7

\* A target that is no vCPU of the node is none.
LEMMA LocalIs ==
  \A n \in Nodes : \A v : Local(n, v) \in Vcpus \cup {NoVcpu}
  BY NodeOfIs DEF Local

\* ITARGETSR, one interrupt.
LEMMA TargetBitAt ==
  ASSUME TypeOK, Works, NEW g \in Owners, TargetBit(g)
  PROVE  /\ TypeOK' /\ Works' /\ job[g].at = "targets" /\ version = 2 /\ job[g].a.reg = "itargets"
         /\ ~job[g].a.wr => irqs' = irqs /\ hwroute' = hwroute
         /\ job[g].a.wr => SetTarget(job[g].owner, job[g].i, NodeOfOwner(g), job[g].val[job[g].i],
                                     Local(NodeOfOwner(g), FirstTarget(job[g].val[job[g].i])))
         /\ \E k : /\ Step(g, k) /\ k.at # "count"
                   /\ job[g].a.wr =>
                        /\ reply' = reply
                        /\ job[g].i + 1 < Width => k = [job[g] EXCEPT !.i = job[g].i + 1]
                        /\ ~(job[g].i + 1 < Width) /\ g[1] = "node" => k = Idle
                        /\ ~(job[g].i + 1 < Width) /\ g[1] = "vcpu" =>
                             k = [job[g] EXCEPT !.at = IF job[g].a.bank = 1 THEN "bcast" ELSE "end"]
                   /\ ~job[g].a.wr => /\ k.at # "bcast" /\ g[1] = "vcpu" /\ reply' = reply
                                      /\ k.a = job[g].a /\ k.at \in {"targets", "end"}
<1>1. PICK j : j = job[g]
  OBVIOUS
<1>2. PICK n : n = NodeOfOwner(g)
  OBVIOUS
<1>3. j.at = "targets" /\ UNCHANGED <<version, ops, ctlr, hwen, count, net, x, dead>>
  BY <1>1 DEF TargetBit, Same
<1>4. /\ j \in GoodJob(g) /\ j \in Jobs /\ j.owner \in Owners /\ Stage(j) /\ n \in Nodes /\ j.a \in AccessRec
      /\ TrapJob(g, j) \/ RequestJob(g, j) \/ ConfigJob(g, j)
  BY <1>1, <1>2, <1>3, JobIs, OwnerIs
<1>5. version = 2 /\ j.a.reg = "itargets" /\ j.a.wr \in BOOLEAN
  BY <1>3, <1>4, EmulateIs DEF Stage, TypeOK, AccessRec
<1>6. g[1] = "node" => j.a.wr
  BY <1>3, <1>4 DEF TrapJob, RequestJob, ConfigJob, Config, Targeting
<1>7. j.i \in Bits /\ j.val[j.i] \in Nat /\ j.i \in Nat /\ j.i < Width /\ Width \in Nat
  BY <1>4, NumbersAt DEF Jobs, Vals
<1>8. g[1] \in {"vcpu", "node"}
  BY OwnerIs
<1>9. CASE j.a.wr
  <2>1. PICK t : t = Local(n, FirstTarget(j.val[j.i]))
    OBVIOUS
  <2>2. PICK k : k = IF j.i + 1 # Width THEN [j EXCEPT !.i = j.i + 1]
                     ELSE IF g[1] = "node" THEN Idle
                     ELSE [j EXCEPT !.at = IF j.a.bank = 1 THEN "bcast" ELSE "end"]
    OBVIOUS
  <2>3. SetTarget(j.owner, j.i, n, j.val[j.i], t) /\ job' = [job EXCEPT ![g] = k] /\ reply' = reply
    BY <1>1, <1>2, <1>9, <2>1, <2>2 DEF TargetBit
  <2>4. t \in Vcpus \cup {NoVcpu}
    BY <2>1, <1>4, LocalIs
  <2>5. irqs' \in [Owners -> [Bits -> Irqs]] /\ hwroute' \in [Nodes -> Vcpus \cup {NicCpu(m) : m \in Nodes}]
    BY <2>3, <2>4, <1>4, <1>7, SetTargetAt
  <2>6. k \in GoodJob(g) /\ k.at # "count"
    <3>1. CASE j.i + 1 # Width
      <4>0. k = [j EXCEPT !.i = j.i + 1] /\ j.i + 1 \in Bits
        BY <2>2, <3>1, <1>7, NumbersAt
      <4>1. k \in Jobs /\ k.at = "targets" /\ k.a = j.a /\ k.owner = j.owner /\ k.from = j.from
        BY <4>0, <1>3, <1>4 DEF Jobs
      <4>2. Stage(k)
        BY <4>1, <1>3, <1>4 DEF Stage
      <4> QED BY <4>1, <4>2, <1>3, <1>4, Reshaped
    <3>2. CASE j.i + 1 = Width /\ g[1] = "node"
      <4>1. k = Idle /\ Idle.at = "idle"
        BY <2>2, <3>2 DEF Idle
      <4> QED BY <4>1, IdleGood
    <3>3. CASE j.i + 1 = Width /\ g[1] = "vcpu"
      <4>0. k = [j EXCEPT !.at = IF j.a.bank = 1 THEN "bcast" ELSE "end"]
        BY <2>2, <3>3
      <4>1. /\ k \in Jobs /\ k.at = (IF j.a.bank = 1 THEN "bcast" ELSE "end") /\ k.a = j.a /\ k.owner = j.owner
            /\ k.from = j.from
        BY <4>0, <1>4 DEF Jobs, Ats
      <4>2. Stage(k)
        BY <4>1, <1>3, <1>4, <1>9 DEF Stage
      <4> QED BY <4>1, <4>2, <1>3, <1>4, <3>3, Reshaped
    <3> QED BY <3>1, <3>2, <3>3, <1>8
  <2>7. Step(g, k)
    BY <2>3, <2>6 DEF Step
  <2>8. job' \in [Owners -> Jobs] /\ \A h \in Owners : job'[h] \in GoodJob(h)'
    BY <1>3, <2>7, StepKeeps
  <2>9. Works'
    BY <1>3, <2>8, NetKept DEF Works
  <2>10. TypeOK'
    BY <1>3, <2>3, <2>5, <2>8 DEF TypeOK
  <2>11. /\ j.i + 1 < Width => k = [j EXCEPT !.i = j.i + 1]
         /\ ~(j.i + 1 < Width) /\ g[1] = "node" => k = Idle
         /\ ~(j.i + 1 < Width) /\ g[1] = "vcpu" =>
                             k = [j EXCEPT !.at = IF j.a.bank = 1 THEN "bcast" ELSE "end"]
    BY <2>2, <1>7
  <2> QED BY <1>1, <1>2, <1>3, <1>5, <1>9, <2>1, <2>3, <2>6, <2>7, <2>9, <2>10, <2>11
<1>10. CASE ~j.a.wr
  <2>1. PICK b : b = irqs[j.owner][j.i].targets
    OBVIOUS
  <2>2. b \in Nat
    BY <2>1, <1>4, <1>7 DEF TypeOK, Irqs
  <2>3. PICK l : l = [j EXCEPT !.val = [j.val EXCEPT ![j.i] = b]]
    OBVIOUS
  <2>4. Next1(g, l) /\ irqs' = irqs /\ hwroute' = hwroute
    BY <1>1, <1>10, <2>1, <2>3 DEF TargetBit
  <2>5. [j.val EXCEPT ![j.i] = b] \in Vals
    BY <1>4, <2>2 DEF Jobs, Vals
  <2>6. l \in Jobs /\ l.at = "targets" /\ l.a = j.a /\ l.owner = j.owner /\ l.from = j.from /\ l.val \in Vals
    BY <1>3, <1>4, <2>3, <2>5 DEF Jobs
  <2>7. g[1] = "vcpu"
    BY <1>6, <1>8, <1>10
  <2>8. PICK k : /\ Step(g, k) /\ k.at # "count" /\ reply' \in [Vcpus -> Seq(Vals)]
                 /\ l.i + 1 < Width => k = [l EXCEPT !.i = l.i + 1] /\ reply' = reply
                 /\ ~(l.i + 1 < Width) => Answered(g, k, l.val)
    BY <1>1, <1>3, <2>4, <2>6, <2>7, NextAt
  <2>9. k.a = j.a /\ k.at \in {"targets", "end"} /\ reply' = reply
    BY <1>1, <1>4, <2>6, <2>7, <2>8 DEF Answered, Jobs
  <2>10. job' \in [Owners -> Jobs] /\ \A h \in Owners : job'[h] \in GoodJob(h)'
    BY <1>3, <2>8, StepKeeps
  <2>11. Works'
    BY <1>3, <2>10, NetKept DEF Works
  <2>12. TypeOK'
    BY <1>3, <2>4, <2>8, <2>10 DEF TypeOK
  <2> QED BY <1>1, <1>3, <1>5, <1>10, <2>4, <2>7, <2>8, <2>9, <2>11, <2>12
<1> QED BY <1>5, <1>9, <1>10

\* MSG_GIC_CONFIG goes to every other node.
LEMMA BroadcastAt ==
  ASSUME TypeOK, Works, NEW g \in Owners, Broadcast(g)
  PROVE  /\ TypeOK' /\ Works' /\ job[g].at = "bcast" /\ g[1] = "vcpu" /\ version = 2 /\ Targeting(job[g].a)
         /\ \E k : Step(g, k) /\ k = [job[g] EXCEPT !.at = "end"]
         /\ \E msg \in Msgs :
              /\ msg = [type |-> "config", a |-> job[g].a, val |-> job[g].val, from |-> NoVcpu]
              /\ \A m, n \in Nodes : net'[<<m, n>>] =
                   IF m = NodeOfOwner(g) /\ n # m THEN Append(net[<<m, n>>], msg) ELSE net[<<m, n>>]
<1>1. PICK j : j = job[g]
  OBVIOUS
<1>2. PICK c : c = NodeOfOwner(g)
  OBVIOUS
<1>3. PICK msg : msg = [type |-> "config", a |-> j.a, val |-> j.val, from |-> NoVcpu]
  OBVIOUS
<1>4. /\ j.at = "bcast" /\ UNCHANGED <<version, ops, irqs, ctlr, hwen, hwroute, count, reply, x, dead>>
      /\ net' = [p \in DOMAIN net |-> IF p[1] = c /\ p[2] # c THEN Append(net[p], msg) ELSE net[p]]
      /\ job' = [job EXCEPT ![g].at = "end"]
  BY <1>1, <1>2, <1>3 DEF Broadcast, Same
<1>5. /\ j \in GoodJob(g) /\ j \in Jobs /\ j.owner \in Owners /\ Stage(j) /\ c \in Nodes /\ j.a \in AccessRec
      /\ j.a \in Accs /\ (TrapJob(g, j) \/ RequestJob(g, j) \/ ConfigJob(g, j))
  BY <1>1, <1>2, <1>4, JobIs, OwnerIs
<1>6. /\ version = 2 /\ j.a.reg = "itargets" /\ j.a.frame = "gicd" /\ j.a.wr /\ j.a.bank = 1
      /\ version \in {2, 3}
  BY <1>4, <1>5, EmulateIs DEF Stage, TypeOK
<1>7. g[1] = "vcpu"
  BY <1>4, <1>5 DEF TrapJob, RequestJob, ConfigJob
<1>8. PICK k : k = [j EXCEPT !.at = "end"]
  OBVIOUS
<1>9. k \in Jobs /\ k.at = "end" /\ k.a = j.a /\ k.owner = j.owner /\ k.from = j.from
  BY <1>5, <1>8 DEF Jobs, Ats
<1>10. Stage(k)
  BY <1>9 DEF Stage
<1>11. k \in GoodJob(g)
  BY <1>4, <1>5, <1>7, <1>9, <1>10, Reshaped
<1>12. Step(g, k)
  BY <1>1, <1>4, <1>8, <1>11 DEF Step
<1>13. msg \in Msgs /\ Config(msg.a) /\ msg.type = "config" /\ msg.from = NoVcpu
  BY <1>3, <1>5, <1>6 DEF Msgs, Jobs, Config, Targeting
<1>14. \A m, n : msg \in GoodMsg(m, n)
  BY <1>13 DEF GoodMsg, ConfigMsg
<1>15. net \in [Nodes \X Nodes -> Seq(Msgs)] /\ \A m, n \in Nodes : net[<<m, n>>] \in Seq(GoodMsg(m, n))
  BY DEF TypeOK, Works
<1>16. \A m, n \in Nodes : net'[<<m, n>>] = IF m = c /\ n # m THEN Append(net[<<m, n>>], msg) ELSE net[<<m, n>>]
  BY <1>4, <1>15
<1>17. \A p \in Nodes \X Nodes : net[p] \in Seq(Msgs) /\ Append(net[p], msg) \in Seq(Msgs)
  BY <1>13, <1>15
<1>18. net' \in [Nodes \X Nodes -> Seq(Msgs)]
  BY <1>4, <1>15, <1>17
<1>19. \A m, n \in Nodes : net'[<<m, n>>] \in Seq(GoodMsg(m, n))
  <2> SUFFICES ASSUME NEW m \in Nodes, NEW n \in Nodes PROVE net'[<<m, n>>] \in Seq(GoodMsg(m, n))
    OBVIOUS
  <2>1. net[<<m, n>>] \in Seq(GoodMsg(m, n)) /\ msg \in GoodMsg(m, n)
    BY <1>14, <1>15
  <2>2. Append(net[<<m, n>>], msg) \in Seq(GoodMsg(m, n))
    BY <2>1
  <2> QED BY <2>1, <2>2, <1>16
<1>20. job' \in [Owners -> Jobs] /\ \A h \in Owners : job'[h] \in GoodJob(h)'
  BY <1>4, <1>12, StepKeeps
<1>21. Works'
  BY <1>4, <1>19, <1>20, Fixed DEF Works
<1>22. TypeOK'
  BY <1>4, <1>18, <1>20 DEF TypeOK
<1>23. Targeting(j.a)
  BY <1>6 DEF Targeting
<1>24. \E e \in Msgs :
          /\ e = [type |-> "config", a |-> job[g].a, val |-> job[g].val, from |-> NoVcpu]
          /\ \A m, n \in Nodes : net'[<<m, n>>] =
               IF m = NodeOfOwner(g) /\ n # m THEN Append(net[<<m, n>>], e) ELSE net[<<m, n>>]
  <2>1. msg = [type |-> "config", a |-> job[g].a, val |-> job[g].val, from |-> NoVcpu]
    BY <1>1, <1>3
  <2>2. \A m, n \in Nodes : net'[<<m, n>>] =
               IF m = NodeOfOwner(g) /\ n # m THEN Append(net[<<m, n>>], msg) ELSE net[<<m, n>>]
    BY <1>2, <1>16
  <2> QED BY <2>1, <2>2, <1>13
<1>25. \E e : Step(g, e) /\ e = [job[g] EXCEPT !.at = "end"]
  BY <1>1, <1>8, <1>12
<1>26. job[g].at = "bcast" /\ version = 2 /\ Targeting(job[g].a)
  BY <1>1, <1>4, <1>6, <1>23
<1> QED BY <1>7, <1>21, <1>22, <1>24, <1>25, <1>26

\* IROUTER, at this node.
LEMMA RouteAt ==
  ASSUME TypeOK, Works, NEW g \in Owners, Route(g)
  PROVE  /\ TypeOK' /\ Works' /\ job[g].at = "route" /\ version = 3 /\ g[1] = "vcpu"
         /\ vmmio_emulate(job[g].a) = "route"
         /\ job[g].owner = Node(NodeOfOwner(g))
         /\ \/ irqs' = irqs /\ hwroute' = hwroute
            \/ \E ts \in Nat : \E t \in Vcpus \cup {NoVcpu} :
                 SetTarget(job[g].owner, 0, NodeOfOwner(g), ts, t)
         /\ \E val \in Vals : \E k : Step(g, k) /\ k.at = "end" /\ Answered(g, k, val)
<1>1. PICK j : j = job[g]
  OBVIOUS
<1>2. PICK n : n = NodeOfOwner(g)
  OBVIOUS
<1>3. j.at = "route" /\ UNCHANGED <<version, ops, ctlr, hwen, count, net, x, dead>>
  BY <1>1 DEF Route, Same
<1>4. /\ j \in GoodJob(g) /\ j \in Jobs /\ j.owner \in Owners /\ Stage(j) /\ n \in Nodes /\ j.a \in AccessRec
      /\ TrapJob(g, j) \/ RequestJob(g, j) \/ ConfigJob(g, j)
  BY <1>1, <1>2, <1>3, JobIs, OwnerIs
<1>5. version = 3 /\ j.a.frame = "gicd" /\ j.a.bank = 1 /\ vmmio_emulate(j.a) = "route"
  BY <1>3, <1>4, EmulateIs DEF Stage, TypeOK
<1>6. TrapJob(g, j) /\ g[1] = "vcpu"
  BY <1>3, <1>4 DEF TrapJob, RequestJob, ConfigJob
<1>7. g[2] \in Vcpus /\ n = NodeOf(g[2]) /\ j.owner = Node(n)
  BY <1>2, <1>5, <1>6, OwnerIs DEF TrapJob, OwnerOf, NodeOfOwner
<1>8. 0 \in Bits /\ j.val[0] \in Nat /\ None \in Vals /\ j.val \in Vals
  BY <1>4, NumbersAt DEF Jobs, Vals
<1>9. PICK w : w = IF j.val[0] = IRM THEN Min(VcpusOf[n]) ELSE j.val[0]
  OBVIOUS
<1>10. w \in Nat
  <2>1. g[2] \in VcpusOf[n]
    BY <1>7, NodeOfIs
  <2>2. NicCpu(n) \in VcpusOf[n]
    BY <2>1, <1>4, NicCpuIs
  <2>3. Min(VcpusOf[n]) \in Nat
    BY <2>2, <1>4, NodeOfIs, NumbersAt DEF NicCpu
  <2> QED BY <2>3, <1>8, <1>9
<1>11. PICK t : t = Local(n, w)
  OBVIOUS
<1>12. t \in Vcpus \cup {NoVcpu}
  BY <1>4, <1>11, LocalIs
<1>13. PICK val : val = IF j.a.wr THEN j.val ELSE [None EXCEPT ![0] = irqs[j.owner][0].targets]
  OBVIOUS
<1>14. val \in Vals
  <2>1. irqs[j.owner][0].targets \in Nat
    BY <1>4, <1>8 DEF TypeOK, Irqs
  <2>2. [None EXCEPT ![0] = irqs[j.owner][0].targets] \in Vals
    BY <2>1, <1>8 DEF Vals
  <2> QED BY <2>2, <1>8, <1>13
<1>15. /\ Answer(g, val)
       /\ (irqs' = irqs /\ hwroute' = hwroute) \/ SetTarget(j.owner, 0, n, w, t)
  <2>1. CASE j.a.wr
    BY <2>1, <1>1, <1>2, <1>9, <1>11, <1>13 DEF Route
  <2>2. CASE ~j.a.wr
    BY <2>2, <1>1, <1>2, <1>13 DEF Route
  <2> QED BY <2>1, <2>2
<1>16. PICK k : /\ Step(g, k) /\ k.at \in {"end", "idle"}
                /\ reply' \in [Vcpus -> Seq(Vals)] /\ Answered(g, k, val)
  BY <1>1, <1>3, <1>6, <1>14, <1>15, AnswerAt
<1>17. k.at = "end"
  BY <1>1, <1>4, <1>6, <1>16 DEF Answered, Jobs
<1>18. irqs' \in [Owners -> [Bits -> Irqs]] /\ hwroute' \in [Nodes -> Vcpus \cup {NicCpu(m) : m \in Nodes}]
  <2>1. CASE SetTarget(j.owner, 0, n, w, t)
    BY <2>1, <1>4, <1>8, <1>10, <1>12, SetTargetAt
  <2>2. CASE irqs' = irqs /\ hwroute' = hwroute
    BY <2>2 DEF TypeOK
  <2> QED BY <2>1, <2>2, <1>15
<1>19. job' \in [Owners -> Jobs] /\ \A h \in Owners : job'[h] \in GoodJob(h)'
  BY <1>3, <1>16, StepKeeps
<1>20. Works'
  BY <1>3, <1>19, NetKept DEF Works
<1>21. TypeOK'
  BY <1>3, <1>16, <1>18, <1>19 DEF TypeOK
<1> QED BY <1>1, <1>2, <1>3, <1>5, <1>6, <1>7, <1>10, <1>12, <1>14, <1>15, <1>16, <1>17, <1>20, <1>21

\* The reply of another node arrives.
LEMMA RecvReplyAt ==
  ASSUME TypeOK, Works, NEW v \in Vcpus, RecvReply(v)
  PROVE  /\ TypeOK' /\ Works' /\ job[Vcpu(v)].at = "wait"
         /\ reply[v] # NoReply /\ reply[v][1] \in Vals /\ reply' = [reply EXCEPT ![v] = NoReply]
         /\ \E k : Step(Vcpu(v), k) /\ k = [job[Vcpu(v)] EXCEPT !.at = "end", !.val = reply[v][1]]
<1>1. PICK g \in Owners : g = Vcpu(v) /\ g[1] = "vcpu" /\ g[2] = v
  BY OwnerIs
<1>2. PICK j : j = job[g]
  OBVIOUS
<1>3. PICK b : b = reply[v][1]
  OBVIOUS
<1>4. /\ j.at = "wait" /\ reply[v] # NoReply /\ reply' = [reply EXCEPT ![v] = NoReply]
      /\ job' = [job EXCEPT ![g].at = "end", ![g].val = b]
      /\ UNCHANGED <<version, ops, irqs, ctlr, hwen, hwroute, count, net, x, dead>>
  BY <1>1, <1>2, <1>3 DEF RecvReply, Same
<1>5. reply[v] \in Seq(Vals)
  BY DEF TypeOK
<1>6. b \in Vals /\ NoReply \in Seq(Vals)
  BY <1>3, <1>4, <1>5 DEF NoReply
<1>7. j \in GoodJob(g) /\ j \in Jobs
  BY <1>2, <1>4, JobIs
<1>8. PICK k : k = [j EXCEPT !.at = "end", !.val = b]
  OBVIOUS
<1>9. k \in Jobs /\ k.at = "end" /\ k.a = j.a /\ k.owner = j.owner /\ k.from = j.from
  BY <1>6, <1>7, <1>8 DEF Jobs, Ats
<1>10. Stage(k)
  BY <1>9 DEF Stage
<1>11. k \in GoodJob(g)
  BY <1>1, <1>4, <1>7, <1>9, <1>10, Reshaped
<1>12. job' = [job EXCEPT ![g] = k]
  BY <1>2, <1>4, <1>8 DEF TypeOK
<1>13. Step(g, k)
  BY <1>11, <1>12 DEF Step
<1>14. job' \in [Owners -> Jobs] /\ \A h \in Owners : job'[h] \in GoodJob(h)'
  BY <1>4, <1>13, StepKeeps
<1>15. Works'
  BY <1>4, <1>14, NetKept DEF Works
<1>16. reply' \in [Vcpus -> Seq(Vals)]
  BY <1>4, <1>6 DEF TypeOK
<1>17. TypeOK'
  BY <1>4, <1>14, <1>16 DEF TypeOK
<1> QED BY <1>1, <1>2, <1>3, <1>4, <1>6, <1>8, <1>13, <1>15, <1>17

\* The guest goes on.
LEMMA ReturnAt ==
  ASSUME TypeOK, Works, NEW v \in Vcpus, Return(v)
  PROVE  /\ TypeOK' /\ Works' /\ job[Vcpu(v)].at = "end" /\ Step(Vcpu(v), Idle)
<1>1. PICK g \in Owners : g = Vcpu(v) /\ g[1] = "vcpu" /\ g[2] = v
  BY OwnerIs
<1>2. /\ job[g].at = "end" /\ job' = [job EXCEPT ![g] = Idle]
      /\ x' = IF job[g].a.wr THEN x ELSE [x EXCEPT ![v] = job[g].val]
      /\ UNCHANGED <<version, ops, irqs, ctlr, hwen, hwroute, count, net, reply, dead>>
  BY <1>1 DEF Return, Same
<1>3. Step(g, Idle)
  BY <1>2, IdleGood DEF Step
<1>4. job' \in [Owners -> Jobs] /\ \A h \in Owners : job'[h] \in GoodJob(h)'
  BY <1>2, <1>3, StepKeeps
<1>5. Works'
  BY <1>2, <1>4, NetKept DEF Works
<1>6. job[g].val \in Vals
  BY DEF TypeOK, Jobs
<1>7. x' \in [Vcpus -> Vals]
  BY <1>2, <1>6 DEF TypeOK
<1>8. TypeOK'
  BY <1>2, <1>4, <1>7 DEF TypeOK
<1> QED BY <1>1, <1>2, <1>3, <1>5, <1>8

\* The GIC as vgic_init and vgic_cpu_init leave it.
LEMMA InitAt ==
  Init => TypeOK /\ Works
<1> SUFFICES ASSUME Init PROVE TypeOK /\ Works
  OBVIOUS
<1>1. version \in {2, 3} /\ version \in Versions
  BY GicMmioAssumption DEF Init
<1>2. irqs \in [Owners -> [Bits -> Irqs]]
  <2>1. ASSUME NEW o \in Owners, NEW i \in Bits PROVE irqs[o][i] \in Irqs
    <3>1. PICK e \in {0, 1} : e = IF o[1] = "vcpu" /\ i < Width - 1 THEN 1 ELSE 0
      OBVIOUS
    <3>2. PICK ts : ts = IF ~(o[1] = "vcpu" /\ i = Width - 1) THEN 0 ELSE IF version = 2 THEN 2 ^ o[2] ELSE o[2]
      OBVIOUS
    <3>3. PICK t : t = IF o[1] = "vcpu" /\ i = Width - 1 THEN o[2] ELSE NoVcpu
      OBVIOUS
    <3>4. o[1] = "vcpu" => o[2] \in Vcpus
      BY OwnerIs
    <3>5. t \in Vcpus \cup {NoVcpu}
      BY <3>3, <3>4
    <3>6. version = 2 /\ o[1] = "vcpu" => 2 ^ o[2] \in Nat
      <4>1. 2 \in Versions => \A v \in Vcpus : 2 ^ v \in 0..255
        BY GicMmioAssumption, Zenon
      <4> QED BY <1>1, <3>4, <4>1
    <3>7. ts \in Nat
      BY <3>2, <3>4, <3>6, NumbersAt
    <3>8. irqs[o][i] = [enabled |-> e, igroup |-> 0, priority |-> 0, cfg |-> e, targets |-> ts, target |-> t]
      BY <3>1, <3>2, <3>3 DEF Init
    <3> QED BY <3>5, <3>7, <3>8 DEF Irqs
  <2>2. irqs = [o \in Owners |-> irqs[o]] /\ \A o \in Owners : irqs[o] = [i \in Bits |-> irqs[o][i]]
    BY DEF Init
  <2> QED BY <2>1, <2>2
<1>3. job \in [Owners -> Jobs] /\ \A g \in Owners : job[g] \in GoodJob(g)
  BY IdleGood DEF Init
<1>4. net \in [Nodes \X Nodes -> Seq(Msgs)] /\ \A m, n \in Nodes : net[<<m, n>>] \in Seq(GoodMsg(m, n))
  BY DEF Init
<1>5. reply \in [Vcpus -> Seq(Vals)] /\ x \in [Vcpus -> Vals]
  BY NumbersAt DEF Init, NoReply
<1>6. /\ ctlr \in [Nodes -> Nat] /\ hwen \in [Owners -> BOOLEAN]
      /\ hwroute \in [Nodes -> Vcpus \cup {NicCpu(n) : n \in Nodes}]
      /\ count \in [Nodes -> [{"ppi", "spi"} -> Int]]
      /\ ops \in 0..MaxOps /\ dead \subseteq Nodes
  BY GicMmioAssumption DEF Init
<1> QED BY <1>1, <1>2, <1>3, <1>4, <1>5, <1>6 DEF TypeOK, Works

-----------------------------------------------------------------------------
(* The physical interrupts.                                                *)

\* Where no lock is taken or released, and no interrupt that has a physical
\* one or is locked is enabled or disabled, all stays as it is.
LEMMA HwKept ==
  ASSUME TypeOK, Works, LockOK, SpiOK, NEW g \in Owners, NEW k, Step(g, k), version' = version,
         k.at # "count", job[g].at # "count", count' = count, hwen' = hwen,
         \A o \in Owners : \A i \in Bits :
           Locked(o, i) \/ IsHw(o, i) => irqs'[o][i].enabled = irqs[o][i].enabled
  PROVE  LockOK' /\ SpiOK' /\ (TimerOK => TimerOK')
<1>1. /\ k \in Jobs /\ job' \in [Owners -> Jobs] /\ job'[g] = k
      /\ \A h \in Owners \ {g} : job'[h] = job[h]
  BY StepKeeps
<1>2. \A h \in Owners : job[h].at = "count" \/ job'[h].at = "count" => job'[h] = job[h]
  BY <1>1
<1>3. \A h \in Owners : \A o, i : Holds(job'[h], o, i) <=> Holds(job[h], o, i)
  BY <1>2 DEF Holds
<1>4. \A o, i : Locked(o, i)' <=> Locked(o, i)
  BY <1>2 DEF Locked
<1>5. \A h \in Owners : job[h].at = "count" => job[h].owner \in Owners /\ job[h].i \in Bits
  BY JobIs DEF Jobs
<1>6. LockOK'
  <2>1. \A a, b \in Owners : \A o \in Owners : \A i \in Bits :
          Holds(job'[a], o, i) /\ Holds(job'[b], o, i) => a = b
    BY <1>3 DEF LockOK
  <2>2. ASSUME NEW h \in Owners, job'[h].at = "count"
        PROVE  irqs'[job'[h].owner][job'[h].i].enabled = IF job'[h].a.reg = "isenable" THEN 1 ELSE 0
    <3>1. job'[h] = job[h] /\ job[h].at = "count"
      BY <1>2, <2>2
    <3>2. Locked(job[h].owner, job[h].i)
      BY <3>1 DEF Locked
    <3> QED BY <3>1, <3>2, <1>5 DEF LockOK
  <2> QED BY <2>1, <2>2 DEF LockOK, Holds
<1>7. \A n \in Nodes : Node(n) \in Owners /\ irqs'[Node(n)][0].enabled = irqs[Node(n)][0].enabled
  BY OwnerIs, NumbersAt DEF IsHw
<1>8. SpiOK'
  <2> SUFFICES ASSUME NEW n \in Nodes
               PROVE  /\ hwen'[Node(n)] <=> count'[n]["spi"] = 1
                      /\ Locked(Node(n), 0)' \/ count'[n]["spi"] = irqs'[Node(n)][0].enabled
                      /\ \A h \in Owners : Holds(job'[h], Node(n), 0) =>
                           job'[h].seen = count'[n]["spi"] /\ job'[h].seen = 1 - irqs'[Node(n)][0].enabled
    BY DEF SpiOK, Holds
  <2>1. hwen'[Node(n)] <=> count'[n]["spi"] = 1
    BY DEF SpiOK
  <2>2. Locked(Node(n), 0)' \/ count'[n]["spi"] = irqs'[Node(n)][0].enabled
    BY <1>4, <1>7 DEF SpiOK
  <2>3. ASSUME NEW h \in Owners, Holds(job'[h], Node(n), 0)
        PROVE  job'[h].seen = count'[n]["spi"] /\ job'[h].seen = 1 - irqs'[Node(n)][0].enabled
    <3>1. job'[h] = job[h] /\ Holds(job[h], Node(n), 0)
      BY <1>2, <1>3, <2>3 DEF Holds
    <3> QED BY <3>1, <1>7 DEF SpiOK
  <2> QED BY <2>1, <2>2, <2>3
<1>9. ASSUME TimerOK PROVE TimerOK'
  <2>1. \A v \in Vcpus : Vcpu(v) \in Owners /\ irqs'[Vcpu(v)][Width - 1].enabled = irqs[Vcpu(v)][Width - 1].enabled
    BY OwnerIs, NumbersAt DEF IsHw
  <2>2. \A v \in Vcpus : Holds(job'[Vcpu(v)], Vcpu(v), Width - 1) <=> Holds(job[Vcpu(v)], Vcpu(v), Width - 1)
    BY <1>3, <2>1
  <2> QED BY <1>9, <2>1, <2>2 DEF TimerOK, Holds
<1> QED BY <1>6, <1>8, <1>9

\* The private enables of a vCPU are written by itself.
LEMMA OwnEnabler ==
  ASSUME OwnEnables, TypeOK, Works, NEW g \in Owners, NEW u \in Vcpus,
         job[g].at \in {"loop", "count"}, job[g].a.wr, job[g].a.reg \in {"isenable", "icenable"},
         job[g].owner = Vcpu(u)
  PROVE  g = Vcpu(u)
<1>1. PICK j : j = job[g]
  OBVIOUS
<1>2. TrapJob(g, j) \/ RequestJob(g, j) \/ ConfigJob(g, j)
  BY <1>1, JobIs
<1>3. CASE TrapJob(g, j)
  <2>1. PICK v \in Vcpus : g = Vcpu(v) /\ g[2] = v
    BY <1>3, OwnerIs DEF TrapJob
  <2>2. j.a \in Accesses[v] /\ j.owner = OwnerOf(v, j.a)
    BY <1>3, <2>1 DEF TrapJob
  <2>3. j.a.frame = "gicr" => j.a.vcpu = v
    BY <1>1, <2>2 DEF OwnEnables
  <2>4. Vcpu(u) = OwnerOf(v, j.a)
    BY <1>1, <2>2
  <2> QED BY <2>1, <2>3, <2>4, OwnerIs DEF OwnerOf
<1>4. CASE RequestJob(g, j)
  <2>1. j.from \in Vcpus /\ j.a \in Accesses[j.from] /\ j.a.frame = "gicr"
        /\ j.a.vcpu \notin VcpusOf[NodeOf(j.from)]
    BY <1>4 DEF RequestJob, Away
  <2>2. j.a.vcpu = j.from
    BY <1>1, <2>1 DEF OwnEnables
  <2> QED BY <2>1, <2>2, NodeOfIs
<1>5. CASE ConfigJob(g, j)
  BY <1>1, <1>5 DEF ConfigJob
<1> QED BY <1>2, <1>3, <1>4, <1>5

\* vgic_enable_irq and vgic_disable_irq.
LEMMA EnableBitHw ==
  ASSUME TypeOK, Works, LockOK, SpiOK, NEW g \in Owners, EnableBit(g)
  PROVE  LockOK' /\ SpiOK' /\ (OwnEnables /\ TimerOK => TimerOK')
<1>1. PICK j : j = job[g]
  OBVIOUS
<1>2. PICK r : r = [irqs[j.owner][j.i] EXCEPT !.enabled =
                      IF j.val[j.i] = 1 THEN EnableOf(j.a) ELSE irqs[j.owner][j.i].enabled]
  OBVIOUS
<1>3. /\ j.at = "loop" /\ j.a.wr /\ j.a.reg \in {"isenable", "icenable"} /\ ~Locked(j.owner, j.i)
      /\ Changed(j.owner, j.i, r) /\ (~Wants(j) => irqs' = irqs)
  BY <1>1, <1>2, EnableBitAt
<1>4. j \in Jobs /\ j.owner \in Owners /\ j.i \in Bits /\ NodeOfOwner(j.owner) = NodeOfOwner(g)
  BY <1>1, <1>3, JobIs DEF Jobs
<1>5. version' = version /\ count' = count /\ hwen' = hwen
  BY DEF EnableBit, Same
<1>6. CASE ~(Wants(j) /\ IsHw(j.owner, j.i))
  <2>1. PICK k : Step(g, k) /\ k.at # "count"
    BY <1>1, <1>6, EnableBitAt
  <2>2. \A o \in Owners : \A i \in Bits :
           Locked(o, i) \/ IsHw(o, i) => irqs'[o][i].enabled = irqs[o][i].enabled
    BY <1>3, <1>6 DEF Changed
  <2>3. job[g].at # "count"
    BY <1>1, <1>3
  <2> QED BY <1>5, <2>1, <2>2, <2>3, HwKept
<1>7. CASE Wants(j) /\ IsHw(j.owner, j.i)
  <2>0. PICK c : c = count[NodeOfOwner(g)][Kind(j.owner)]
    OBVIOUS
  <2>1. PICK k : Step(g, k) /\ k = [j EXCEPT !.at = "count", !.seen = c]
    BY <1>1, <1>7, <2>0, EnableBitAt
  <2>2. k.at = "count" /\ k.owner = j.owner /\ k.i = j.i /\ k.a = j.a /\ k.seen = c
    BY <1>4, <2>1 DEF Jobs
  <2>3. PICK e \in {0, 1} : e = EnableOf(j.a)
    BY DEF EnableOf
  <2>4. irqs'[j.owner][j.i].enabled = e /\ irqs[j.owner][j.i].enabled = 1 - e
    <3>1. j.val[j.i] = 1 /\ irqs[j.owner][j.i].enabled = 1 - e
      BY <1>7, <2>3 DEF Wants, EnableOf
    <3>2. irqs[j.owner][j.i] \in Irqs
      BY <1>4 DEF TypeOK
    <3>3. r.enabled = e
      BY <1>2, <2>3, <3>1, <3>2 DEF Irqs
    <3> QED BY <1>3, <3>1, <3>3 DEF Changed
  <2>5. \A p \in Owners : \A q \in Bits : p # j.owner \/ q # j.i => irqs'[p][q] = irqs[p][q]
    BY <1>3 DEF Changed
  <2>6. job'[g] = k /\ \A h \in Owners \ {g} : job'[h] = job[h]
    BY <1>5, <2>1, StepKeeps
  <2>7. \A h \in Owners : ~Holds(job[h], j.owner, j.i)
    BY <1>3 DEF Locked, Holds
  <2>8. \A h \in Owners : job[h].at = "count" => job[h].owner \in Owners /\ job[h].i \in Bits
    BY JobIs DEF Jobs
  <2>9. LockOK'
    <3>1. ASSUME NEW a \in Owners, NEW b \in Owners, NEW o \in Owners, NEW i \in Bits,
                 Holds(job'[a], o, i), Holds(job'[b], o, i)
          PROVE  a = b
      <4>1. CASE a # g /\ b # g
        BY <2>6, <3>1, <4>1 DEF LockOK
      <4>2. CASE a = g /\ b # g
        BY <2>2, <2>6, <2>7, <3>1, <4>2 DEF Holds
      <4>3. CASE a # g /\ b = g
        BY <2>2, <2>6, <2>7, <3>1, <4>3 DEF Holds
      <4> QED BY <4>1, <4>2, <4>3
    <3>2. ASSUME NEW h \in Owners, job'[h].at = "count"
          PROVE  irqs'[job'[h].owner][job'[h].i].enabled = IF job'[h].a.reg = "isenable" THEN 1 ELSE 0
      <4>1. CASE h = g
        BY <2>2, <2>3, <2>4, <2>6, <4>1 DEF EnableOf
      <4>2. CASE h # g
        <5>1. job'[h] = job[h] /\ job[h].at = "count" /\ ~Holds(job[h], j.owner, j.i)
          BY <2>6, <2>7, <3>2, <4>2
        <5> QED BY <5>1, <2>5, <2>8 DEF LockOK, Holds
      <4> QED BY <4>1, <4>2
    <3> QED BY <3>1, <3>2 DEF LockOK, Holds
  <2>10. SpiOK'
    <3> SUFFICES ASSUME NEW n \in Nodes
                 PROVE  /\ hwen'[Node(n)] <=> count'[n]["spi"] = 1
                        /\ Locked(Node(n), 0)' \/ count'[n]["spi"] = irqs'[Node(n)][0].enabled
                        /\ \A h \in Owners : Holds(job'[h], Node(n), 0) =>
                             job'[h].seen = count'[n]["spi"] /\ job'[h].seen = 1 - irqs'[Node(n)][0].enabled
      BY DEF SpiOK, Holds
    <3>0. hwen'[Node(n)] <=> count'[n]["spi"] = 1
      BY <1>5 DEF SpiOK
    <3>1. CASE j.owner = Node(n)
      <4>1. j.i = 0 /\ Kind(j.owner) = "spi" /\ NodeOfOwner(g) = n
        BY <1>4, <1>7, <3>1, OwnerIs DEF IsHw, Kind
      <4>2. Locked(Node(n), 0)'
        BY <2>2, <2>6, <3>1, <4>1 DEF Locked
      <4>3. ~Locked(Node(n), 0)
        BY <1>3, <3>1, <4>1
      <4>4. c = count[n]["spi"] /\ c = 1 - e
        BY <2>0, <2>4, <3>1, <4>1, <4>3 DEF SpiOK
      <4>5. irqs'[Node(n)][0].enabled = e
        BY <2>4, <3>1, <4>1
      <4>6. ASSUME NEW h \in Owners, Holds(job'[h], Node(n), 0)
            PROVE  job'[h].seen = c
        <5>1. h = g
          BY <2>6, <2>7, <3>1, <4>1, <4>6
        <5> QED BY <5>1, <2>2, <2>6
      <4> QED BY <1>5, <3>0, <4>2, <4>4, <4>5, <4>6
    <3>2. CASE j.owner # Node(n)
      <4>1. irqs'[Node(n)][0] = irqs[Node(n)][0]
        BY <2>5, <3>2, OwnerIs, NumbersAt
      <4>2. \A h \in Owners : Holds(job'[h], Node(n), 0) => job'[h] = job[h] /\ Holds(job[h], Node(n), 0)
        BY <2>2, <2>6, <3>2 DEF Holds
      <4>3. Locked(Node(n), 0) => Locked(Node(n), 0)'
        BY <1>1, <1>3, <2>6 DEF Locked
      <4> QED BY <1>5, <3>0, <4>1, <4>2, <4>3 DEF SpiOK
    <3> QED BY <3>1, <3>2
  <2>11. ASSUME OwnEnables, TimerOK PROVE TimerOK'
    <3> SUFFICES ASSUME NEW v \in Vcpus, irqs'[Vcpu(v)][Width - 1].enabled = 1
                 PROVE  hwen'[Vcpu(v)] \/ Holds(job'[Vcpu(v)], Vcpu(v), Width - 1)
      BY DEF TimerOK, Holds
    <3>1. CASE j.owner = Vcpu(v)
      <4>1. g = Vcpu(v)
        BY <1>1, <1>3, <2>11, <3>1, OwnEnabler
      <4>2. j.i = Width - 1
        BY <1>7, <3>1, OwnerIs DEF IsHw
      <4> QED BY <2>2, <2>6, <3>1, <4>1, <4>2 DEF Holds
    <3>2. CASE j.owner # Vcpu(v)
      <4>1. irqs'[Vcpu(v)][Width - 1] = irqs[Vcpu(v)][Width - 1] /\ Vcpu(v) \in Owners
        BY <2>5, <3>2, OwnerIs, NumbersAt
      <4>2. hwen[Vcpu(v)] \/ Holds(job[Vcpu(v)], Vcpu(v), Width - 1)
        BY <2>11, <4>1 DEF TimerOK
      <4>3. Vcpu(v) = g => ~Holds(job[Vcpu(v)], Vcpu(v), Width - 1)
        BY <1>1, <1>3 DEF Holds
      <4> QED BY <1>5, <2>6, <4>1, <4>2, <4>3
    <3> QED BY <3>1, <3>2
  <2> QED BY <2>9, <2>10, <2>11
<1> QED BY <1>6, <1>7

\* irq_enable and irq_disable.
LEMMA EnableHwHw ==
  ASSUME TypeOK, Works, LockOK, SpiOK, NEW g \in Owners, EnableHw(g)
  PROVE  LockOK' /\ SpiOK' /\ (OwnEnables /\ TimerOK => TimerOK')
<1>1. PICK j : j = job[g]
  OBVIOUS
<1>2. PICK n : n = NodeOfOwner(g)
  OBVIOUS
<1>3. j.at = "count" /\ irqs' = irqs /\ j.a.reg \in {"isenable", "icenable"} /\ version' = version
  BY <1>1, EnableHwAt DEF EnableHw, Same
<1>4. PICK c \in Int :
        /\ c = IF job[g].a.reg = "isenable" THEN job[g].seen + 1 ELSE job[g].seen - 1
        /\ count' = [count EXCEPT ![NodeOfOwner(g)][Kind(job[g].owner)] = c]
        /\ \E hw : /\ hw = IF Kind(job[g].owner) = "ppi" THEN Vcpu(CpuOf(g)) ELSE Node(NodeOfOwner(g))
                   /\ hwen' = IF job[g].a.reg = "isenable" THEN [hwen EXCEPT ![hw] = TRUE]
                              ELSE IF c = 0 THEN [hwen EXCEPT ![hw] = FALSE] ELSE hwen
  BY EnableHwAt, Zenon
<1>41. c = IF j.a.reg = "isenable" THEN j.seen + 1 ELSE j.seen - 1
  BY <1>1, <1>4
<1>42. count' = [count EXCEPT ![n][Kind(j.owner)] = c]
  BY <1>1, <1>2, <1>4
<1>5. PICK hw : /\ hw = IF Kind(j.owner) = "ppi" THEN Vcpu(CpuOf(g)) ELSE Node(n)
                /\ hwen' = IF j.a.reg = "isenable" THEN [hwen EXCEPT ![hw] = TRUE]
                           ELSE IF c = 0 THEN [hwen EXCEPT ![hw] = FALSE] ELSE hwen
  BY <1>1, <1>2, <1>4
<1>6. PICK k : Step(g, k) /\ k.at # "count"
  BY EnableHwAt
<1>7. /\ j \in Jobs /\ j.owner \in Owners /\ j.i \in Bits /\ NodeOfOwner(j.owner) = n /\ n \in Nodes
      /\ j.a.wr /\ IsHw(j.owner, j.i) /\ j.seen \in Int
  BY <1>1, <1>2, <1>3, JobIs, OwnerIs DEF Jobs, Stage
<1>8. job'[g] = k /\ \A h \in Owners \ {g} : job'[h] = job[h]
  BY <1>3, <1>6, StepKeeps
<1>9. \A h \in Owners : job'[h].at = "count" => h # g /\ job'[h] = job[h]
  BY <1>6, <1>8
<1>10. LockOK'
  <2>1. \A a, b \in Owners : \A o \in Owners : \A i \in Bits :
          Holds(job'[a], o, i) /\ Holds(job'[b], o, i) => a = b
    BY <1>9 DEF LockOK, Holds
  <2>2. \A h \in Owners : job'[h].at = "count" =>
          irqs'[job'[h].owner][job'[h].i].enabled = IF job'[h].a.reg = "isenable" THEN 1 ELSE 0
    BY <1>3, <1>9 DEF LockOK
  <2> QED BY <2>1, <2>2 DEF LockOK, Holds
<1>11. \A h \in Owners : Holds(job'[h], j.owner, j.i) => FALSE
  BY <1>1, <1>3, <1>7, <1>9 DEF LockOK, Holds
<1>12. \A o, i : o # j.owner => (Locked(o, i) => Locked(o, i)')
  BY <1>1, <1>8 DEF Locked
<1>13. count \in [Nodes -> [{"ppi", "spi"} -> Int]] /\ hwen \in [Owners -> BOOLEAN]
  BY DEF TypeOK
<1>14. \A m \in Nodes : count'[m]["spi"] = IF m = n /\ Kind(j.owner) = "spi" THEN c ELSE count[m]["spi"]
  BY <1>42, <1>7, <1>13 DEF Kind
<1>15. \A o \in Owners : o # hw => hwen'[o] = hwen[o]
  BY <1>5, <1>13
<1>16. hw \in Owners => hwen'[hw] = IF j.a.reg = "isenable" THEN TRUE ELSE IF c = 0 THEN FALSE ELSE hwen[hw]
  BY <1>5, <1>13
<1>17. SpiOK'
  <2> SUFFICES ASSUME NEW m \in Nodes
               PROVE  /\ hwen'[Node(m)] <=> count'[m]["spi"] = 1
                      /\ Locked(Node(m), 0)' \/ count'[m]["spi"] = irqs'[Node(m)][0].enabled
                      /\ \A h \in Owners : Holds(job'[h], Node(m), 0) =>
                           job'[h].seen = count'[m]["spi"] /\ job'[h].seen = 1 - irqs'[Node(m)][0].enabled
    BY DEF SpiOK, Holds
  <2>1. CASE j.owner = Node(m)
    <3>1. j.i = 0 /\ Kind(j.owner) = "spi" /\ m = n /\ hw = Node(m) /\ hw \in Owners
      BY <1>5, <1>7, <2>1, OwnerIs DEF IsHw, Kind
    <3>2. Holds(job[g], Node(m), 0)
      BY <1>1, <1>3, <2>1, <3>1 DEF Holds
    <3>3. /\ j.seen = 1 - irqs[Node(m)][0].enabled
          /\ irqs[Node(m)][0].enabled = IF j.a.reg = "isenable" THEN 1 ELSE 0
      BY <1>1, <1>3, <2>1, <3>1, <3>2 DEF SpiOK, LockOK
    <3>4. c = irqs[Node(m)][0].enabled /\ c \in {0, 1} /\ (c = 1 <=> j.a.reg = "isenable")
      <4>1. PICK e, s : e = irqs[Node(m)][0].enabled /\ s = j.seen
        OBVIOUS
      <4>2. CASE j.a.reg = "isenable"
        <5>1. e = 1 /\ s = 1 - e /\ c = s + 1
          BY <1>41, <3>3, <4>1, <4>2
        <5> QED BY <4>1, <4>2, <5>1
      <4>3. CASE j.a.reg # "isenable"
        <5>1. e = 0 /\ s = 1 - e /\ c = s - 1
          BY <1>41, <3>3, <4>1, <4>3
        <5> QED BY <4>1, <4>3, <5>1
      <4> QED BY <4>2, <4>3
    <3>5. \A h \in Owners : ~Holds(job'[h], Node(m), 0)
      BY <1>11, <2>1, <3>1
    <3> QED BY <1>3, <1>14, <1>16, <3>1, <3>4, <3>5
  <2>2. CASE j.owner # Node(m)
    <3>1. m # n \/ Kind(j.owner) = "ppi"
      BY <1>7, <2>2, OwnerIs DEF Kind, NodeOfOwner
    <3>2. count'[m]["spi"] = count[m]["spi"]
      BY <1>14, <3>1 DEF Kind
    <3>3. hw # Node(m) /\ Node(m) \in Owners
      BY <1>5, <3>1, OwnerIs DEF Kind
    <3>4. hwen'[Node(m)] = hwen[Node(m)]
      BY <1>15, <3>3
    <3>5. Locked(Node(m), 0) => Locked(Node(m), 0)'
      BY <1>12, <2>2
    <3>6. \A h \in Owners : Holds(job'[h], Node(m), 0) => job'[h] = job[h]
      BY <1>9 DEF Holds
    <3> QED BY <1>3, <3>2, <3>4, <3>5, <3>6 DEF SpiOK
  <2> QED BY <2>1, <2>2
<1>18. ASSUME OwnEnables, TimerOK PROVE TimerOK'
  <2> SUFFICES ASSUME NEW v \in Vcpus, irqs[Vcpu(v)][Width - 1].enabled = 1
               PROVE  hwen'[Vcpu(v)] \/ Holds(job'[Vcpu(v)], Vcpu(v), Width - 1)
    BY <1>3 DEF TimerOK, Holds
  <2>0. Vcpu(v) \in Owners
    BY OwnerIs
  <2>1. hwen[Vcpu(v)] \/ Holds(job[Vcpu(v)], Vcpu(v), Width - 1)
    BY <1>18 DEF TimerOK
  <2>2. CASE j.owner = Vcpu(v)
    <3>1. g = Vcpu(v)
      BY <1>1, <1>3, <1>7, <1>18, <2>2, OwnEnabler
    <3>2. hw = Vcpu(v) /\ j.i = Width - 1
      BY <1>5, <1>7, <2>2, <3>1, OwnerIs DEF CpuOf, Kind, IsHw
    <3>3. j.a.reg = "isenable"
      BY <1>1, <1>3, <2>2, <3>2 DEF LockOK
    <3> QED BY <1>16, <2>0, <3>2, <3>3
  <2>3. CASE j.owner # Vcpu(v)
    <3>1. hw # Vcpu(v)
      <4>1. CASE j.owner[1] = "vcpu"
        <5>1. PICK u \in Vcpus : j.owner = Vcpu(u)
          BY <1>7, <4>1, OwnerIs
        <5>2. g = Vcpu(u) /\ u # v
          BY <1>1, <1>3, <1>7, <1>18, <2>3, <5>1, OwnEnabler
        <5> QED BY <1>5, <5>1, <5>2, OwnerIs DEF CpuOf, Kind
      <4>2. CASE j.owner[1] # "vcpu"
        BY <1>5, <4>2, OwnerIs DEF Kind
      <4> QED BY <4>1, <4>2
    <3>2. hwen'[Vcpu(v)] = hwen[Vcpu(v)]
      BY <1>15, <2>0, <3>1
    <3>3. Holds(job[Vcpu(v)], Vcpu(v), Width - 1) => Vcpu(v) # g
      BY <1>1, <2>3 DEF Holds
    <3> QED BY <1>8, <2>0, <2>1, <3>2, <3>3
  <2> QED BY <2>2, <2>3
<1> QED BY <1>10, <1>17, <1>18

\* The route of the physical SPI follows the target that is set.
LEMMA RouteSet ==
  ASSUME TypeOK, RouteOK, NEW o \in Owners, NEW i \in Bits, NEW ts \in Nat,
         NEW t \in Vcpus \cup {NoVcpu}, SetTarget(o, i, NodeOfOwner(o), ts, t)
  PROVE  RouteOK'
<1>1. PICK n \in Nodes : n = NodeOfOwner(o) /\ SetTarget(o, i, n, ts, t)
  BY OwnerIs
<1>2. PICK r : r = [irqs[o][i] EXCEPT !.targets = ts, !.target = t]
  OBVIOUS
<1>21. Changed(o, i, r)
  BY <1>1, <1>2, SetTargetAt
<1>22. irqs'[o][i].target = t
  <2>1. irqs[o][i] \in Irqs
    BY DEF TypeOK
  <2>2. r.target = t
    BY <1>2, <2>1 DEF Irqs
  <2> QED BY <1>21, <2>2 DEF Changed
<1>3. \A p \in Owners : \A q \in Bits : p # o \/ q # i => irqs'[p][q] = irqs[p][q]
  BY <1>21 DEF Changed
<1>4. hwroute' = IF o[1] = "node" /\ IsHw(o, i)
                 THEN [hwroute EXCEPT ![n] = IF t = NoVcpu THEN NicCpu(n) ELSE t]
                 ELSE hwroute
  BY <1>1 DEF SetTarget
<1>5. DOMAIN hwroute = Nodes
  BY DEF TypeOK
<1> SUFFICES ASSUME NEW m \in Nodes
             PROVE  hwroute'[m] = IF irqs'[Node(m)][0].target = NoVcpu THEN NicCpu(m) ELSE irqs'[Node(m)][0].target
  BY DEF RouteOK
<1>6. Node(m) \in Owners /\ 0 \in Bits
  BY OwnerIs, NumbersAt
<1>7. CASE o = Node(m) /\ i = 0
  <2>1. n = m /\ o[1] = "node" /\ IsHw(o, i)
    BY <1>1, <1>7, OwnerIs DEF IsHw
  <2> QED BY <1>22, <1>4, <1>5, <1>7, <2>1
<1>8. CASE ~(o = Node(m) /\ i = 0)
  <2>1. irqs'[Node(m)][0] = irqs[Node(m)][0]
    BY <1>3, <1>6, <1>8
  <2>2. hwroute'[m] = hwroute[m]
    <3>1. CASE o[1] = "node" /\ IsHw(o, i)
      <4>1. i = 0 /\ o = Node(n)
        BY <1>1, <3>1, OwnerIs DEF IsHw
      <4>2. n # m
        BY <1>8, <4>1
      <4> QED BY <1>4, <1>5, <4>2
    <3>2. CASE ~(o[1] = "node" /\ IsHw(o, i))
      BY <1>4, <3>2
    <3> QED BY <3>1, <3>2
  <2> QED BY <2>1, <2>2 DEF RouteOK
<1> QED BY <1>7, <1>8

\* Where no target is set, the route stays.
LEMMA RouteKept ==
  ASSUME RouteOK, hwroute' = hwroute,
         \A n \in Nodes : irqs'[Node(n)][0].target = irqs[Node(n)][0].target
  PROVE  RouteOK'
BY DEF RouteOK

\* The physical interrupts over a step that takes and releases no lock and
\* leaves the state of the interrupts alone.
LEMMA HwQuiet ==
  ASSUME HwInv, NEW g \in Owners, NEW k, Step(g, k), version' = version, job[g].at # "count",
         k.at # "count", count' = count, hwen' = hwen, hwroute' = hwroute, irqs' = irqs
  PROVE  LockOK' /\ SpiOK' /\ RouteOK' /\ (TimerOK => TimerOK')
<1>1. TypeOK /\ Works /\ LockOK /\ SpiOK /\ RouteOK
  BY DEF HwInv
<1>2. LockOK' /\ SpiOK' /\ (TimerOK => TimerOK')
  BY <1>1, HwKept
<1>3. RouteOK'
  BY <1>1, RouteKept
<1> QED BY <1>2, <1>3

\* The actions of the specification.
LEMMA NextIs ==
  ASSUME Next
  PROVE  \/ \E v \in Vcpus : \E a \in Accesses[v] : Access(v, a)
         \/ \E n, m \in Nodes : Receive(n, m)
         \/ \E g \in Owners : Handler(g)
         \/ \E v \in Vcpus : RecvReply(v)
         \/ \E v \in Vcpus : Return(v)
<1>1. \A v \in Vcpus : Vcpu(v) \in Owners
  BY OwnerIs
<1>2. \A n \in Nodes : Node(n) \in Owners
  BY OwnerIs
<1> QED BY <1>1, <1>2, Zenon DEF Next, Work, Trap, Server

\* A target of an SPI is set.
LEMMA TargetHw ==
  ASSUME HwInv, NEW g \in Owners, NEW k, Step(g, k), version' = version, k.at # "count",
         job[g].at \in {"targets", "route"}, count' = count, hwen' = hwen,
         \/ irqs' = irqs /\ hwroute' = hwroute
         \/ \E i \in Bits : \E ts \in Nat : \E t \in Vcpus \cup {NoVcpu} :
              SetTarget(job[g].owner, i, NodeOfOwner(g), ts, t)
  PROVE  LockOK' /\ SpiOK' /\ RouteOK' /\ (TimerOK => TimerOK')
<1>1. TypeOK /\ Works /\ LockOK /\ SpiOK /\ RouteOK /\ job[g].at # "count"
  BY DEF HwInv
<1>2. CASE irqs' = irqs /\ hwroute' = hwroute
  BY <1>1, <1>2, HwQuiet
<1>3. ASSUME NEW i \in Bits, NEW ts \in Nat, NEW t \in Vcpus \cup {NoVcpu},
             SetTarget(job[g].owner, i, NodeOfOwner(g), ts, t)
      PROVE  LockOK' /\ SpiOK' /\ RouteOK' /\ (TimerOK => TimerOK')
  <2>1. PICK o \in Owners : o = job[g].owner /\ NodeOfOwner(g) = NodeOfOwner(o) /\ NodeOfOwner(o) \in Nodes
    BY <1>1, JobIs, OwnerIs
  <2>2. SetTarget(o, i, NodeOfOwner(o), ts, t)
    BY <1>3, <2>1
  <2>3. RouteOK'
    BY <1>1, <2>2, RouteSet
  <2>4. /\ Changed(o, i, [irqs[o][i] EXCEPT !.targets = ts, !.target = t])
        /\ irqs'[o][i].enabled = irqs[o][i].enabled
    BY <1>1, <2>1, <2>2, SetTargetAt
  <2>5. \A p \in Owners : \A q \in Bits : irqs'[p][q].enabled = irqs[p][q].enabled
    BY <2>4 DEF Changed
  <2>6. LockOK' /\ SpiOK' /\ (TimerOK => TimerOK')
    BY <1>1, <2>5, HwKept
  <2> QED BY <2>3, <2>6
<1> QED BY <1>2, <1>3

\* A handler keeps the invariant of the physical interrupts.
LEMMA HandlerHw ==
  ASSUME HwInv, NEW g \in Owners, Handler(g)
  PROVE  HwInv' /\ (OwnEnables /\ TimerOK => TimerOK')
<1>1. TypeOK /\ Works /\ LockOK /\ SpiOK /\ RouteOK
  BY DEF HwInv
<1>2. CASE Emulate(g)
  <2>1. TypeOK' /\ Works' /\ job[g].at = "do"
    BY <1>1, <1>2, EmulateAt
  <2>2. PICK k : Step(g, k) /\ k.at # "count"
    BY <1>1, <1>2, EmulateAt
  <2>3. version' = version /\ count' = count /\ hwen' = hwen /\ hwroute' = hwroute /\ irqs' = irqs
    BY <1>2 DEF Emulate, Same
  <2>4. LockOK' /\ SpiOK' /\ RouteOK' /\ (TimerOK => TimerOK')
    BY <2>1, <2>2, <2>3, HwQuiet
  <2> QED BY <2>1, <2>4 DEF HwInv
<1>3. CASE ReadBit(g)
  <2>1. TypeOK' /\ Works' /\ job[g].at = "loop"
    BY <1>1, <1>3, ReadBitAt
  <2>2. PICK k : Step(g, k) /\ k.at # "count"
    BY <1>1, <1>3, ReadBitAt
  <2>3. version' = version /\ count' = count /\ hwen' = hwen /\ hwroute' = hwroute /\ irqs' = irqs
    BY <1>3 DEF ReadBit, Same
  <2>4. LockOK' /\ SpiOK' /\ RouteOK' /\ (TimerOK => TimerOK')
    BY <2>1, <2>2, <2>3, HwQuiet
  <2> QED BY <2>1, <2>4 DEF HwInv
<1>4. CASE WriteBit(g)
  <2>1. TypeOK' /\ Works' /\ job[g].at = "loop"
    BY <1>1, <1>4, WriteBitAt
  <2>2. PICK k : Step(g, k) /\ k.at # "count"
    BY <1>1, <1>4, WriteBitAt
  <2>3. version' = version /\ count' = count /\ hwen' = hwen /\ hwroute' = hwroute
    BY <1>4 DEF WriteBit, Same
  <2>4. PICK o, i, r : /\ Changed(o, i, r)
                       /\ irqs'[o][i].enabled = irqs[o][i].enabled
                       /\ irqs'[o][i].target = irqs[o][i].target
    <3>1. PICK o, i, r : /\ o = job[g].owner /\ i = job[g].i
                         /\ r = [irqs[o][i] EXCEPT ![Loop[job[g].a.reg]] = job[g].val[i]]
      OBVIOUS
    <3>2. Changed(o, i, r)
      BY <1>1, <1>4, <3>1, WriteBitAt
    <3>3. /\ irqs'[o][i].enabled = irqs[o][i].enabled
          /\ irqs'[o][i].target = irqs[o][i].target
      BY <1>1, <1>4, <3>1, WriteBitAt
    <3> QED BY <3>2, <3>3
  <2>5. \A p \in Owners : \A q \in Bits : /\ irqs'[p][q].enabled = irqs[p][q].enabled
                                          /\ irqs'[p][q].target = irqs[p][q].target
    BY <2>4 DEF Changed
  <2>6. LockOK' /\ SpiOK' /\ (TimerOK => TimerOK')
    BY <1>1, <2>1, <2>2, <2>3, <2>5, HwKept
  <2>7. RouteOK'
    BY <1>1, <2>3, <2>5, RouteKept, OwnerIs, NumbersAt
  <2> QED BY <2>1, <2>6, <2>7 DEF HwInv
<1>5. CASE EnableBit(g)
  <2>1. TypeOK' /\ Works'
    BY <1>1, <1>5, EnableBitAt
  <2>2. LockOK' /\ SpiOK' /\ (OwnEnables /\ TimerOK => TimerOK')
    BY <1>1, <1>5, EnableBitHw
  <2>3. hwroute' = hwroute
    BY <1>5 DEF EnableBit
  <2>4. PICK o, i, b : Changed(o, i, [irqs[o][i] EXCEPT !.enabled = b]) /\ o \in Owners /\ i \in Bits
    <3>1. job[g].owner \in Owners /\ job[g].i \in Bits
      BY <1>1, <1>5, EnableBitAt, JobIs DEF Jobs
    <3> QED BY <1>1, <1>5, <3>1, EnableBitAt
  <2>5. irqs'[o][i].target = irqs[o][i].target
    <3>1. irqs[o][i] \in Irqs
      BY <1>1, <2>4 DEF TypeOK
    <3> QED BY <2>4, <3>1 DEF Changed, Irqs
  <2>6. \A p \in Owners : \A q \in Bits : irqs'[p][q].target = irqs[p][q].target
    BY <2>4, <2>5 DEF Changed
  <2>7. RouteOK'
    BY <1>1, <2>3, <2>6, RouteKept, OwnerIs, NumbersAt
  <2> QED BY <2>1, <2>2, <2>7 DEF HwInv
<1>6. CASE EnableHw(g)
  <2>1. TypeOK' /\ Works' /\ irqs' = irqs
    BY <1>1, <1>6, EnableHwAt
  <2>2. LockOK' /\ SpiOK' /\ (OwnEnables /\ TimerOK => TimerOK')
    BY <1>1, <1>6, EnableHwHw
  <2>3. hwroute' = hwroute
    BY <1>6 DEF EnableHw
  <2>4. RouteOK'
    BY <1>1, <2>1, <2>3, RouteKept
  <2> QED BY <2>1, <2>2, <2>4 DEF HwInv
<1>7. CASE TargetBit(g)
  <2>1. TypeOK' /\ Works' /\ job[g].at = "targets"
    BY <1>1, <1>7, TargetBitAt
  <2>2. PICK k : Step(g, k) /\ k.at # "count"
    BY <1>1, <1>7, TargetBitAt
  <2>3. version' = version /\ count' = count /\ hwen' = hwen
    BY <1>7 DEF TargetBit, Same
  <2>4. PICK i, ts, t : /\ i = job[g].i /\ ts = job[g].val[i]
                        /\ t = Local(NodeOfOwner(g), FirstTarget(job[g].val[i]))
    OBVIOUS
  <2>5. i \in Bits /\ ts \in Nat /\ t \in Vcpus \cup {NoVcpu}
    BY <1>1, <2>1, <2>4, JobIs, LocalIs, OwnerIs DEF Jobs, Vals
  <2>6. \/ irqs' = irqs /\ hwroute' = hwroute
        \/ SetTarget(job[g].owner, i, NodeOfOwner(g), ts, t)
    BY <1>1, <1>7, <2>4, TargetBitAt
  <2>7. LockOK' /\ SpiOK' /\ RouteOK' /\ (TimerOK => TimerOK')
    BY <2>1, <2>2, <2>3, <2>5, <2>6, TargetHw
  <2> QED BY <2>1, <2>7 DEF HwInv
<1>8. CASE Broadcast(g)
  <2>1. TypeOK' /\ Works' /\ job[g].at = "bcast"
    BY <1>1, <1>8, BroadcastAt
  <2>2. PICK k : Step(g, k) /\ k = [job[g] EXCEPT !.at = "end"]
    BY <1>1, <1>8, BroadcastAt
  <2>3. k.at # "count"
    BY <1>1, <2>1, <2>2, JobIs DEF Jobs
  <2>4. version' = version /\ count' = count /\ hwen' = hwen /\ hwroute' = hwroute /\ irqs' = irqs
    BY <1>8 DEF Broadcast, Same
  <2>5. LockOK' /\ SpiOK' /\ RouteOK' /\ (TimerOK => TimerOK')
    BY <2>1, <2>2, <2>3, <2>4, HwQuiet
  <2> QED BY <2>1, <2>5 DEF HwInv
<1>9. CASE Route(g)
  <2>1. TypeOK' /\ Works' /\ job[g].at = "route"
    BY <1>1, <1>9, RouteAt
  <2>2. PICK k : Step(g, k) /\ k.at = "end"
    BY <1>1, <1>9, RouteAt
  <2>3. version' = version /\ count' = count /\ hwen' = hwen
    BY <1>9 DEF Route, Same
  <2>4. \/ irqs' = irqs /\ hwroute' = hwroute
        \/ \E ts \in Nat : \E t \in Vcpus \cup {NoVcpu} :
             SetTarget(job[g].owner, 0, NodeOfOwner(g), ts, t)
    BY <1>1, <1>9, RouteAt
  <2>5. 0 \in Bits
    BY NumbersAt
  <2>6. LockOK' /\ SpiOK' /\ RouteOK' /\ (TimerOK => TimerOK')
    BY <2>1, <2>2, <2>3, <2>4, <2>5, TargetHw
  <2> QED BY <2>1, <2>6 DEF HwInv
<1> QED BY <1>2, <1>3, <1>4, <1>5, <1>6, <1>7, <1>8, <1>9 DEF Handler

\* Every step does.
LEMMA HwStep ==
  ASSUME HwInv, [Next]_vars
  PROVE  HwInv' /\ (OwnEnables /\ TimerOK => TimerOK')
<1>1. TypeOK /\ Works /\ LockOK /\ SpiOK /\ RouteOK
  BY DEF HwInv
<1>2. ASSUME NEW v \in Vcpus, NEW a \in Accesses[v], Access(v, a)
      PROVE  HwInv' /\ (OwnEnables /\ TimerOK => TimerOK')
  <2>1. TypeOK' /\ Works' /\ Vcpu(v) \in Owners
    BY <1>1, <1>2, AccessAt, OwnerIs
  <2>2. PICK k : /\ Step(Vcpu(v), k)
                 /\ k = [at |-> IF Away(v, a) THEN "wait" ELSE "do", a |-> a,
                         owner |-> OwnerOf(v, a), i |-> 0,
                         val |-> IF a.wr THEN a.val ELSE x[v], seen |-> 0, from |-> NoVcpu]
    BY <1>1, <1>2, AccessAt
  <2>3. k.at # "count"
    BY <2>2
  <2>4. /\ version' = version /\ count' = count /\ hwen' = hwen /\ hwroute' = hwroute /\ irqs' = irqs
        /\ job[Vcpu(v)].at # "count"
    BY <1>2 DEF Access
  <2>5. LockOK' /\ SpiOK' /\ RouteOK' /\ (TimerOK => TimerOK')
    BY <2>1, <2>2, <2>3, <2>4, HwQuiet
  <2> QED BY <2>1, <2>5 DEF HwInv
<1>3. ASSUME NEW n \in Nodes, NEW m \in Nodes, Receive(n, m)
      PROVE  HwInv' /\ (OwnEnables /\ TimerOK => TimerOK')
  <2>1. TypeOK' /\ Works' /\ Node(n) \in Owners
    BY <1>1, <1>3, ReceiveAt, OwnerIs
  <2>2. PICK msg \in GoodMsg(m, n) : \E k :
              /\ msg = Head(net[<<m, n>>]) /\ Step(Node(n), k)
              /\ msg.type = "request" =>
                   k = [at |-> "do", a |-> msg.a, owner |-> Vcpu(msg.a.vcpu), i |-> 0,
                        val |-> msg.val, seen |-> 0, from |-> msg.from]
              /\ msg.type = "config" =>
                   k = [at |-> "targets", a |-> msg.a, owner |-> Node(n), i |-> 0,
                        val |-> msg.val, seen |-> 0, from |-> NoVcpu]
    BY <1>1, <1>3, ReceiveAt
  <2>3. PICK k : Step(Node(n), k) /\ k.at # "count"
    BY <2>2 DEF GoodMsg, Msgs
  <2>4. /\ version' = version /\ count' = count /\ hwen' = hwen /\ hwroute' = hwroute /\ irqs' = irqs
        /\ job[Node(n)].at # "count"
    BY <1>3 DEF Receive, Same, Takes
  <2>5. LockOK' /\ SpiOK' /\ RouteOK' /\ (TimerOK => TimerOK')
    BY <2>1, <2>2, <2>3, <2>4, HwQuiet
  <2> QED BY <2>1, <2>5 DEF HwInv
<1>4. ASSUME NEW v \in Vcpus, RecvReply(v)
      PROVE  HwInv' /\ (OwnEnables /\ TimerOK => TimerOK')
  <2>1. TypeOK' /\ Works' /\ Vcpu(v) \in Owners /\ job[Vcpu(v)].at = "wait"
    BY <1>1, <1>4, RecvReplyAt, OwnerIs
  <2>2. PICK k : Step(Vcpu(v), k) /\ k = [job[Vcpu(v)] EXCEPT !.at = "end", !.val = reply[v][1]]
    BY <1>1, <1>4, RecvReplyAt
  <2>3. k.at # "count"
    BY <1>1, <2>1, <2>2, JobIs DEF Jobs
  <2>4. version' = version /\ count' = count /\ hwen' = hwen /\ hwroute' = hwroute /\ irqs' = irqs
    BY <1>4 DEF RecvReply, Same
  <2>5. LockOK' /\ SpiOK' /\ RouteOK' /\ (TimerOK => TimerOK')
    BY <2>1, <2>2, <2>3, <2>4, HwQuiet
  <2> QED BY <2>1, <2>5 DEF HwInv
<1>5. ASSUME NEW v \in Vcpus, Return(v)
      PROVE  HwInv' /\ (OwnEnables /\ TimerOK => TimerOK')
  <2>1. TypeOK' /\ Works' /\ Vcpu(v) \in Owners /\ job[Vcpu(v)].at = "end" /\ Step(Vcpu(v), Idle)
    BY <1>1, <1>5, ReturnAt, OwnerIs
  <2>2. Idle.at # "count"
    BY DEF Idle
  <2>3. version' = version /\ count' = count /\ hwen' = hwen /\ hwroute' = hwroute /\ irqs' = irqs
    BY <1>5 DEF Return, Same
  <2>4. LockOK' /\ SpiOK' /\ RouteOK' /\ (TimerOK => TimerOK')
    BY <2>1, <2>2, <2>3, HwQuiet
  <2> QED BY <2>1, <2>4 DEF HwInv
<1>6. CASE UNCHANGED vars
  <2>1. TypeOK'
    BY <1>1, <1>6 DEF TypeOK, vars
  <2>2. Works'
    BY <1>1, <1>6, Fixed DEF Works, vars
  <2>3. LockOK' /\ SpiOK' /\ RouteOK' /\ (TimerOK => TimerOK')
    BY <1>1, <1>6 DEF LockOK, SpiOK, RouteOK, TimerOK, Locked, Holds, vars
  <2> QED BY <2>1, <2>2, <2>3 DEF HwInv
<1>7. CASE Next
  BY <1>2, <1>3, <1>4, <1>5, <1>7, NextIs, HandlerHw
<1> QED BY <1>6, <1>7

\* The initial states satisfy it: nothing is locked, counted or enabled but
\* SGIs, and the SPI goes to the first cpu.
LEMMA HwInit ==
  Init => HwInv /\ TimerOK
<1> SUFFICES ASSUME Init PROVE HwInv /\ TimerOK
  OBVIOUS
<1>1. TypeOK /\ Works
  BY InitAt
<1>2. \A g \in Owners : job[g].at = "idle"
  BY DEF Init, Idle
<1>3. \A n \in Nodes : Node(n) \in Owners /\ Node(n)[1] = "node"
  BY OwnerIs
<1>4. \A v \in Vcpus : Vcpu(v) \in Owners /\ Vcpu(v)[1] = "vcpu"
  BY OwnerIs
<1>5. \A n \in Nodes : irqs[Node(n)][0].enabled = 0 /\ irqs[Node(n)][0].target = NoVcpu
  BY <1>3, NumbersAt DEF Init
<1>6. \A v \in Vcpus : irqs[Vcpu(v)][Width - 1].enabled = 0
  BY <1>4, NumbersAt DEF Init
<1>7. \A n \in Nodes : ~hwen[Node(n)] /\ count[n]["spi"] = 0 /\ hwroute[n] = NicCpu(n)
  BY <1>3 DEF Init
<1>8. LockOK
  BY <1>2 DEF LockOK, Holds
<1>9. SpiOK
  BY <1>2, <1>3, <1>5, <1>7 DEF SpiOK, Holds
<1>10. RouteOK
  BY <1>5, <1>7 DEF RouteOK
<1>11. TimerOK
  BY <1>6 DEF TimerOK
<1> QED BY <1>1, <1>8, <1>9, <1>10, <1>11 DEF HwInv

\* Type correctness: an interrupt is enabled or not, its target is a vCPU or
\* none, and a handler works on a register of its own node's.
THEOREM GicTypes == Spec => [](TypeOK /\ Works)
<1>1. Init => HwInv
  BY HwInit
<1>2. HwInv /\ [Next]_vars => HwInv'
  BY HwStep
<1>3. HwInv => TypeOK /\ Works
  BY DEF HwInv
<1> QED BY <1>1, <1>2, <1>3, PTL DEF Spec

\* The lock of an interrupt excludes, whoever takes it: a handler of a vCPU, or
\* the server of the node for a request.
THEOREM OneHolder == Spec => []LockOK
<1>1. Init => HwInv
  BY HwInit
<1>2. HwInv /\ [Next]_vars => HwInv'
  BY HwStep
<1>3. HwInv => LockOK
  BY DEF HwInv
<1> QED BY <1>1, <1>2, <1>3, PTL DEF Spec

\* The physical SPI follows the virtual one, whatever the guest does.
THEOREM SpiFollows ==
  Spec => [](\A n \in Nodes :
               /\ Locked(Node(n), 0) \/ (hwen[Node(n)] <=> irqs[Node(n)][0].enabled = 1)
               /\ hwroute[n] = IF irqs[Node(n)][0].target = NoVcpu THEN NicCpu(n)
                               ELSE irqs[Node(n)][0].target)
<1> DEFINE Follows ==
      \A n \in Nodes :
               /\ Locked(Node(n), 0) \/ (hwen[Node(n)] <=> irqs[Node(n)][0].enabled = 1)
               /\ hwroute[n] = IF irqs[Node(n)][0].target = NoVcpu THEN NicCpu(n)
                               ELSE irqs[Node(n)][0].target
<1>1. Init => HwInv
  BY HwInit
<1>2. HwInv /\ [Next]_vars => HwInv'
  BY HwStep
<1>3. HwInv => Follows
  BY DEF HwInv, SpiOK, RouteOK
<1> QED BY <1>1, <1>2, <1>3, PTL DEF Spec

\* HwFollows: where every vCPU writes the enables of its own redistributor only,
\* its timer does too, whatever the unlocked count has come to.
THEOREM PhysicalFollows ==
  ASSUME OwnEnables PROVE Spec => []HwFollows
<1>1. Init => HwInv /\ TimerOK
  BY HwInit
<1>2. HwInv /\ TimerOK /\ [Next]_vars => HwInv' /\ TimerOK'
  BY HwStep
<1>3. ASSUME HwInv, TimerOK PROVE HwFollows
  <2>1. SpiOK /\ RouteOK
    BY <1>3 DEF HwInv
  <2>2. ASSUME NEW v \in Vcpus, Holds(job[Vcpu(v)], Vcpu(v), Width - 1)
        PROVE  Locked(Vcpu(v), Width - 1)
    BY <2>2, OwnerIs DEF Holds, Locked
  <2>3. \A n \in Nodes : \A v \in VcpusOf[n] :
          irqs[Vcpu(v)][Width - 1].enabled = 1 => hwen[Vcpu(v)] \/ Locked(Vcpu(v), Width - 1)
    BY <1>3, <2>2, NodeOfIs DEF TimerOK
  <2>4. \A n \in Nodes : Locked(Node(n), 0) \/ (hwen[Node(n)] <=> irqs[Node(n)][0].enabled = 1)
    BY <2>1 DEF SpiOK
  <2>5. \A n \in Nodes : hwroute[n] = IF irqs[Node(n)][0].target = NoVcpu THEN NicCpu(n)
                                      ELSE irqs[Node(n)][0].target
    BY <2>1 DEF RouteOK
  <2> QED BY <2>3, <2>4, <2>5, Zenon DEF HwFollows
<1> QED BY <1>1, <1>2, <1>3, PTL DEF Spec

-----------------------------------------------------------------------------
(* The targets of the SPIs.                                                *)

\* With GICv2 nothing is forwarded, and a server only serves broadcasts.
LEMMA TwoIs ==
  ASSUME TypeOK, Works, version = 2
  PROVE  /\ \A n \in Nodes : job[Node(n)].at # "idle" =>
              /\ job[Node(n)].at = "targets" /\ job[Node(n)].owner = Node(n) /\ job[Node(n)].a.wr
              /\ job[Node(n)] \in Jobs
         /\ \A m, n \in Nodes : /\ net[<<m, n>>] \in Seq(GoodMsg(m, n))
                                /\ \A msg \in GoodMsg(m, n) : msg.type = "config"
<1>1. \A v, a : ~Away(v, a)
  BY DEF Away
<1>2. ASSUME NEW n \in Nodes, job[Node(n)].at # "idle"
      PROVE  /\ job[Node(n)].at = "targets" /\ job[Node(n)].owner = Node(n) /\ job[Node(n)].a.wr
             /\ job[Node(n)] \in Jobs
  <2>1. PICK g \in Owners : g = Node(n) /\ g[1] = "node"
    BY OwnerIs
  <2>2. job[g] \in Jobs /\ (TrapJob(g, job[g]) \/ RequestJob(g, job[g]) \/ ConfigJob(g, job[g]))
    BY <1>2, <2>1, JobIs
  <2>3. ConfigJob(g, job[g])
    BY <1>1, <2>1, <2>2 DEF TrapJob, RequestJob
  <2> QED BY <2>1, <2>2, <2>3 DEF ConfigJob, Config, Targeting
<1>3. \A m, n \in Nodes : \A msg \in GoodMsg(m, n) : msg.type = "config"
  BY <1>1 DEF GoodMsg, RequestMsg, ConfigMsg
<1> QED BY <1>2, <1>3 DEF Works

\* A vCPU's step that is not about ITARGETSR of SPIs.
LEMMA TellKept ==
  ASSUME TypeOK, Works, NEW w \in Vcpus, TellOK(w), NEW v \in Vcpus, NEW k, Step(Vcpu(v), k),
         version' = version, version = 2 => net' = net,
         job[Vcpu(v)].at \in {"targets", "bcast"} => ~Targeting(job[Vcpu(v)].a),
         k.at \in {"targets", "bcast"} => ~Targeting(k.a),
         \A n \in Nodes : \A i \in Bits : /\ irqs'[Node(n)][i].targets = irqs[Node(n)][i].targets
                                          /\ irqs'[Node(n)][i].target = irqs[Node(n)][i].target
  PROVE  TellOK(w)'
<1> SUFFICES ASSUME version = 2
             PROVE  (\A n \in Nodes : Agree(n)') /\ Silent(w)' /\ Serving(w)' /\ Speaking(w)' /\ Told(w)'
  BY DEF TellOK
<1>1. (\A n \in Nodes : Agree(n)) /\ Silent(w) /\ Serving(w) /\ Speaking(w) /\ Told(w)
  BY DEF TellOK
<1>2. Vcpu(v) \in Owners /\ Vcpu(w) \in Owners /\ NodeOf(w) \in Nodes
  BY OwnerIs, NodeOfIs
<1>3. job'[Vcpu(v)] = k /\ \A h \in Owners \ {Vcpu(v)} : job'[h] = job[h]
  BY <1>2, StepKeeps
<1>4. \A n \in Nodes : job'[Node(n)] = job[Node(n)]
  BY <1>3, OwnerIs
<1>5. Telling(w)' <=> Telling(w)
  <2>1. CASE v = w
    BY <1>3, <2>1 DEF Telling, Targeting
  <2>2. CASE v # w
    <3>1. Vcpu(w) # Vcpu(v)
      BY <2>2, OwnerIs
    <3> QED BY <1>2, <1>3, <3>1 DEF Telling, Targeting
  <2> QED BY <2>1, <2>2
<1>6. Telling(w) => job'[Vcpu(w)] = job[Vcpu(w)]
  <2>1. Telling(w) => Vcpu(v) # Vcpu(w)
    BY DEF Telling
  <2> QED BY <1>2, <1>3, <2>1
<1>7. \A n \in Nodes : Agree(n)'
  BY <1>1 DEF Agree
<1>8. Silent(w)'
  BY <1>1 DEF Silent
<1>9. Serving(w)'
  BY <1>1, <1>4 DEF Serving, Written
<1>10. Speaking(w)'
  BY <1>1, <1>2, <1>5, <1>6 DEF Speaking, Written
<1>11. Told(w)'
  BY <1>1, <1>2, <1>4, <1>5 DEF Told, Coming
<1> QED BY <1>7, <1>8, <1>9, <1>10, <1>11

\* The server of another node takes a broadcast.
LEMMA TellReceive ==
  ASSUME TypeOK, Works, NEW w \in Vcpus, TellOK(w), NEW n \in Nodes, NEW m \in Nodes, Receive(n, m)
  PROVE  TellOK(w)'
<1> DEFINE h == NodeOf(w)
<1>0. version' = version /\ irqs' = irqs
  BY DEF Receive, Same
<1> SUFFICES ASSUME version = 2
             PROVE  (\A l \in Nodes : Agree(l)') /\ Silent(w)' /\ Serving(w)' /\ Speaking(w)' /\ Told(w)'
  BY <1>0 DEF TellOK
<1>1. (\A l \in Nodes : Agree(l)) /\ Silent(w) /\ Serving(w) /\ Speaking(w) /\ Told(w)
  BY DEF TellOK
<1>2. Node(n) \in Owners /\ Vcpu(w) \in Owners /\ h \in Nodes
  BY OwnerIs, NodeOfIs
<1>3. net[<<m, n>>] # << >> /\ net' = [net EXCEPT ![<<m, n>>] = Tail(@)]
  BY ReceiveAt
<1>4. m = h /\ n # h
  BY <1>1, <1>3 DEF Silent
<1>5. PICK q : q = net[<<h, n>>] /\ q # << >> /\ q \in Seq(GoodMsg(h, n))
  BY <1>2, <1>3, <1>4 DEF Works
<1>6. /\ Head(q) = q[1] /\ Head(q) \in GoodMsg(h, n) /\ Len(q) \in Nat /\ Len(q) >= 1
      /\ Len(Tail(q)) = Len(q) - 1 /\ Tail(q) \in Seq(GoodMsg(h, n))
      /\ \A k \in 1..(Len(q) - 1) : Tail(q)[k] = q[k + 1]
  BY <1>5, TakeAt
<1>7. \A a, b \in Nodes : net'[<<a, b>>] = IF a = h /\ b = n THEN Tail(q) ELSE net[<<a, b>>]
  BY <1>3, <1>4, <1>5 DEF TypeOK
<1>8. Head(q).type = "config"
  BY <1>2, <1>6, TwoIs
<1>9. PICK k : Step(Node(n), k) /\ k.at = "targets" /\ k.i = 0 /\ k.val = q[1].val
  <2>1. PICK msg \in GoodMsg(m, n) : \E k :
              /\ msg = Head(net[<<m, n>>]) /\ Step(Node(n), k)
              /\ msg.type = "request" =>
                   k = [at |-> "do", a |-> msg.a, owner |-> Vcpu(msg.a.vcpu), i |-> 0,
                        val |-> msg.val, seen |-> 0, from |-> msg.from]
              /\ msg.type = "config" =>
                   k = [at |-> "targets", a |-> msg.a, owner |-> Node(n), i |-> 0,
                        val |-> msg.val, seen |-> 0, from |-> NoVcpu]
    BY ReceiveAt
  <2>2. msg = q[1] /\ msg.type = "config"
    BY <1>4, <1>5, <1>6, <1>8, <2>1
  <2> QED BY <2>1, <2>2
<1>10. job'[Node(n)] = k /\ \A g \in Owners \ {Node(n)} : job'[g] = job[g]
  BY <1>0, <1>2, <1>9, StepKeeps
<1>11. job'[Vcpu(w)] = job[Vcpu(w)] /\ \A l \in Nodes \ {n} : job'[Node(l)] = job[Node(l)]
  BY <1>2, <1>10, OwnerIs
<1> HIDE DEF h
<1>12. \A l \in Nodes : Agree(l)'
  BY <1>0, <1>1 DEF Agree
<1>13. Silent(w)'
  BY <1>1, <1>4, <1>7 DEF Silent, h
<1>14. Serving(w)'
  <2> SUFFICES ASSUME NEW l \in Nodes, job'[Node(l)].at # "idle"
               PROVE  /\ l # h /\ job'[Node(l)].at = "targets"
                      /\ \A i \in Bits : i < job'[Node(l)].i => irqs'[Node(l)][i].targets = job'[Node(l)].val[i]
    BY DEF Serving, Written, h
  <2>1. CASE l = n
    BY <1>4, <1>9, <1>10, <2>1, NumbersAt
  <2>2. CASE l # n
    BY <1>0, <1>1, <1>11, <2>2 DEF Serving, Written, h
  <2> QED BY <2>1, <2>2
<1>15. Speaking(w)'
  BY <1>0, <1>1, <1>11 DEF Speaking, Telling, Written
<1>16. ASSUME NEW i \in Bits PROVE Coming(n, h, i)' = Coming(n, h, i)
  <2>0. Coming(n, h, i) = q[Len(q)].val[i]
    BY <1>5 DEF Coming
  <2>1. CASE Len(q) = 1
    <3>1. Tail(q) = << >>
      BY <1>6, <2>1, EmptySeq
    <3>2. net'[<<h, n>>] = << >> /\ job'[Node(n)].at = "targets" /\ job'[Node(n)].val = q[1].val
      BY <1>2, <1>7, <1>9, <1>10, <3>1
    <3> QED BY <2>0, <2>1, <3>2 DEF Coming
  <2>2. CASE Len(q) # 1
    <3>0. Len(Tail(q)) # 0
      BY <1>6, <2>2
    <3>1. Tail(q) # << >> /\ Tail(q)[Len(Tail(q))] = q[Len(q)]
      <4>1. Tail(q) # << >>
        BY <1>6, <3>0, EmptySeq
      <4>2. Tail(q)[Len(q) - 1] = q[(Len(q) - 1) + 1]
        BY <1>6, <2>2
      <4>3. (Len(q) - 1) + 1 = Len(q)
        BY <1>6
      <4> QED BY <1>6, <4>1, <4>2, <4>3
    <3>2. net'[<<h, n>>] = Tail(q)
      BY <1>2, <1>7
    <3> QED BY <2>0, <3>1, <3>2 DEF Coming
  <2> QED BY <2>1, <2>2
<1>17. \A l \in Nodes \ {n} : \A i \in Bits : Coming(l, h, i)' = Coming(l, h, i)
  BY <1>0, <1>2, <1>7, <1>11 DEF Coming
<1>18. Told(w)'
  <2>1. Telling(w)' <=> Telling(w)
    BY <1>11 DEF Telling
  <2> QED BY <1>0, <1>1, <1>16, <1>17, <2>1 DEF Told, h
<1> QED BY <1>12, <1>13, <1>14, <1>15, <1>18

\* The broadcast.
LEMMA TellBroadcast ==
  ASSUME TypeOK, Works, NEW w \in Vcpus, Writer(w), TellOK(w), NEW g \in Owners, Broadcast(g)
  PROVE  TellOK(w)'
<1> DEFINE h == NodeOf(w)
<1>0. version' = version /\ irqs' = irqs /\ version = 2 /\ job[g].at = "bcast" /\ g[1] = "vcpu" /\ Targeting(job[g].a)
  BY BroadcastAt DEF Broadcast, Same
<1> SUFFICES (\A l \in Nodes : Agree(l)') /\ Silent(w)' /\ Serving(w)' /\ Speaking(w)' /\ Told(w)'
  BY <1>0 DEF TellOK
<1>1. (\A l \in Nodes : Agree(l)) /\ Silent(w) /\ Serving(w) /\ Speaking(w) /\ Told(w)
  BY <1>0 DEF TellOK
<1>2. g = Vcpu(w) /\ NodeOfOwner(g) = h /\ h \in Nodes
  <2>1. PICK v \in Vcpus : g = Vcpu(v) /\ g[2] = v
    BY <1>0, OwnerIs
  <2>2. job[g].a \in Accesses[v]
    <3>1. TrapJob(g, job[g])
      BY <1>0, JobIs DEF RequestJob, ConfigJob
    <3> QED BY <2>1, <3>1 DEF TrapJob
  <2> QED BY <1>0, <2>1, <2>2, OwnerIs, NodeOfIs DEF Writer
<1>3. PICK j : j = job[g] /\ j \in Jobs
  BY DEF TypeOK
<1>4. PICK k : Step(g, k) /\ k = [j EXCEPT !.at = "end"]
  BY <1>3, BroadcastAt
<1>5. k.at = "end" /\ job'[g] = k /\ \A o \in Owners \ {g} : job'[o] = job[o]
  BY <1>0, <1>3, <1>4, StepKeeps DEF Jobs
<1>6. \A n \in Nodes : job'[Node(n)] = job[Node(n)]
  BY <1>2, <1>5, OwnerIs
<1>7. PICK msg \in Msgs :
        /\ msg = [type |-> "config", a |-> job[g].a, val |-> job[g].val, from |-> NoVcpu]
        /\ \A m, n \in Nodes : net'[<<m, n>>] =
             IF m = NodeOfOwner(g) /\ n # m THEN Append(net[<<m, n>>], msg) ELSE net[<<m, n>>]
  BY BroadcastAt
<1>8. msg.val = j.val
  BY <1>3, <1>7
<1>9. \A m, n \in Nodes : net'[<<m, n>>] = IF m = h /\ n # h THEN Append(net[<<m, n>>], msg) ELSE net[<<m, n>>]
  BY <1>2, <1>7
<1>10. \A i \in Bits : irqs[Node(h)][i].targets = j.val[i]
  BY <1>0, <1>1, <1>2, <1>3 DEF Speaking, Telling
<1>11. \A n \in Nodes : Agree(n)'
  BY <1>0, <1>1 DEF Agree
<1> HIDE DEF h
<1>12. Silent(w)'
  BY <1>1, <1>9 DEF Silent, h
<1>13. Serving(w)'
  BY <1>0, <1>1, <1>6 DEF Serving, Written
<1>14. ~Telling(w)'
  BY <1>2, <1>5 DEF Telling
<1>15. Speaking(w)'
  BY <1>14 DEF Speaking
<1>16. ASSUME NEW n \in Nodes \ {h}, NEW i \in Bits PROVE Coming(n, h, i)' = irqs'[Node(h)][i].targets
  <2>1. PICK q \in Seq(Msgs) : q = net[<<h, n>>]
    BY <1>2 DEF TypeOK
  <2>2. net'[<<h, n>>] = Append(q, msg)
    BY <1>2, <1>9, <1>16, <2>1
  <2>3. Append(q, msg) # << >> /\ Append(q, msg)[Len(Append(q, msg))] = msg
    BY <2>1
  <2>4. Coming(n, h, i)' = msg.val[i]
    BY <2>2, <2>3 DEF Coming
  <2> QED BY <1>0, <1>8, <1>10, <2>4
<1>17. Told(w)'
  BY <1>16 DEF Told, h
<1> QED BY <1>11, <1>12, <1>13, <1>15, <1>17

\* Only w writes ITARGETSR of SPIs.
LEMMA TellerIs ==
  ASSUME TypeOK, Works, NEW w \in Vcpus, Writer(w), NEW v \in Vcpus, job[Vcpu(v)].at # "idle",
         Targeting(job[Vcpu(v)].a)
  PROVE  v = w /\ job[Vcpu(v)].owner = Node(NodeOf(w))
<1>1. PICK g \in Owners : g = Vcpu(v) /\ g[1] = "vcpu" /\ g[2] = v
  BY OwnerIs
<1>2. TrapJob(g, job[g])
  BY <1>1, JobIs DEF RequestJob, ConfigJob
<1>3. job[g].a \in Accesses[v] /\ job[g].owner = OwnerOf(v, job[g].a)
  BY <1>1, <1>2 DEF TrapJob
<1>4. v = w
  BY <1>1, <1>3 DEF Writer
<1>5. OwnerOf(v, job[g].a) = Node(NodeOf(v))
  BY <1>1 DEF OwnerOf, Targeting
<1> QED BY <1>1, <1>3, <1>4, <1>5

\* The dispatch of an access of w to ITARGETSR.
LEMMA TellEmulate ==
  ASSUME TypeOK, Works, NEW w \in Vcpus, Writer(w), TellOK(w), NEW g \in Owners, Emulate(g)
  PROVE  TellOK(w)'
<1>0. version' = version /\ irqs' = irqs /\ net' = net /\ job[g].at = "do"
  BY EmulateAt DEF Emulate, Same
<1> SUFFICES ASSUME version = 2 PROVE TellOK(w)'
  BY <1>0 DEF TellOK
<1>1. PICK v \in Vcpus : g = Vcpu(v) /\ g[1] = "vcpu"
  BY <1>0, TwoIs, OwnerIs
<1>2. PICK j : j = job[g] /\ j \in Jobs
  BY DEF TypeOK
<1>3. PICK k : /\ Step(g, k)
               /\ \/ k = j
                  \/ \E val \in Vals : Answered(g, k, val)
                  \/ \E out \in {"loop", "targets", "route"} : k = [j EXCEPT !.at = out]
  BY <1>2, EmulateAt
<1>4. /\ k.at \in {"targets", "bcast"} => k.at = "targets" /\ k.a = j.a /\ k.i = j.i /\ k.val = j.val
  <2>1. CASE k = j
    BY <1>0, <1>2, <2>1
  <2>2. ASSUME NEW val \in Vals, Answered(g, k, val) PROVE k.at = "end"
    BY <1>1, <1>2, <2>2 DEF Answered, Jobs
  <2>3. ASSUME NEW out \in {"loop", "targets", "route"}, k = [j EXCEPT !.at = out]
        PROVE  k.at = out /\ k.a = j.a /\ k.i = j.i /\ k.val = j.val
    BY <1>2, <2>3 DEF Jobs
  <2> QED BY <1>3, <2>1, <2>2, <2>3
<1>5. CASE ~(k.at \in {"targets", "bcast"} /\ Targeting(j.a))
  <2>1. job[Vcpu(v)].at \in {"targets", "bcast"} => ~Targeting(job[Vcpu(v)].a)
    BY <1>0, <1>1
  <2>2. k.at \in {"targets", "bcast"} => ~Targeting(k.a)
    BY <1>4, <1>5
  <2>3. \A n \in Nodes : \A i \in Bits : /\ irqs'[Node(n)][i].targets = irqs[Node(n)][i].targets
                                         /\ irqs'[Node(n)][i].target = irqs[Node(n)][i].target
    BY <1>0
  <2> QED BY <1>0, <1>1, <1>3, <2>1, <2>2, <2>3, TellKept
<1>6. CASE k.at \in {"targets", "bcast"} /\ Targeting(j.a)
  <2>1. v = w
    BY <1>0, <1>1, <1>2, <1>6, TellerIs
  <2>2. (\A n \in Nodes : Agree(n)) /\ Silent(w) /\ Serving(w) /\ Speaking(w) /\ Told(w)
    BY DEF TellOK
  <2>3. job'[g] = k /\ \A h \in Owners \ {g} : job'[h] = job[h]
    BY <1>0, <1>3, StepKeeps
  <2>4. \A n \in Nodes : job'[Node(n)] = job[Node(n)]
    BY <1>1, <2>3, OwnerIs
  <2>5. k.at = "targets" /\ k.a = j.a /\ k.i = 0
    <3>1. j.i = 0
      BY <1>0, <1>2, JobIs DEF Stage
    <3> QED BY <1>4, <1>6, <3>1
  <2>6. (\A n \in Nodes : Agree(n)') /\ Silent(w)'
    BY <1>0, <2>2 DEF Agree, Silent
  <2>7. Serving(w)'
    BY <1>0, <2>2, <2>4 DEF Serving, Written
  <2>8. job'[Vcpu(w)].at = "targets" /\ job'[Vcpu(w)].i = 0 /\ Targeting(job'[Vcpu(w)].a)
    BY <1>1, <1>6, <2>1, <2>3, <2>5
  <2>9. Written(NodeOf(w), job[Vcpu(w)])'
    BY <2>8, NumbersAt DEF Written
  <2>10. Telling(w)'
    BY <2>8 DEF Telling, Targeting
  <2>11. Speaking(w)' /\ Told(w)'
    BY <2>8, <2>9, <2>10 DEF Speaking, Told
  <2> QED BY <2>6, <2>7, <2>11 DEF TellOK
<1> QED BY <1>5, <1>6

\* vgic_v2_set_targets on an SPI of its node.
LEMMA WriteTarget ==
  ASSUME TypeOK, Works, NEW g \in Owners, TargetBit(g), job[g].a.wr,
         NEW n \in Nodes, n = NodeOfOwner(g), job[g].owner = Node(n)
  PROVE  /\ irqs'[Node(n)][job[g].i].targets = job[g].val[job[g].i]
         /\ \A m \in Nodes : \A i \in Bits : m # n \/ i # job[g].i => irqs'[Node(m)][i] = irqs[Node(m)][i]
         /\ (\A m \in Nodes : Agree(m)) => \A m \in Nodes : Agree(m)'
<1>1. PICK j : j = job[g] /\ j \in Jobs
  BY DEF TypeOK
<1>2. PICK i, ts, t : i = j.i /\ ts = j.val[i] /\ t = Local(n, FirstTarget(ts))
  OBVIOUS
<1>3. i \in Bits /\ ts \in Nat /\ t \in Vcpus \cup {NoVcpu}
  BY <1>1, <1>2, LocalIs DEF Jobs, Vals
<1>4. PICK o \in Owners : o = Node(n)
  BY OwnerIs
<1>5. SetTarget(o, i, n, ts, t)
  BY <1>1, <1>2, <1>4, TargetBitAt
<1>6. irqs'[o][i].targets = ts /\ irqs'[o][i].target = t
  BY <1>3, <1>5, SetTargetAt, Zenon
<1>7. PICK r : r = [irqs[o][i] EXCEPT !.targets = ts, !.target = t]
  OBVIOUS
<1>8. Changed(o, i, r)
  BY <1>3, <1>5, <1>7, SetTargetAt
<1>9. \A m \in Nodes : \A q \in Bits : m # n \/ q # i => irqs'[Node(m)][q] = irqs[Node(m)][q]
  BY <1>4, <1>8, OwnerIs DEF Changed
<1>10. ASSUME \A m \in Nodes : Agree(m), NEW m \in Nodes PROVE Agree(m)'
  <2> SUFFICES ASSUME NEW q \in Bits
               PROVE  irqs'[Node(m)][q].target \in {NoVcpu, Local(m, FirstTarget(irqs'[Node(m)][q].targets))}
    BY DEF Agree
  <2>1. CASE m = n /\ q = i
    BY <1>2, <1>4, <1>6, <2>1
  <2>2. CASE ~(m = n /\ q = i)
    <3>1. irqs'[Node(m)][q] = irqs[Node(m)][q]
      BY <1>9, <2>2
    <3> QED BY <1>10, <3>1 DEF Agree
  <2> QED BY <2>1, <2>2
<1> QED BY <1>1, <1>2, <1>4, <1>6, <1>9, <1>10

\* The interrupts up to the next one.
LEMMA UpTo ==
  ASSUME NEW i \in Bits, NEW k \in Bits
  PROVE  /\ k < i + 1 <=> (k < i \/ k = i)
         /\ ~(i + 1 < Width) => (k < i \/ k = i)
BY NumbersAt

\* The server of another node writes a target it was told.
LEMMA TellServe ==
  ASSUME TypeOK, Works, NEW w \in Vcpus, TellOK(w), NEW n \in Nodes, TargetBit(Node(n))
  PROVE  TellOK(w)'
<1> DEFINE h == NodeOf(w)
<1>0. version' = version /\ net' = net /\ version = 2 /\ job[Node(n)].at = "targets" /\ Node(n) \in Owners
  BY OwnerIs, TargetBitAt DEF TargetBit, Same
<1> SUFFICES (\A l \in Nodes : Agree(l)') /\ Silent(w)' /\ Serving(w)' /\ Speaking(w)' /\ Told(w)'
  BY <1>0 DEF TellOK
<1>1. (\A l \in Nodes : Agree(l)) /\ Silent(w) /\ Serving(w) /\ Speaking(w) /\ Told(w)
  BY <1>0 DEF TellOK
<1>2. PICK j : j = job[Node(n)] /\ j \in Jobs /\ j.at = "targets" /\ j.a.wr /\ j.owner = Node(n) /\ j.i \in Bits
  BY <1>0, TwoIs DEF Jobs
<1>3. n # h /\ \A i \in Bits : i < j.i => irqs[Node(n)][i].targets = j.val[i]
  BY <1>0, <1>1, <1>2 DEF Serving, Written
<1>4. /\ irqs'[Node(n)][j.i].targets = j.val[j.i]
      /\ \A m \in Nodes : \A i \in Bits : m # n \/ i # j.i => irqs'[Node(m)][i] = irqs[Node(m)][i]
      /\ \A m \in Nodes : Agree(m)'
  BY <1>0, <1>1, <1>2, WriteTarget, OwnerIs
<1>5. PICK k : /\ Step(Node(n), k)
               /\ j.i + 1 < Width => k = [j EXCEPT !.i = j.i + 1]
               /\ ~(j.i + 1 < Width) => k = Idle
  <2>1. Node(n)[1] = "node"
    BY OwnerIs
  <2> QED BY <1>0, <1>2, <2>1, TargetBitAt
<1>6. \A i \in Bits : i < j.i \/ i = j.i => irqs'[Node(n)][i].targets = j.val[i]
  BY <1>2, <1>3, <1>4, NumbersAt
<1>7. job'[Node(n)] = k /\ \A o \in Owners \ {Node(n)} : job'[o] = job[o]
  BY <1>0, <1>5, StepKeeps
<1>8. job'[Vcpu(w)] = job[Vcpu(w)] /\ \A l \in Nodes \ {n} : job'[Node(l)] = job[Node(l)]
  BY <1>7, OwnerIs
<1>9. h \in Nodes /\ \A i \in Bits : irqs'[Node(h)][i] = irqs[Node(h)][i]
  BY <1>3, <1>4, NodeOfIs
<1>10. j.i + 1 < Width => k.at = "targets" /\ k.i = j.i + 1 /\ k.val = j.val
  BY <1>2, <1>5 DEF Jobs
<1>11. ~(j.i + 1 < Width) => k.at = "idle"
  BY <1>5 DEF Idle
<1> HIDE DEF h
<1>12. Silent(w)'
  BY <1>0, <1>1 DEF Silent
<1>13. Serving(w)'
  <2> SUFFICES ASSUME NEW l \in Nodes, job'[Node(l)].at # "idle"
               PROVE  /\ l # h /\ job'[Node(l)].at = "targets"
                      /\ \A i \in Bits : i < job'[Node(l)].i => irqs'[Node(l)][i].targets = job'[Node(l)].val[i]
    BY DEF Serving, Written, h
  <2>1. CASE l = n
    <3>1. j.i + 1 < Width
      BY <1>7, <1>11, <2>1
    <3>2. \A i \in Bits : i < j.i + 1 => irqs'[Node(n)][i].targets = j.val[i]
      BY <1>2, <1>6, UpTo
    <3> QED BY <1>3, <1>7, <1>10, <2>1, <3>1, <3>2
  <2>2. CASE l # n
    <3>1. \A i \in Bits : irqs'[Node(l)][i] = irqs[Node(l)][i]
      BY <1>4, <2>2
    <3> QED BY <1>1, <1>8, <2>2, <3>1 DEF Serving, Written, h
  <2> QED BY <2>1, <2>2
<1>14. Telling(w)' <=> Telling(w)
  BY <1>8 DEF Telling
<1>15. Speaking(w)'
  BY <1>1, <1>8, <1>9, <1>14 DEF Speaking, Written, h
<1>16. ASSUME NEW i \in Bits PROVE Coming(n, h, i)' = Coming(n, h, i)
  <2>1. CASE net[<<h, n>>] # << >>
    BY <1>0, <2>1 DEF Coming
  <2>2. CASE net[<<h, n>>] = << >>
    <3>1. Coming(n, h, i) = j.val[i]
      BY <1>2, <2>2 DEF Coming
    <3>2. CASE j.i + 1 < Width
      BY <1>0, <1>7, <1>10, <2>2, <3>1, <3>2 DEF Coming
    <3>3. CASE ~(j.i + 1 < Width)
      <4>1. irqs'[Node(n)][i].targets = j.val[i]
        BY <1>2, <1>6, <3>3, UpTo
      <4> QED BY <1>0, <1>7, <1>11, <2>2, <3>1, <3>3, <4>1 DEF Coming
    <3> QED BY <3>2, <3>3
  <2> QED BY <2>1, <2>2
<1>17. \A l \in Nodes \ {n} : \A i \in Bits : Coming(l, h, i)' = Coming(l, h, i)
  BY <1>0, <1>4, <1>8 DEF Coming
<1>18. Told(w)'
  BY <1>1, <1>9, <1>14, <1>16, <1>17 DEF Told, h
<1> QED BY <1>4, <1>12, <1>13, <1>15, <1>18

\* The vCPU that has the broadcast to make writes a target.
LEMMA TellWrite ==
  ASSUME TypeOK, Works, NEW w \in Vcpus, Writer(w), TellOK(w), TargetBit(Vcpu(w)),
         Targeting(job[Vcpu(w)].a)
  PROVE  TellOK(w)'
<1> DEFINE h == NodeOf(w)
           g == Vcpu(w)
<1>0. version' = version /\ net' = net /\ version = 2 /\ job[g].at = "targets" /\ g \in Owners
  BY OwnerIs, TargetBitAt DEF TargetBit, Same
<1> SUFFICES (\A l \in Nodes : Agree(l)') /\ Silent(w)' /\ Serving(w)' /\ Speaking(w)' /\ Told(w)'
  BY <1>0 DEF TellOK
<1>1. (\A l \in Nodes : Agree(l)) /\ Silent(w) /\ Serving(w) /\ Speaking(w) /\ Told(w)
  BY <1>0 DEF TellOK
<1>2. PICK j : j = job[g] /\ j \in Jobs /\ j.a.wr /\ j.a.bank = 1 /\ j.i \in Bits /\ j.owner = Node(h)
  <2>1. job[g] \in Jobs /\ job[g].i \in Bits
    BY <1>0 DEF TypeOK, Jobs
  <2>2. job[g].owner = Node(h)
    BY <1>0, TellerIs
  <2> QED BY <2>1, <2>2 DEF Targeting
<1>3. h \in Nodes /\ NodeOfOwner(g) = h /\ g[1] = "vcpu"
  BY OwnerIs, NodeOfIs
<1>4. /\ irqs'[Node(h)][j.i].targets = j.val[j.i]
      /\ \A m \in Nodes : \A i \in Bits : m # h \/ i # j.i => irqs'[Node(m)][i] = irqs[Node(m)][i]
      /\ \A m \in Nodes : Agree(m)'
  BY <1>0, <1>1, <1>2, <1>3, WriteTarget
<1>5. \A i \in Bits : i < j.i => irqs[Node(h)][i].targets = j.val[i]
  BY <1>0, <1>1, <1>2 DEF Speaking, Telling, Written
<1>6. PICK k : /\ Step(g, k)
               /\ j.i + 1 < Width => k = [j EXCEPT !.i = j.i + 1]
               /\ ~(j.i + 1 < Width) => k = [j EXCEPT !.at = "bcast"]
  BY <1>0, <1>2, <1>3, TargetBitAt
<1>7. /\ k.a = j.a /\ k.val = j.val
      /\ j.i + 1 < Width => k.at = "targets" /\ k.i = j.i + 1
      /\ ~(j.i + 1 < Width) => k.at = "bcast"
  <2>1. j.at = "targets"
    BY <1>0, <1>2
  <2> QED BY <1>2, <1>6, <2>1 DEF Jobs
<1>8. job'[g] = k /\ \A o \in Owners \ {g} : job'[o] = job[o]
  BY <1>0, <1>6, StepKeeps
<1>9. \A n \in Nodes : job'[Node(n)] = job[Node(n)]
  BY <1>8, OwnerIs
<1>10. \A i \in Bits : i < j.i \/ i = j.i => irqs'[Node(h)][i].targets = j.val[i]
  BY <1>2, <1>3, <1>4, <1>5, NumbersAt
<1>11. Telling(w)'
  <2>1. Targeting(k.a)
    BY <1>2, <1>7
  <2> QED BY <1>7, <1>8, <2>1 DEF Telling, Targeting
<1>12. Silent(w)'
  BY <1>0, <1>1 DEF Silent
<1>13. Serving(w)'
  <2>1. \A n \in Nodes : n # h => \A i \in Bits : irqs'[Node(n)][i] = irqs[Node(n)][i]
    BY <1>4
  <2> QED BY <1>1, <1>9, <2>1 DEF Serving, Written
<1>14. Speaking(w)'
  <2>1. \A i \in Bits : i < j.i + 1 => irqs'[Node(h)][i].targets = j.val[i]
    BY <1>2, <1>10, UpTo
  <2>2. ~(j.i + 1 < Width) => \A i \in Bits : irqs'[Node(h)][i].targets = j.val[i]
    BY <1>2, <1>10, UpTo
  <2> QED BY <1>7, <1>8, <2>1, <2>2 DEF Speaking, Written
<1>15. Told(w)'
  BY <1>11 DEF Told
<1> QED BY <1>4, <1>12, <1>13, <1>14, <1>15

\* ITARGETSR of private interrupts, and its reads.
LEMMA TellOther ==
  ASSUME TypeOK, Works, NEW w \in Vcpus, TellOK(w), NEW v \in Vcpus, TargetBit(Vcpu(v)),
         ~Targeting(job[Vcpu(v)].a)
  PROVE  TellOK(w)'
<1> DEFINE g == Vcpu(v)
<1>0. version' = version /\ net' = net /\ version = 2 /\ job[g].at = "targets" /\ g \in Owners /\ g[1] = "vcpu"
  BY OwnerIs, TargetBitAt DEF TargetBit, Same
<1>1. PICK j : j = job[g] /\ j \in Jobs
  BY <1>0 DEF TypeOK
<1>2. PICK k : Step(g, k) /\ k.a = j.a
  <2>1. CASE j.a.wr
    <3>1. PICK k : /\ Step(g, k)
                   /\ j.i + 1 < Width => k = [j EXCEPT !.i = j.i + 1]
                   /\ ~(j.i + 1 < Width) => k = [j EXCEPT !.at = IF j.a.bank = 1 THEN "bcast" ELSE "end"]
      BY <1>0, <1>1, <2>1, TargetBitAt
    <3>2. k.a = j.a
      BY <1>1, <3>1 DEF Jobs
    <3> QED BY <3>1, <3>2
  <2>2. CASE ~j.a.wr
    BY <1>0, <1>1, <2>2, TargetBitAt
  <2> QED BY <2>1, <2>2
<1>3. \A n \in Nodes : \A i \in Bits : irqs'[Node(n)][i] = irqs[Node(n)][i]
  <2>1. CASE ~j.a.wr
    BY <1>0, <1>1, <2>1, TargetBitAt
  <2>2. CASE j.a.wr
    <3>1. j.a.frame = "gicd" /\ j.a.reg = "itargets" /\ j.a \in AccessRec
      <4>1. vmmio_emulate(j.a) = "targets" /\ j.a \in AccessRec
        BY <1>0, <1>1, JobIs DEF Stage
      <4> QED BY <1>0, <4>1, EmulateIs
    <3>2. j.a.bank = 0
      BY <1>1, <2>2, <3>1 DEF Targeting, AccessRec
    <3>3. j.owner = Vcpu(v)
      <4>1. TrapJob(g, j)
        BY <1>0, <1>1, JobIs DEF RequestJob, ConfigJob
      <4> QED BY <3>1, <3>2, <4>1, OwnerIs DEF TrapJob, OwnerOf
    <3>4. PICK o \in Owners, i \in Bits, n \in Nodes, ts \in Nat, t \in Vcpus \cup {NoVcpu} :
            SetTarget(o, i, n, ts, t) /\ o = Vcpu(v)
      <4>1. PICK i, ts, n, t : i = j.i /\ ts = j.val[i] /\ n = NodeOfOwner(g) /\ t = Local(n, FirstTarget(ts))
        OBVIOUS
      <4>2. i \in Bits /\ ts \in Nat /\ n \in Nodes /\ t \in Vcpus \cup {NoVcpu}
        BY <1>0, <1>1, <4>1, LocalIs, OwnerIs DEF Jobs, Vals
      <4>3. SetTarget(g, i, n, ts, t)
        BY <1>0, <1>1, <2>2, <3>3, <4>1, TargetBitAt
      <4> QED BY <1>0, <4>2, <4>3
    <3>5. PICK r : r = [irqs[o][i] EXCEPT !.targets = ts, !.target = t]
      OBVIOUS
    <3>6. Changed(o, i, r)
      BY <3>4, <3>5, SetTargetAt
    <3> QED BY <3>4, <3>6, OwnerIs DEF Changed
  <2> QED BY <2>1, <2>2
<1>4. ~Targeting(k.a)
  BY <1>1, <1>2
<1> QED BY <1>0, <1>2, <1>3, <1>4, TellKept

\* A handler that has answered is at the end.
LEMMA AnsweredAt ==
  ASSUME NEW g, NEW k, NEW val, Answered(g, k, val), job[g] \in Jobs
  PROVE  k.at \in {"end", "idle"}
<1>1. PICK j : j = job[g] /\ j \in Jobs
  OBVIOUS
<1>2. CASE g[1] = "vcpu"
  <2>1. k = [j EXCEPT !.at = "end", !.val = val]
    BY <1>1, <1>2 DEF Answered
  <2> QED BY <1>1, <2>1 DEF Jobs
<1>3. CASE g[1] # "vcpu"
  BY <1>3 DEF Answered, Idle
<1> QED BY <1>2, <1>3

\* A handler in one of the other loops.
LEMMA TellLoop ==
  ASSUME TypeOK, Works, NEW w \in Vcpus, TellOK(w), NEW g \in Owners, NEW k, Step(g, k),
         job[g].at \in {"loop", "count"}, k.at \in {"loop", "count", "end", "idle"},
         version' = version, net' = net,
         \A n \in Nodes : \A i \in Bits : /\ irqs'[Node(n)][i].targets = irqs[Node(n)][i].targets
                                          /\ irqs'[Node(n)][i].target = irqs[Node(n)][i].target
  PROVE  TellOK(w)'
<1> SUFFICES ASSUME version = 2 PROVE TellOK(w)'
  BY DEF TellOK
<1>1. PICK v \in Vcpus : g = Vcpu(v)
  BY TwoIs, OwnerIs
<1> QED BY <1>1, TellKept

\* A handler keeps the invariant of the targets.
LEMMA HandlerTell ==
  ASSUME TypeOK, Works, NEW w \in Vcpus, Writer(w), TellOK(w), NEW g \in Owners, Handler(g)
  PROVE  TellOK(w)'
<1>1. PICK j : j = job[g] /\ j \in Jobs
  BY DEF TypeOK
<1>2. CASE Emulate(g)
  BY <1>2, TellEmulate
<1>3. CASE ReadBit(g)
  <2>1. job[g].at = "loop" /\ version' = version /\ net' = net /\ irqs' = irqs
    BY <1>3 DEF ReadBit, Same
  <2>2. PICK k : Step(g, k) /\ k.at \in {"loop", "end", "idle"}
    <3>1. PICK l \in Jobs : \E k :
            /\ l = [job[g] EXCEPT !.val = [job[g].val EXCEPT ![job[g].i] =
                      irqs[job[g].owner][job[g].i][Loop[job[g].a.reg]]]]
            /\ Step(g, k)
            /\ l.i + 1 < Width => k = [l EXCEPT !.i = l.i + 1]
            /\ ~(l.i + 1 < Width) => Answered(g, k, l.val)
      BY <1>3, ReadBitAt
    <3>2. l.at = "loop"
      BY <1>1, <2>1, <3>1 DEF Jobs
    <3>3. PICK k : /\ Step(g, k)
                   /\ l.i + 1 < Width => k = [l EXCEPT !.i = l.i + 1]
                   /\ ~(l.i + 1 < Width) => Answered(g, k, l.val)
      BY <3>1
    <3>4. l.i + 1 < Width => k.at = "loop"
      BY <3>2, <3>3 DEF Jobs
    <3>5. ~(l.i + 1 < Width) => k.at \in {"end", "idle"}
      BY <1>1, <3>3, AnsweredAt
    <3> QED BY <3>3, <3>4, <3>5
  <2> QED BY <2>1, <2>2, TellLoop
<1>4. CASE WriteBit(g)
  <2>1. job[g].at = "loop" /\ version' = version /\ net' = net
    BY <1>4 DEF WriteBit, Same
  <2>2. PICK k : Step(g, k) /\ k.at \in {"loop", "end", "idle"}
    <3>1. PICK k : /\ Step(g, k)
                   /\ j.i + 1 < Width => k = [j EXCEPT !.i = j.i + 1]
                   /\ ~(j.i + 1 < Width) => Answered(g, k, j.val)
      BY <1>1, <1>4, WriteBitAt
    <3>2. j.i + 1 < Width => k.at = "loop"
      BY <1>1, <2>1, <3>1 DEF Jobs
    <3>3. ~(j.i + 1 < Width) => k.at \in {"end", "idle"}
      BY <1>1, <3>1, AnsweredAt
    <3> QED BY <3>1, <3>2, <3>3
  <2>3. PICK o, i, r : /\ o = j.owner /\ i = j.i
                       /\ r = [irqs[o][i] EXCEPT ![Loop[j.a.reg]] = j.val[i]]
    OBVIOUS
  <2>4. Changed(o, i, r)
    BY <1>1, <1>4, <2>3, WriteBitAt
  <2>5. irqs'[o][i].targets = irqs[o][i].targets /\ irqs'[o][i].target = irqs[o][i].target
    BY <1>1, <1>4, <2>3, WriteBitAt
  <2>6. \A n \in Nodes : \A q \in Bits : /\ irqs'[Node(n)][q].targets = irqs[Node(n)][q].targets
                                         /\ irqs'[Node(n)][q].target = irqs[Node(n)][q].target
    BY <2>4, <2>5, OwnerIs DEF Changed
  <2> QED BY <2>1, <2>2, <2>6, TellLoop
<1>5. CASE EnableBit(g)
  <2>1. job[g].at = "loop" /\ version' = version /\ net' = net
    BY <1>5 DEF EnableBit, Same
  <2>2. PICK k : Step(g, k) /\ k.at \in {"loop", "count", "end", "idle"}
    <3>0. PICK c : c = count[NodeOfOwner(g)][Kind(j.owner)]
      OBVIOUS
    <3>1. CASE Wants(j) /\ IsHw(j.owner, j.i)
      <4>1. PICK k : Step(g, k) /\ k = [j EXCEPT !.at = "count", !.seen = c]
        BY <1>1, <1>5, <3>0, <3>1, EnableBitAt
      <4>2. k.at = "count"
        BY <1>1, <4>1 DEF Jobs
      <4> QED BY <4>1, <4>2
    <3>2. CASE ~(Wants(j) /\ IsHw(j.owner, j.i))
      <4>1. PICK k : /\ Step(g, k)
                     /\ j.i + 1 < Width => k = [j EXCEPT !.i = j.i + 1]
                     /\ ~(j.i + 1 < Width) => Answered(g, k, j.val)
        BY <1>1, <1>5, <3>2, EnableBitAt
      <4>2. j.i + 1 < Width => k.at = "loop"
        BY <1>1, <2>1, <4>1 DEF Jobs
      <4>3. ~(j.i + 1 < Width) => k.at \in {"end", "idle"}
        BY <1>1, <4>1, AnsweredAt
      <4> QED BY <4>1, <4>2, <4>3
    <3> QED BY <3>1, <3>2
  <2>3. PICK o, i, b : o = j.owner /\ i = j.i /\ b = IF j.val[i] = 1 THEN EnableOf(j.a) ELSE irqs[o][i].enabled
    OBVIOUS
  <2>4. PICK r : r = [irqs[o][i] EXCEPT !.enabled = b]
    OBVIOUS
  <2>5. Changed(o, i, r)
    BY <1>1, <1>5, <2>3, <2>4, EnableBitAt
  <2>6. r.targets = irqs[o][i].targets /\ r.target = irqs[o][i].target
    <3>1. o \in Owners /\ i \in Bits
      BY <1>1, <2>1, <2>3, JobIs DEF Jobs
    <3>2. irqs[o][i] \in Irqs
      BY <3>1 DEF TypeOK
    <3> QED BY <2>4, <3>2 DEF Irqs
  <2>7. \A n \in Nodes : \A q \in Bits : /\ irqs'[Node(n)][q].targets = irqs[Node(n)][q].targets
                                         /\ irqs'[Node(n)][q].target = irqs[Node(n)][q].target
    BY <2>5, <2>6, OwnerIs DEF Changed
  <2> QED BY <2>1, <2>2, <2>7, TellLoop
<1>6. CASE EnableHw(g)
  <2>1. job[g].at = "count" /\ version' = version /\ net' = net /\ irqs' = irqs
    BY <1>6 DEF EnableHw, Same
  <2>2. PICK k : Step(g, k) /\ k.at \in {"loop", "end", "idle"}
    <3>1. PICK k : /\ Step(g, k)
                   /\ j.i + 1 < Width => k = [j EXCEPT !.at = "loop", !.seen = 0, !.i = j.i + 1]
                   /\ ~(j.i + 1 < Width) => Answered(g, k, j.val)
      BY <1>1, <1>6, EnableHwAt
    <3>2. j.i + 1 < Width => k.at = "loop"
      BY <1>1, <3>1 DEF Jobs
    <3>3. ~(j.i + 1 < Width) => k.at \in {"end", "idle"}
      BY <1>1, <3>1, AnsweredAt
    <3> QED BY <3>1, <3>2, <3>3
  <2> QED BY <2>1, <2>2, TellLoop
<1>7. CASE TargetBit(g)
  <2>1. CASE g[1] = "vcpu"
    <3>1. PICK v \in Vcpus : g = Vcpu(v)
      BY <2>1, OwnerIs
    <3>2. CASE Targeting(job[Vcpu(v)].a)
      <4>1. job[Vcpu(v)].at # "idle"
        BY <1>7, <3>1 DEF TargetBit
      <4>2. v = w
        BY <3>2, <4>1, TellerIs
      <4> QED BY <1>7, <3>1, <3>2, <4>2, TellWrite
    <3>3. CASE ~Targeting(job[Vcpu(v)].a)
      BY <1>7, <3>1, <3>3, TellOther
    <3> QED BY <3>2, <3>3
  <2>2. CASE g[1] # "vcpu"
    <3>1. PICK n \in Nodes : g = Node(n)
      BY <2>2, OwnerIs
    <3> QED BY <1>7, <3>1, TellServe
  <2> QED BY <2>1, <2>2
<1>8. CASE Broadcast(g)
  BY <1>8, TellBroadcast
<1>9. CASE Route(g)
  <2>1. version = 3 /\ version' = version
    BY <1>9, RouteAt DEF Route, Same
  <2> QED BY <2>1 DEF TellOK
<1> QED BY <1>2, <1>3, <1>4, <1>5, <1>6, <1>7, <1>8, <1>9 DEF Handler

\* Every step does.
LEMMA TellStep ==
  ASSUME TypeOK, Works, NEW w \in Vcpus, Writer(w), TellOK(w), [Next]_vars
  PROVE  TellOK(w)'
<1>1. ASSUME NEW v \in Vcpus, NEW a \in Accesses[v], Access(v, a)
      PROVE  TellOK(w)'
  <2>1. PICK k : /\ Step(Vcpu(v), k)
                 /\ k = [at |-> IF Away(v, a) THEN "wait" ELSE "do", a |-> a,
                         owner |-> OwnerOf(v, a), i |-> 0,
                         val |-> IF a.wr THEN a.val ELSE x[v], seen |-> 0, from |-> NoVcpu]
                 /\ ~Away(v, a) => net' = net
    BY <1>1, AccessAt
  <2>2. k.at \notin {"targets", "bcast"}
    BY <2>1
  <2>3. version' = version /\ irqs' = irqs /\ job[Vcpu(v)].at = "idle"
    BY <1>1 DEF Access
  <2>4. version = 2 => net' = net
    BY <2>1 DEF Away
  <2> QED BY <2>1, <2>2, <2>3, <2>4, TellKept
<1>2. ASSUME NEW n \in Nodes, NEW m \in Nodes, Receive(n, m)
      PROVE  TellOK(w)'
  BY <1>2, TellReceive
<1>3. ASSUME NEW v \in Vcpus, RecvReply(v)
      PROVE  TellOK(w)'
  <2>1. job[Vcpu(v)].at = "wait" /\ version' = version /\ net' = net /\ irqs' = irqs
    BY <1>3 DEF RecvReply, Same
  <2>2. PICK k : Step(Vcpu(v), k) /\ k = [job[Vcpu(v)] EXCEPT !.at = "end", !.val = reply[v][1]]
    BY <1>3, RecvReplyAt
  <2>3. k.at = "end"
    <3>1. job[Vcpu(v)] \in Jobs
      BY OwnerIs DEF TypeOK
    <3> QED BY <2>2, <3>1 DEF Jobs
  <2> QED BY <2>1, <2>2, <2>3, TellKept
<1>4. ASSUME NEW v \in Vcpus, Return(v)
      PROVE  TellOK(w)'
  <2>1. job[Vcpu(v)].at = "end" /\ version' = version /\ net' = net /\ irqs' = irqs
    BY <1>4 DEF Return, Same
  <2>2. Step(Vcpu(v), Idle) /\ Idle.at = "idle"
    BY <1>4, ReturnAt DEF Idle
  <2> QED BY <2>1, <2>2, TellKept
<1>5. CASE UNCHANGED vars
  BY <1>5 DEF TellOK, Agree, Silent, Serving, Speaking, Told, Telling, Written, Coming, vars
<1>6. CASE Next
  BY <1>1, <1>2, <1>3, <1>4, <1>6, NextIs, HandlerTell
<1> QED BY <1>5, <1>6

\* At first every target is 0.
LEMMA TellInit ==
  ASSUME Init, NEW w \in Vcpus
  PROVE  TellOK(w)
<1>1. \A n \in Nodes : \A i \in Bits : irqs[Node(n)][i].targets = 0 /\ irqs[Node(n)][i].target = NoVcpu
  <2>1. \A n \in Nodes : Node(n) \in Owners /\ Node(n)[1] # "vcpu"
    BY OwnerIs
  <2> QED BY <2>1 DEF Init
<1>2. \A g \in Owners : job[g].at = "idle"
  BY DEF Init, Idle
<1>3. \A m, n \in Nodes : net[<<m, n>>] = << >>
  BY DEF Init
<1>4. \A n \in Nodes : job[Node(n)].at = "idle"
  BY <1>2, OwnerIs
<1>5. job[Vcpu(w)].at = "idle" /\ NodeOf(w) \in Nodes
  BY <1>2, OwnerIs, NodeOfIs
<1>6. (\A n \in Nodes : Agree(n)) /\ Silent(w) /\ Serving(w)
  BY <1>1, <1>3, <1>4 DEF Agree, Silent, Serving
<1>7. ~Telling(w)
  BY <1>5 DEF Telling
<1>8. Speaking(w) /\ Told(w)
  BY <1>1, <1>3, <1>4, <1>5, <1>7 DEF Speaking, Told, Coming
<1> QED BY <1>6, <1>8 DEF TellOK

\* When nothing moves, the nodes agree.
LEMMA AgreeWhenStill ==
  ASSUME TypeOK, Works, NEW w \in Vcpus, TellOK(w)
  PROVE  TargetsAgree
<1> DEFINE h == NodeOf(w)
<1> SUFFICES ASSUME version = 2, \A n \in Nodes : ~Moving(n), NEW i \in Bits
             PROVE  /\ \A n, m \in Nodes : irqs[Node(n)][i].targets = irqs[Node(m)][i].targets
                    /\ \A n, m \in Nodes : n # m => irqs[Node(n)][i].target = NoVcpu
                                                    \/ irqs[Node(m)][i].target = NoVcpu
  BY DEF TargetsAgree
<1>1. (\A n \in Nodes : Agree(n)) /\ Silent(w) /\ Serving(w) /\ Speaking(w) /\ Told(w)
  BY DEF TellOK
<1>2. h \in Nodes /\ w \in VcpusOf[h]
  BY NodeOfIs
<1>3. ~Telling(w)
  BY <1>2 DEF Moving, Telling, Targeting
<1>4. \A n \in Nodes : job[Node(n)].at # "targets"
  BY DEF Moving
<1>5. ASSUME NEW n \in Nodes PROVE net[<<h, n>>] = << >>
  <2>1. PICK q : q = net[<<h, n>>] /\ q \in Seq(GoodMsg(h, n)) /\ \A msg \in GoodMsg(h, n) : msg.type = "config"
    BY <1>2, TwoIs
  <2>2. SUFFICES ASSUME q # << >> PROVE FALSE
    BY <2>1
  <2>3. 1 \in DOMAIN q /\ q[1] \in GoodMsg(h, n)
    BY <2>1, <2>2, TakeAt
  <2> QED BY <1>2, <2>1, <2>3 DEF Moving
<1>6. \A n \in Nodes : irqs[Node(n)][i].targets = irqs[Node(h)][i].targets
  BY <1>1, <1>3, <1>4, <1>5 DEF Told, Coming
<1>7. ASSUME NEW n \in Nodes, NEW m \in Nodes, n # m,
             irqs[Node(n)][i].target # NoVcpu, irqs[Node(m)][i].target # NoVcpu
      PROVE  FALSE
  <2>1. PICK t : t = FirstTarget(irqs[Node(h)][i].targets)
    OBVIOUS
  <2>2. irqs[Node(n)][i].target \in {NoVcpu, Local(n, t)} /\ irqs[Node(m)][i].target \in {NoVcpu, Local(m, t)}
    BY <1>1, <1>6, <2>1 DEF Agree
  <2>3. t \in VcpusOf[n] /\ t \in VcpusOf[m]
    BY <1>7, <2>2 DEF Local
  <2> QED BY <1>7, <2>3, NodeOfIs
<1> QED BY <1>6, <1>7

\* TargetsAgree: where one vCPU writes ITARGETSR of the SPIs, its broadcasts
\* leave every node with the same targets, and one node at most with a target.
THEOREM NodesAgree ==
  ASSUME OneTargeter PROVE Spec => []TargetsAgree
<1>1. PICK w \in Vcpus : Writer(w)
  <2>1. Vcpus # {}
    BY GicMmioAssumption DEF Vcpus
  <2>2. CASE \E v \in Vcpus : \E a \in Accesses[v] : Targeting(a)
    <3>1. PICK v \in Vcpus : \E a \in Accesses[v] : Targeting(a)
      BY <2>2
    <3>2. Writer(v)
      BY <3>1 DEF Writer, OneTargeter
    <3> QED BY <3>2
  <2>3. CASE ~\E v \in Vcpus : \E a \in Accesses[v] : Targeting(a)
    BY <2>1, <2>3 DEF Writer
  <2> QED BY <2>2, <2>3
<1>2. Init => HwInv /\ TellOK(w)
  BY HwInit, TellInit
<1>3. HwInv /\ TellOK(w) /\ [Next]_vars => HwInv' /\ TellOK(w)'
  <2> SUFFICES ASSUME HwInv, TellOK(w), [Next]_vars PROVE HwInv' /\ TellOK(w)'
    OBVIOUS
  <2>1. TypeOK /\ Works
    BY DEF HwInv
  <2>2. HwInv'
    BY HwStep
  <2>3. TellOK(w)'
    BY <1>1, <2>1, TellStep
  <2> QED BY <2>2, <2>3
<1>4. HwInv /\ TellOK(w) => TargetsAgree
  BY AgreeWhenStill DEF HwInv
<1> QED BY <1>2, <1>3, <1>4, PTL DEF Spec

-----------------------------------------------------------------------------
(* Requests and answers.                                                   *)

\* How a handler goes on: a vCPU's with the same access, a server's with the
\* same message, or done with it.
Goes(g, k) ==
  /\ g[1] = "vcpu" => /\ job[g].at \notin {"idle", "wait"} /\ k.at \notin {"idle", "wait"}
                      /\ k.a = job[g].a /\ reply' = reply
  /\ g[1] = "node" =>
       /\ job[g].at # "idle"
       /\ \/ k.at # "idle" /\ k.a = job[g].a /\ k.from = job[g].from /\ reply' = reply
          \/ k = Idle /\ job[g].from \notin Vcpus /\ reply' = reply
          \/ /\ k = Idle /\ job[g].from \in Vcpus
             /\ \E val \in Vals : reply' = [reply EXCEPT ![job[g].from] = <<val>>]

\* A handler that has not answered.
LEMMA OnGoes ==
  ASSUME NEW g, NEW k, job[g].at \notin {"idle", "wait"}, k.at \notin {"idle", "wait"},
         k.a = job[g].a, k.from = job[g].from, reply' = reply
  PROVE  Goes(g, k)
BY DEF Goes

\* One that has.
LEMMA AnswerGoes ==
  ASSUME TypeOK, Works, NEW g \in Owners, NEW k, NEW val \in Vals, Answered(g, k, val),
         job[g].at \in {"do", "loop", "count", "route"}
  PROVE  Goes(g, k)
<1>1. CASE g[1] = "vcpu"
  <2>1. PICK j : j = job[g] /\ j \in Jobs
    BY DEF TypeOK
  <2>2. k = [j EXCEPT !.at = "end", !.val = val] /\ reply' = reply
    BY <1>1, <2>1 DEF Answered
  <2>3. k.at = "end" /\ k.a = j.a
    BY <2>1, <2>2 DEF Jobs
  <2> QED BY <1>1, <2>1, <2>2, <2>3 DEF Goes
<1>2. CASE g[1] # "vcpu"
  <2>1. g[1] = "node" /\ job[g].from \in Vcpus
    BY <1>2, JobIs, OwnerIs
  <2> QED BY <1>2, <2>1 DEF Goes, Answered
<1> QED BY <1>1, <1>2

\* The next interrupt of a loop, or the answer.
LEMMA NextGoes ==
  ASSUME TypeOK, Works, NEW g \in Owners, job[g].at \in {"loop", "count"}, NEW k, NEW j \in Jobs,
         j.a = job[g].a, j.from = job[g].from, j.at = "loop",
         j.i + 1 < Width => k = [j EXCEPT !.i = j.i + 1] /\ reply' = reply,
         ~(j.i + 1 < Width) => Answered(g, k, j.val)
  PROVE  Goes(g, k)
<1>1. CASE j.i + 1 < Width
  <2>1. k.at = "loop" /\ k.a = j.a /\ k.from = j.from
    BY <1>1 DEF Jobs
  <2> QED BY <1>1, <2>1, OnGoes
<1>2. CASE ~(j.i + 1 < Width)
  <2>1. j.val \in Vals
    BY DEF Jobs
  <2> QED BY <1>2, <2>1, AnswerGoes
<1> QED BY <1>1, <1>2

\* Every handler does one or the other.
LEMMA HandlerIs ==
  ASSUME TypeOK, Works, NEW g \in Owners, Handler(g)
  PROVE  \E k : Step(g, k) /\ Goes(g, k)
<1>1. PICK j : j = job[g] /\ j \in Jobs
  BY DEF TypeOK
<1>2. CASE Emulate(g)
  <2>1. j.at = "do"
    BY <1>1, <1>2, EmulateAt
  <2>2. PICK k : /\ Step(g, k)
                 /\ \/ k = j /\ reply' = reply
                    \/ \E val \in Vals : Answered(g, k, val)
                    \/ /\ reply' = reply
                       /\ \E out \in {"loop", "targets", "route"} : k = [j EXCEPT !.at = out]
    BY <1>1, <1>2, EmulateAt
  <2>3. CASE k = j /\ reply' = reply
    BY <1>1, <2>1, <2>2, <2>3, OnGoes
  <2>4. CASE \E val \in Vals : Answered(g, k, val)
    BY <1>1, <2>1, <2>2, <2>4, AnswerGoes
  <2>5. ASSUME reply' = reply, NEW out \in {"loop", "targets", "route"}, k = [j EXCEPT !.at = out]
        PROVE  Goes(g, k)
    <3>1. k.at = out /\ k.a = j.a /\ k.from = j.from
      BY <1>1, <2>5 DEF Jobs
    <3> QED BY <1>1, <2>1, <2>5, <3>1, OnGoes
  <2> QED BY <2>2, <2>3, <2>4, <2>5
<1>3. CASE ReadBit(g)
  <2>1. j.at = "loop"
    BY <1>1, <1>3 DEF ReadBit
  <2>2. PICK l \in Jobs : \E k :
          /\ l = [job[g] EXCEPT !.val = [job[g].val EXCEPT ![job[g].i] =
                    irqs[job[g].owner][job[g].i][Loop[job[g].a.reg]]]]
          /\ Step(g, k)
          /\ l.i + 1 < Width => k = [l EXCEPT !.i = l.i + 1] /\ reply' = reply
          /\ ~(l.i + 1 < Width) => Answered(g, k, l.val)
    BY <1>3, ReadBitAt
  <2>3. l.at = "loop" /\ l.a = j.a /\ l.from = j.from
    BY <1>1, <2>1, <2>2 DEF Jobs
  <2>4. PICK k : /\ Step(g, k)
                 /\ l.i + 1 < Width => k = [l EXCEPT !.i = l.i + 1] /\ reply' = reply
                 /\ ~(l.i + 1 < Width) => Answered(g, k, l.val)
    BY <2>2
  <2> QED BY <1>1, <2>1, <2>3, <2>4, NextGoes
<1>4. CASE WriteBit(g)
  <2>1. j.at = "loop"
    BY <1>1, <1>4 DEF WriteBit
  <2>2. PICK k : /\ Step(g, k)
                 /\ j.i + 1 < Width => k = [j EXCEPT !.i = j.i + 1] /\ reply' = reply
                 /\ ~(j.i + 1 < Width) => Answered(g, k, j.val)
    BY <1>1, <1>4, WriteBitAt
  <2> QED BY <1>1, <2>1, <2>2, NextGoes
<1>5. CASE EnableBit(g)
  <2>1. j.at = "loop"
    BY <1>1, <1>5 DEF EnableBit
  <2>2. CASE Wants(j) /\ IsHw(j.owner, j.i)
    <3>1. PICK c : c = count[NodeOfOwner(g)][Kind(j.owner)]
      OBVIOUS
    <3>2. PICK k : Step(g, k) /\ k = [j EXCEPT !.at = "count", !.seen = c] /\ reply' = reply
      BY <1>1, <1>5, <2>2, <3>1, EnableBitAt
    <3>3. k.at = "count" /\ k.a = j.a /\ k.from = j.from
      BY <1>1, <3>2 DEF Jobs
    <3> QED BY <1>1, <2>1, <3>2, <3>3, OnGoes
  <2>3. CASE ~(Wants(j) /\ IsHw(j.owner, j.i))
    <3>1. PICK k : /\ Step(g, k)
                   /\ j.i + 1 < Width => k = [j EXCEPT !.i = j.i + 1] /\ reply' = reply
                   /\ ~(j.i + 1 < Width) => Answered(g, k, j.val)
      BY <1>1, <1>5, <2>3, EnableBitAt
    <3> QED BY <1>1, <2>1, <3>1, NextGoes
  <2> QED BY <2>2, <2>3
<1>6. CASE EnableHw(g)
  <2>1. j.at = "count"
    BY <1>1, <1>6 DEF EnableHw
  <2>2. PICK k : /\ Step(g, k)
                 /\ j.i + 1 < Width =>
                      k = [j EXCEPT !.at = "loop", !.seen = 0, !.i = j.i + 1] /\ reply' = reply
                 /\ ~(j.i + 1 < Width) => Answered(g, k, j.val)
    BY <1>1, <1>6, EnableHwAt
  <2>3. CASE j.i + 1 < Width
    <3>1. k.at = "loop" /\ k.a = j.a /\ k.from = j.from
      BY <1>1, <2>2, <2>3 DEF Jobs
    <3> QED BY <1>1, <2>1, <2>2, <2>3, <3>1, OnGoes
  <2>4. CASE ~(j.i + 1 < Width)
    <3>1. j.val \in Vals
      BY <1>1 DEF Jobs
    <3> QED BY <1>1, <2>1, <2>2, <2>4, <3>1, AnswerGoes
  <2> QED BY <2>3, <2>4
<1>7. CASE TargetBit(g)
  <2>1. j.at = "targets"
    BY <1>1, <1>7 DEF TargetBit
  <2>2. CASE ~j.a.wr
    <3>1. PICK k : Step(g, k) /\ g[1] = "vcpu" /\ reply' = reply /\ k.a = j.a /\ k.at \in {"targets", "end"}
      BY <1>1, <1>7, <2>2, TargetBitAt
    <3> QED BY <1>1, <2>1, <3>1 DEF Goes
  <2>3. CASE j.a.wr /\ j.i + 1 < Width
    <3>1. PICK k : Step(g, k) /\ reply' = reply /\ k = [j EXCEPT !.i = j.i + 1]
      BY <1>1, <1>7, <2>3, TargetBitAt
    <3>2. k.at = "targets" /\ k.a = j.a /\ k.from = j.from
      BY <1>1, <2>1, <3>1 DEF Jobs
    <3> QED BY <1>1, <2>1, <3>1, <3>2, OnGoes
  <2>4. CASE j.a.wr /\ ~(j.i + 1 < Width) /\ g[1] = "vcpu"
    <3>1. PICK k : /\ Step(g, k) /\ reply' = reply
                   /\ k = [j EXCEPT !.at = IF j.a.bank = 1 THEN "bcast" ELSE "end"]
      BY <1>1, <1>7, <2>4, TargetBitAt
    <3>2. k.at \in {"bcast", "end"} /\ k.a = j.a
      BY <1>1, <3>1 DEF Jobs
    <3> QED BY <1>1, <2>1, <2>4, <3>1, <3>2 DEF Goes
  <2>5. CASE j.a.wr /\ ~(j.i + 1 < Width) /\ g[1] # "vcpu"
    <3>1. g[1] = "node" /\ j.from \notin Vcpus
      <4>1. g[1] = "node"
        BY <2>5, OwnerIs
      <4>2. ConfigJob(g, j)
        BY <1>1, <2>1, <4>1, JobIs DEF TrapJob, RequestJob
      <4> QED BY <4>1, <4>2, NumbersAt DEF ConfigJob
    <3>2. PICK k : Step(g, k) /\ reply' = reply /\ k = Idle
      BY <1>1, <1>7, <2>5, <3>1, TargetBitAt
    <3> QED BY <1>1, <2>1, <3>1, <3>2 DEF Goes
  <2> QED BY <2>2, <2>3, <2>4, <2>5
<1>8. CASE Broadcast(g)
  <2>1. j.at = "bcast" /\ g[1] = "vcpu" /\ reply' = reply
    BY <1>1, <1>8, BroadcastAt DEF Broadcast
  <2>2. PICK k : Step(g, k) /\ k = [j EXCEPT !.at = "end"]
    BY <1>1, <1>8, BroadcastAt
  <2>3. k.at = "end" /\ k.a = j.a
    BY <1>1, <2>2 DEF Jobs
  <2> QED BY <1>1, <2>1, <2>2, <2>3 DEF Goes
<1>9. CASE Route(g)
  <2>1. PICK val \in Vals : \E k : Step(g, k) /\ k.at = "end" /\ Answered(g, k, val)
    BY <1>9, RouteAt
  <2>2. job[g].at = "route"
    BY <1>9 DEF Route
  <2> QED BY <2>1, <2>2, AnswerGoes
<1> QED BY <1>2, <1>3, <1>4, <1>5, <1>6, <1>7, <1>8, <1>9 DEF Handler

\* The requests on the way from m to n.
LEMMA RequestIs ==
  ASSUME TypeOK, Works, NEW m \in Nodes, NEW n \in Nodes, NEW k \in 1..Len(net[<<m, n>>]),
         net[<<m, n>>][k].type = "request"
  PROVE  LET msg == net[<<m, n>>][k]
         IN  /\ msg.from \in Vcpus /\ NodeOf(msg.from) = m /\ NodeOf(msg.a.vcpu) = n
             /\ msg.a \in Accesses[msg.from] /\ Away(msg.from, msg.a)
<1>1. net[<<m, n>>][k] \in GoodMsg(m, n)
  BY DEF Works
<1> QED BY <1>1 DEF GoodMsg, RequestMsg, ConfigMsg

\* The server of a request is the one of the access's vCPU.
LEMMA ServesIs ==
  ASSUME TypeOK, Works, NEW n \in Nodes, NEW v \in Vcpus, Serves(n, v)
  PROVE  NodeOf(job[Node(n)].a.vcpu) = n /\ job[Node(n)].owner = Vcpu(job[Node(n)].a.vcpu)
         /\ job[Node(n)].at \in {"do", "loop", "count"}
<1>1. PICK g \in Owners : g = Node(n) /\ g[1] = "node" /\ g[2] = n
  BY OwnerIs
<1>2. job[g].at # "idle" /\ job[g].from = v
  BY <1>1 DEF Serves
<1>3. RequestJob(g, job[g])
  BY <1>1, <1>2, JobIs, NumbersAt DEF TrapJob, ConfigJob
<1> QED BY <1>1, <1>3 DEF RequestJob

\* More broadcasts on the way, or none.
Later(q, p) == p = q \/ \E msg : msg.type = "config" /\ msg.from = NoVcpu /\ p = Append(q, msg)

\* The requests are then the same.
LEMMA LaterIs ==
  ASSUME NEW S, NEW q \in Seq(S), NEW p, Later(q, p), NEW k \in 1..Len(p), p[k].type = "request",
         p[k].from \in Vcpus
  PROVE  /\ k \in 1..Len(q) /\ p[k] = q[k]
         /\ \A l \in 1..Len(p) : p[l].from = p[k].from => l \in 1..Len(q) /\ p[l] = q[l]
<1>1. CASE p = q
  BY <1>1
<1>2. ASSUME NEW msg, msg.type = "config", msg.from = NoVcpu, p = Append(q, msg)
      PROVE  /\ k \in 1..Len(q) /\ p[k] = q[k]
             /\ \A l \in 1..Len(p) : p[l].from = p[k].from => l \in 1..Len(q) /\ p[l] = q[l]
  <2>1. /\ Len(p) = Len(q) + 1 /\ p[Len(q) + 1] = msg /\ Len(q) \in Nat
        /\ \A l \in 1..Len(q) : p[l] = q[l]
    BY <1>2
  <2>2. \A l \in 1..Len(p) : l \in 1..Len(q) \/ l = Len(q) + 1
    BY <2>1
  <2> QED BY <1>2, <2>1, <2>2, NumbersAt
<1> QED BY <1>1, <1>2 DEF Later

\* The calls, where the vCPU that steps has none.
LEMMA CallTrap ==
  ASSUME TypeOK, Works, Works', CallOK, NEW v \in Vcpus, NEW k, Step(Vcpu(v), k), version' = version,
         job[Vcpu(v)].at # "wait", k.at # "wait", reply' = reply,
         \A m, n \in Nodes : Later(net[<<m, n>>], net'[<<m, n>>])
  PROVE  CallOK'
<1>1. Replied /\ Served /\ Posted
  BY DEF CallOK
<1>2. \A u \in Vcpus : Vcpu(u) \in Owners
  BY OwnerIs
<1>3. job'[Vcpu(v)] = k /\ \A h \in Owners \ {Vcpu(v)} : job'[h] = job[h]
  BY <1>2, StepKeeps
<1>4. \A u \in Vcpus : job[Vcpu(u)].at = "wait" => job'[Vcpu(u)] = job[Vcpu(u)]
  BY <1>2, <1>3
<1>5. \A n \in Nodes : job'[Node(n)] = job[Node(n)]
  BY <1>3, OwnerIs
<1>6. Replied'
  BY <1>1, <1>4 DEF Replied
<1>7. Served'
  <2> SUFFICES ASSUME NEW n \in Nodes, NEW u \in Vcpus, Serves(n, u)'
               PROVE  Waits(u, job[Node(n)].a)'
    BY DEF Served
  <2>1. Waits(u, job[Node(n)].a)
    BY <1>1, <1>5 DEF Served, Serves
  <2> QED BY <1>4, <1>5, <2>1 DEF Waits
<1>8. Posted'
  <2> SUFFICES ASSUME NEW m \in Nodes, NEW n \in Nodes, NEW p, p = net'[<<m, n>>],
                      NEW i \in 1..Len(p), p[i].type = "request"
               PROVE  /\ job'[Vcpu(p[i].from)].at = "wait" /\ job'[Vcpu(p[i].from)].a = p[i].a
                      /\ reply'[p[i].from] = NoReply /\ job'[Vcpu(p[i].from)].val = p[i].val
                      /\ ~(job'[Node(n)].at # "idle" /\ job'[Node(n)].from = p[i].from)
                      /\ \A l \in 1..Len(p) : p[l].from = p[i].from => l = i
    BY SMTT(60) DEF Posted, Waits, Serves
  <2>1. PICK q \in Seq(GoodMsg(m, n)) : q = net[<<m, n>>] /\ Later(q, p)
    BY DEF Works
  <2>2. p[i].from \in Vcpus
    <3>1. p[i] \in GoodMsg(m, n)'
      BY DEF Works
    <3>2. p[i] \in GoodMsg(m, n)
      BY <3>1, Fixed
    <3> QED BY <3>2 DEF GoodMsg, RequestMsg, ConfigMsg
  <2>3. /\ i \in 1..Len(q) /\ p[i] = q[i]
        /\ \A l \in 1..Len(p) : p[l].from = p[i].from => l \in 1..Len(q) /\ p[l] = q[l]
    BY <2>1, <2>2, LaterIs
  <2>4. /\ Waits(q[i].from, q[i].a) /\ job[Vcpu(q[i].from)].val = q[i].val /\ ~Serves(n, q[i].from)
        /\ \A l \in 1..Len(q) : q[l].from = q[i].from => l = i
    BY <1>1, <2>1, <2>3 DEF Posted
  <2>5. job'[Vcpu(q[i].from)] = job[Vcpu(q[i].from)]
    BY <1>4, <2>2, <2>3, <2>4 DEF Waits
  <2> QED BY <1>5, <2>3, <2>4, <2>5 DEF Waits, Serves
<1> QED BY <1>6, <1>7, <1>8 DEF CallOK

\* The calls, where a server goes on.
LEMMA CallServer ==
  ASSUME TypeOK, Works, CallOK, NEW n \in Nodes, NEW k, Step(Node(n), k), Goes(Node(n), k),
         version' = version, net' = net
  PROVE  CallOK'
<1>1. Replied /\ Served /\ Posted
  BY DEF CallOK
<1>2. Node(n) \in Owners /\ Node(n)[1] = "node"
  BY OwnerIs
<1>3. job'[Node(n)] = k /\ \A h \in Owners \ {Node(n)} : job'[h] = job[h]
  BY <1>2, StepKeeps
<1>4. \A u \in Vcpus : job'[Vcpu(u)] = job[Vcpu(u)]
  BY <1>3, OwnerIs
<1>5. \A m \in Nodes \ {n} : job'[Node(m)] = job[Node(m)]
  BY <1>3, OwnerIs
<1>6. \A m \in Nodes : \A u \in Vcpus : Serves(m, u)' => Serves(m, u) /\ job'[Node(m)].a = job[Node(m)].a
  <2> SUFFICES ASSUME NEW m \in Nodes, NEW u \in Vcpus, Serves(m, u)'
               PROVE  Serves(m, u) /\ job'[Node(m)].a = job[Node(m)].a
    OBVIOUS
  <2>1. CASE m # n
    BY <1>5, <2>1 DEF Serves
  <2>2. CASE m = n
    <3>1. k.at # "idle"
      BY <1>3, <2>2 DEF Serves
    <3>2. k.a = job[Node(n)].a /\ k.from = job[Node(n)].from /\ job[Node(n)].at # "idle"
      BY <1>2, <3>1 DEF Goes, Idle
    <3> QED BY <1>3, <2>2, <3>2 DEF Serves
  <2> QED BY <2>1, <2>2
<1>7. CASE reply' = reply
  <2>1. Replied'
    BY <1>1, <1>4, <1>7 DEF Replied
  <2>2. Served'
    BY <1>1, <1>4, <1>6, <1>7 DEF Served, Waits
  <2>3. Posted'
    <3> SUFFICES ASSUME NEW a \in Nodes, NEW b \in Nodes, NEW q, q = net[<<a, b>>],
                        NEW i \in 1..Len(q), q[i].type = "request"
                 PROVE  /\ job'[Vcpu(q[i].from)].at = "wait" /\ job'[Vcpu(q[i].from)].a = q[i].a
                        /\ reply'[q[i].from] = NoReply /\ job'[Vcpu(q[i].from)].val = q[i].val
                        /\ ~(job'[Node(b)].at # "idle" /\ job'[Node(b)].from = q[i].from)
                        /\ \A l \in 1..Len(q) : q[l].from = q[i].from => l = i
      BY SMTT(60) DEF Posted, Waits, Serves
    <3>1. q[i].from \in Vcpus
      BY RequestIs
    <3>2. /\ Waits(q[i].from, q[i].a) /\ job[Vcpu(q[i].from)].val = q[i].val /\ ~Serves(b, q[i].from)
          /\ \A l \in 1..Len(q) : q[l].from = q[i].from => l = i
      BY <1>1 DEF Posted
    <3>3. ~Serves(b, q[i].from)'
      BY <1>6, <3>1, <3>2
    <3> QED BY <1>4, <1>7, <3>1, <3>2, <3>3 DEF Waits, Serves
  <2> QED BY <2>1, <2>2, <2>3 DEF CallOK
<1>8. CASE reply' # reply
  <2>1. PICK v \in Vcpus : v = job[Node(n)].from /\ k = Idle /\ \E val \in Vals : reply' = [reply EXCEPT ![v] = <<val>>]
    BY <1>2, <1>8 DEF Goes
  <2>2. Serves(n, v)
    BY <1>2, <2>1 DEF Goes, Serves
  <2>3. Waits(v, job[Node(n)].a) /\ NodeOf(job[Node(n)].a.vcpu) = n
    BY <1>1, <2>2, ServesIs DEF Served
  <2>4. \A u \in Vcpus \ {v} : reply'[u] = reply[u]
    BY <2>1 DEF TypeOK
  <2>5. Replied'
    BY <1>1, <1>4, <2>3, <2>4 DEF Replied, Waits
  <2>6. ASSUME NEW m \in Nodes, Serves(m, v)' PROVE FALSE
    <3>1. m # n
      BY <1>3, <2>1, <2>6 DEF Serves, Idle
    <3>2. Serves(m, v)
      BY <1>6, <2>6
    <3>3. Waits(v, job[Node(m)].a) /\ NodeOf(job[Node(m)].a.vcpu) = m
      BY <1>1, <3>2, ServesIs DEF Served
    <3> QED BY <2>3, <3>1, <3>3 DEF Waits
  <2>7. Served'
    <3> SUFFICES ASSUME NEW m \in Nodes, NEW u \in Vcpus, Serves(m, u)'
                 PROVE  Waits(u, job[Node(m)].a)'
      BY DEF Served
    <3>1. u # v
      BY <2>6
    <3>2. Waits(u, job[Node(m)].a) /\ job'[Node(m)].a = job[Node(m)].a
      BY <1>1, <1>6 DEF Served
    <3> QED BY <1>4, <2>4, <3>1, <3>2 DEF Waits
  <2>8. Posted'
    <3> SUFFICES ASSUME NEW a \in Nodes, NEW b \in Nodes, NEW q, q = net[<<a, b>>],
                        NEW i \in 1..Len(q), q[i].type = "request"
                 PROVE  /\ job'[Vcpu(q[i].from)].at = "wait" /\ job'[Vcpu(q[i].from)].a = q[i].a
                        /\ reply'[q[i].from] = NoReply /\ job'[Vcpu(q[i].from)].val = q[i].val
                        /\ ~(job'[Node(b)].at # "idle" /\ job'[Node(b)].from = q[i].from)
                        /\ \A l \in 1..Len(q) : q[l].from = q[i].from => l = i
      BY SMTT(60) DEF Posted, Waits, Serves
    <3>1. q[i].from \in Vcpus /\ NodeOf(q[i].a.vcpu) = b
      BY RequestIs
    <3>2. /\ Waits(q[i].from, q[i].a) /\ job[Vcpu(q[i].from)].val = q[i].val /\ ~Serves(b, q[i].from)
          /\ \A l \in 1..Len(q) : q[l].from = q[i].from => l = i
      BY <1>1 DEF Posted
    <3>3. ~Serves(b, q[i].from)'
      BY <1>6, <3>1, <3>2
    <3>4. q[i].from # v
      <4>1. SUFFICES ASSUME q[i].from = v PROVE FALSE
        OBVIOUS
      <4>2. q[i].a = job[Node(n)].a
        BY <2>3, <3>2, <4>1 DEF Waits
      <4>3. b = n
        BY <2>3, <3>1, <4>2
      <4> QED BY <2>2, <3>2, <4>1, <4>3
    <3> QED BY <1>4, <2>4, <3>1, <3>2, <3>3, <3>4 DEF Waits, Serves
  <2> QED BY <2>5, <2>7, <2>8 DEF CallOK
<1> QED BY <1>7, <1>8

\* An access that is forwarded: vmmio_forward sends the request.
LEMMA CallAccess ==
  ASSUME TypeOK, Works, CallOK, NEW v \in Vcpus, NEW a \in Accesses[v], Access(v, a)
  PROVE  CallOK'
<1>1. Replied /\ Served /\ Posted
  BY DEF CallOK
<1>2. job[Vcpu(v)].at = "idle" /\ reply' = reply /\ version' = version /\ Works'
  BY AccessAt DEF Access
<1>3. PICK k : /\ Step(Vcpu(v), k)
               /\ k = [at |-> IF Away(v, a) THEN "wait" ELSE "do", a |-> a,
                       owner |-> OwnerOf(v, a), i |-> 0,
                       val |-> IF a.wr THEN a.val ELSE x[v], seen |-> 0, from |-> NoVcpu]
               /\ ~Away(v, a) => net' = net
               /\ Away(v, a) => net' = [net EXCEPT ![<<NodeOf(v), NodeOf(a.vcpu)>>] =
                    Append(@, [type |-> "request", a |-> a, val |-> k.val, from |-> v])]
  BY AccessAt
<1>4. CASE ~Away(v, a)
  <2>1. k.at = "do" /\ net' = net
    BY <1>3, <1>4
  <2>2. \A m, n \in Nodes : Later(net[<<m, n>>], net'[<<m, n>>])
    BY <2>1 DEF Later
  <2> QED BY <1>2, <1>3, <2>1, <2>2, CallTrap
<1>5. CASE Away(v, a)
  <2>1. k.at = "wait" /\ k.a = a
    BY <1>3, <1>5
  <2>2. PICK h, d \in Nodes : h = NodeOf(v) /\ d = NodeOf(a.vcpu)
    <3>1. a \in AccessRec
      BY GicMmioAssumption
    <3> QED BY <3>1, NodeOfIs DEF AccessRec
  <2>3. PICK new : new = [type |-> "request", a |-> a, val |-> k.val, from |-> v]
    OBVIOUS
  <2>4. \A m, n \in Nodes : net'[<<m, n>>] = IF m = h /\ n = d THEN Append(net[<<m, n>>], new) ELSE net[<<m, n>>]
    <3>1. net' = [net EXCEPT ![<<h, d>>] = Append(@, new)]
      BY <1>3, <1>5, <2>2, <2>3
    <3> QED BY <3>1 DEF TypeOK
  <2>5. job'[Vcpu(v)] = k /\ \A g \in Owners \ {Vcpu(v)} : job'[g] = job[g]
    BY <1>2, <1>3, StepKeeps, OwnerIs
  <2>6. \A n \in Nodes : job'[Node(n)] = job[Node(n)]
    BY <2>5, OwnerIs
  <2>7. \A u \in Vcpus : job[Vcpu(u)].at = "wait" => u # v /\ job'[Vcpu(u)] = job[Vcpu(u)]
    BY <1>2, <2>5, OwnerIs
  <2>8. reply[v] = NoReply /\ \A n \in Nodes : ~Serves(n, v)
    BY <1>1, <1>2 DEF Replied, Served, Waits
  <2>9. Replied'
    BY <1>1, <1>2, <2>7 DEF Replied
  <2>10. Served'
    <3> SUFFICES ASSUME NEW n \in Nodes, NEW u \in Vcpus, Serves(n, u)'
                 PROVE  Waits(u, job[Node(n)].a)'
      BY DEF Served
    <3>1. Waits(u, job[Node(n)].a)
      BY <1>1, <2>6 DEF Served, Serves
    <3> QED BY <1>2, <2>6, <2>7, <3>1 DEF Waits
  <2>11. Posted'
    <3> SUFFICES ASSUME NEW m \in Nodes, NEW n \in Nodes, NEW p, p = net'[<<m, n>>],
                        NEW i \in 1..Len(p), p[i].type = "request"
                 PROVE  /\ job'[Vcpu(p[i].from)].at = "wait" /\ job'[Vcpu(p[i].from)].a = p[i].a
                        /\ reply'[p[i].from] = NoReply /\ job'[Vcpu(p[i].from)].val = p[i].val
                        /\ ~(job'[Node(n)].at # "idle" /\ job'[Node(n)].from = p[i].from)
                        /\ \A l \in 1..Len(p) : p[l].from = p[i].from => l = i
      BY SMTT(60) DEF Posted, Waits, Serves
    <3>1. PICK q \in Seq(GoodMsg(m, n)) : q = net[<<m, n>>]
      BY DEF Works
    <3>2. \A l \in 1..Len(q) : /\ q[l] \in GoodMsg(m, n)
                               /\ q[l].from # v
      <4> SUFFICES ASSUME NEW l \in 1..Len(q) PROVE q[l] \in GoodMsg(m, n) /\ q[l].from # v
        OBVIOUS
      <4>1. q[l] \in GoodMsg(m, n)
        BY <3>1
      <4>2. CASE q[l].type = "request"
        <5>1. Waits(q[l].from, q[l].a)
          BY <1>1, <3>1, <4>2 DEF Posted
        <5> QED BY <1>2, <4>1, <5>1 DEF Waits
      <4>3. CASE q[l].type # "request"
        BY <4>1, <4>3, NumbersAt DEF GoodMsg, RequestMsg, ConfigMsg
      <4> QED BY <4>1, <4>2, <4>3
    <3>3. ASSUME i \in 1..Len(q), p[i] = q[i]
          PROVE  /\ job'[Vcpu(p[i].from)].at = "wait" /\ job'[Vcpu(p[i].from)].a = p[i].a
                 /\ reply'[p[i].from] = NoReply /\ job'[Vcpu(p[i].from)].val = p[i].val
                 /\ ~(job'[Node(n)].at # "idle" /\ job'[Node(n)].from = p[i].from)
                 /\ \A l \in 1..Len(q) : q[l].from = q[i].from => l = i
      <4>1. /\ Waits(q[i].from, q[i].a) /\ job[Vcpu(q[i].from)].val = q[i].val /\ ~Serves(n, q[i].from)
            /\ \A l \in 1..Len(q) : q[l].from = q[i].from => l = i
        BY <1>1, <3>1, <3>3 DEF Posted
      <4>2. q[i].from \in Vcpus
        BY <3>1, <3>3, RequestIs
      <4>3. job'[Vcpu(q[i].from)] = job[Vcpu(q[i].from)]
        BY <2>7, <4>1, <4>2 DEF Waits
      <4> QED BY <1>2, <2>6, <3>3, <4>1, <4>3 DEF Waits, Serves
    <3>4. CASE ~(m = h /\ n = d)
      <4>1. p = q
        BY <2>4, <3>1, <3>4
      <4> QED BY <3>3, <4>1
    <3>5. CASE m = h /\ n = d
      <4>1. p = Append(q, new)
        BY <2>4, <3>1, <3>5
      <4>2. /\ Len(p) = Len(q) + 1 /\ p[Len(q) + 1] = new /\ Len(q) \in Nat
            /\ \A l \in 1..Len(q) : p[l] = q[l]
        BY <3>1, <4>1
      <4>3. \A l \in 1..Len(p) : l \in 1..Len(q) \/ l = Len(q) + 1
        BY <4>2
      <4>4. new.from = v /\ new.a = a /\ new.val = k.val
        BY <2>3
      <4>5. CASE i \in 1..Len(q)
        <5>1. p[i] = q[i] /\ p[i].from # v
          BY <3>2, <4>2, <4>5
        <5>2. \A l \in 1..Len(p) : p[l].from = p[i].from => l = i
          BY <3>3, <4>2, <4>3, <4>4, <4>5, <5>1
        <5> QED BY <3>3, <4>5, <5>1, <5>2
      <4>6. CASE i = Len(q) + 1
        <5>1. p[i] = new
          BY <4>2, <4>6
        <5>2. \A l \in 1..Len(p) : p[l].from = p[i].from => l = i
          BY <3>2, <4>2, <4>3, <4>4, <4>6, <5>1
        <5>3. ~(job[Node(n)].at # "idle" /\ job[Node(n)].from = v)
          BY <2>8 DEF Serves
        <5> QED BY <1>2, <2>1, <2>5, <2>6, <2>8, <4>4, <5>1, <5>2, <5>3
      <4> QED BY <4>3, <4>5, <4>6
    <3> QED BY <3>4, <3>5
  <2> QED BY <2>9, <2>10, <2>11 DEF CallOK
<1> QED BY <1>4, <1>5

\* The server takes a request: vmmio_req_recv_intr.
LEMMA CallReceive ==
  ASSUME TypeOK, Works, CallOK, NEW n \in Nodes, NEW m \in Nodes, Receive(n, m)
  PROVE  CallOK'
<1>1. Replied /\ Served /\ Posted
  BY DEF CallOK
<1>2. reply' = reply /\ version' = version /\ job[Node(n)].at = "idle"
  BY DEF Receive, Same, Takes
<1>3. net[<<m, n>>] # << >> /\ net' = [net EXCEPT ![<<m, n>>] = Tail(@)]
  BY ReceiveAt
<1>4. PICK q \in Seq(GoodMsg(m, n)) : q = net[<<m, n>>] /\ q # << >>
  BY <1>3 DEF Works
<1>5. /\ Head(q) = q[1] /\ Head(q) \in GoodMsg(m, n) /\ Len(q) \in Nat /\ Len(q) >= 1
      /\ Len(Tail(q)) = Len(q) - 1 /\ Tail(q) \in Seq(GoodMsg(m, n))
      /\ \A k \in 1..(Len(q) - 1) : Tail(q)[k] = q[k + 1]
  BY <1>4, TakeAt
<1>6. \A a, b \in Nodes : net'[<<a, b>>] = IF a = m /\ b = n THEN Tail(q) ELSE net[<<a, b>>]
  BY <1>3, <1>4 DEF TypeOK
<1>7. PICK k : /\ Step(Node(n), k) /\ k.a = q[1].a
               /\ k.from = IF q[1].type = "request" THEN q[1].from ELSE NoVcpu
  <2>1. PICK msg \in GoodMsg(m, n) : \E k :
              /\ msg = Head(net[<<m, n>>]) /\ Step(Node(n), k)
              /\ msg.type = "request" =>
                   k = [at |-> "do", a |-> msg.a, owner |-> Vcpu(msg.a.vcpu), i |-> 0,
                        val |-> msg.val, seen |-> 0, from |-> msg.from]
              /\ msg.type = "config" =>
                   k = [at |-> "targets", a |-> msg.a, owner |-> Node(n), i |-> 0,
                        val |-> msg.val, seen |-> 0, from |-> NoVcpu]
    BY ReceiveAt
  <2>2. msg = q[1]
    BY <1>4, <1>5, <2>1
  <2>3. msg.type = "request" \/ msg.type = "config"
    BY <2>1 DEF GoodMsg, RequestMsg, ConfigMsg
  <2> QED BY <2>1, <2>2, <2>3
<1>8. job'[Node(n)] = k /\ \A g \in Owners \ {Node(n)} : job'[g] = job[g]
  BY <1>2, <1>7, StepKeeps, OwnerIs
<1>9. \A u \in Vcpus : job'[Vcpu(u)] = job[Vcpu(u)]
  BY <1>8, OwnerIs
<1>10. \A l \in Nodes \ {n} : job'[Node(l)] = job[Node(l)]
  BY <1>8, OwnerIs
<1>11. \A u \in Vcpus : Serves(n, u)' => q[1].type = "request" /\ q[1].from = u
  BY <1>7, <1>8, NumbersAt DEF Serves
<1>12. Replied'
  BY <1>1, <1>2, <1>9 DEF Replied
<1>13. Served'
  <2> SUFFICES ASSUME NEW l \in Nodes, NEW u \in Vcpus, Serves(l, u)'
               PROVE  Waits(u, job[Node(l)].a)'
    BY DEF Served
  <2>1. CASE l # n
    <3>1. Waits(u, job[Node(l)].a)
      BY <1>1, <1>10, <2>1 DEF Served, Serves
    <3> QED BY <1>2, <1>9, <1>10, <2>1, <3>1 DEF Waits
  <2>2. CASE l = n
    <3>1. q[1].type = "request" /\ q[1].from = u
      BY <1>11, <2>2
    <3>2. Waits(q[1].from, q[1].a)
      BY <1>1, <1>4, <1>5, <3>1 DEF Posted
    <3> QED BY <1>2, <1>7, <1>8, <1>9, <2>2, <3>1, <3>2 DEF Waits
  <2> QED BY <2>1, <2>2
<1>14. Posted'
  <2> SUFFICES ASSUME NEW a \in Nodes, NEW b \in Nodes, NEW p, p = net'[<<a, b>>],
                      NEW i \in 1..Len(p), p[i].type = "request"
               PROVE  /\ job'[Vcpu(p[i].from)].at = "wait" /\ job'[Vcpu(p[i].from)].a = p[i].a
                      /\ reply'[p[i].from] = NoReply /\ job'[Vcpu(p[i].from)].val = p[i].val
                      /\ ~(job'[Node(b)].at # "idle" /\ job'[Node(b)].from = p[i].from)
                      /\ \A l \in 1..Len(p) : p[l].from = p[i].from => l = i
    BY SMTT(60) DEF Posted, Waits, Serves
  <2>1. CASE a = m /\ b = n
    <3>1. p = Tail(q)
      BY <1>6, <2>1
    <3>2. /\ i + 1 \in 1..Len(q) /\ p[i] = q[i + 1] /\ i + 1 # 1 /\ 1 \in 1..Len(q)
          /\ \A l \in 1..Len(p) : l \in Nat /\ l + 1 \in 1..Len(q) /\ p[l] = q[l + 1]
      BY <1>5, <3>1
    <3>3. q[i + 1].type = "request"
      BY <3>2
    <3>4. /\ Waits(q[i + 1].from, q[i + 1].a) /\ job[Vcpu(q[i + 1].from)].val = q[i + 1].val
          /\ \A l \in 1..Len(q) : q[l].from = q[i + 1].from => l = i + 1
      BY <1>1, <1>4, <3>2, <3>3 DEF Posted
    <3>5. q[i + 1].from \in Vcpus
      BY <1>4, <3>2, <3>3, RequestIs
    <3>6. ~Serves(b, p[i].from)'
      BY <1>11, <2>1, <3>2, <3>4, <3>5
    <3>7. \A l \in 1..Len(p) : p[l].from = p[i].from => l = i
      <4> SUFFICES ASSUME NEW l \in 1..Len(p), p[l].from = p[i].from PROVE l = i
        OBVIOUS
      <4>1. q[l + 1].from = q[i + 1].from /\ l + 1 \in 1..Len(q) /\ l \in Nat /\ i \in Nat
        BY <3>2
      <4>2. l + 1 = i + 1
        BY <3>4, <4>1
      <4> QED BY <4>1, <4>2
    <3> QED BY <1>2, <1>9, <3>2, <3>4, <3>5, <3>6, <3>7 DEF Waits, Serves
  <2>2. CASE ~(a = m /\ b = n)
    <3>1. p = net[<<a, b>>]
      BY <1>6, <2>2
    <3>2. /\ Waits(p[i].from, p[i].a) /\ job[Vcpu(p[i].from)].val = p[i].val /\ ~Serves(b, p[i].from)
          /\ \A l \in 1..Len(p) : p[l].from = p[i].from => l = i
      BY <1>1, <3>1 DEF Posted
    <3>3. p[i].from \in Vcpus /\ NodeOf(p[i].from) = a
      BY <3>1, RequestIs
    <3>4. ~Serves(b, p[i].from)'
      <4>1. CASE b # n
        BY <1>10, <3>2, <4>1 DEF Serves
      <4>2. CASE b = n
        <5>1. SUFFICES ASSUME Serves(n, p[i].from)' PROVE FALSE
          BY <4>2
        <5>2. q[1].type = "request" /\ q[1].from = p[i].from
          BY <1>11, <3>3, <5>1
        <5>3. NodeOf(q[1].from) = m
          BY <1>4, <1>5, <5>2, RequestIs
        <5> QED BY <2>2, <3>3, <4>2, <5>2, <5>3
      <4> QED BY <4>1, <4>2
    <3> QED BY <1>2, <1>9, <3>2, <3>3, <3>4 DEF Waits, Serves
  <2> QED BY <2>1, <2>2
<1> QED BY <1>12, <1>13, <1>14 DEF CallOK

\* The answer is taken: vmmio_recv_reply.
LEMMA CallReply ==
  ASSUME TypeOK, Works, CallOK, NEW v \in Vcpus, RecvReply(v)
  PROVE  CallOK'
<1>1. Replied /\ Served /\ Posted
  BY DEF CallOK
<1>2. version' = version /\ net' = net /\ reply[v] # NoReply /\ reply' = [reply EXCEPT ![v] = NoReply]
  BY DEF RecvReply, Same
<1>3. PICK k : Step(Vcpu(v), k)
  BY RecvReplyAt
<1>4. \A h \in Owners \ {Vcpu(v)} : job'[h] = job[h]
  BY <1>2, <1>3, StepKeeps, OwnerIs
<1>5. \A n \in Nodes : job'[Node(n)] = job[Node(n)]
  BY <1>4, OwnerIs
<1>6. \A u \in Vcpus \ {v} : job'[Vcpu(u)] = job[Vcpu(u)] /\ reply'[u] = reply[u]
  <2>1. \A u \in Vcpus \ {v} : job'[Vcpu(u)] = job[Vcpu(u)]
    BY <1>4, OwnerIs
  <2> QED BY <1>2, <2>1 DEF TypeOK
<1>7. reply'[v] = NoReply
  BY <1>2 DEF TypeOK
<1>8. Replied'
  BY <1>1, <1>6, <1>7 DEF Replied
<1>9. Served'
  <2> SUFFICES ASSUME NEW n \in Nodes, NEW u \in Vcpus, Serves(n, u)'
               PROVE  Waits(u, job[Node(n)].a)'
    BY DEF Served
  <2>1. Waits(u, job[Node(n)].a)
    BY <1>1, <1>5 DEF Served, Serves
  <2>2. u # v
    BY <1>2, <2>1 DEF Waits
  <2> QED BY <1>5, <1>6, <2>1, <2>2 DEF Waits
<1>10. Posted'
  <2> SUFFICES ASSUME NEW a \in Nodes, NEW b \in Nodes, NEW q, q = net[<<a, b>>],
                      NEW i \in 1..Len(q), q[i].type = "request"
               PROVE  /\ job'[Vcpu(q[i].from)].at = "wait" /\ job'[Vcpu(q[i].from)].a = q[i].a
                      /\ reply'[q[i].from] = NoReply /\ job'[Vcpu(q[i].from)].val = q[i].val
                      /\ ~(job'[Node(b)].at # "idle" /\ job'[Node(b)].from = q[i].from)
                      /\ \A l \in 1..Len(q) : q[l].from = q[i].from => l = i
    BY <1>2, SMTT(60) DEF Posted, Waits, Serves
  <2>1. q[i].from \in Vcpus
    BY RequestIs
  <2>2. /\ Waits(q[i].from, q[i].a) /\ job[Vcpu(q[i].from)].val = q[i].val /\ ~Serves(b, q[i].from)
        /\ \A l \in 1..Len(q) : q[l].from = q[i].from => l = i
    BY <1>1 DEF Posted
  <2>3. q[i].from # v
    BY <1>2, <2>2 DEF Waits
  <2> QED BY <1>5, <1>6, <2>1, <2>2, <2>3 DEF Waits, Serves
<1> QED BY <1>8, <1>9, <1>10 DEF CallOK

\* Every step keeps the calls.
LEMMA CallStep ==
  ASSUME TypeOK, Works, CallOK, [Next]_vars
  PROVE  CallOK'
<1>1. ASSUME NEW v \in Vcpus, NEW a \in Accesses[v], Access(v, a) PROVE CallOK'
  BY <1>1, CallAccess
<1>2. ASSUME NEW n \in Nodes, NEW m \in Nodes, Receive(n, m) PROVE CallOK'
  BY <1>2, CallReceive
<1>3. ASSUME NEW g \in Owners, Handler(g) PROVE CallOK'
  <2>1. PICK k : Step(g, k) /\ Goes(g, k)
    BY <1>3, HandlerIs
  <2>2. version' = version
    BY <1>3 DEF Handler, Emulate, ReadBit, WriteBit, EnableBit, EnableHw, TargetBit, Broadcast, Route, Same
  <2>3. Broadcast(g) \/ net' = net
    BY <1>3 DEF Handler, Emulate, ReadBit, WriteBit, EnableBit, EnableHw, TargetBit, Route
  <2>4. Works'
    BY <1>3, EmulateAt, ReadBitAt, WriteBitAt, EnableBitAt, EnableHwAt, TargetBitAt, BroadcastAt, RouteAt DEF Handler
  <2>5. CASE g[1] = "vcpu"
    <3>1. PICK v \in Vcpus : g = Vcpu(v)
      BY <2>5, OwnerIs
    <3>2. job[g].at # "wait" /\ k.at # "wait" /\ reply' = reply
      BY <2>1, <2>5 DEF Goes
    <3>3. \A m, n \in Nodes : Later(net[<<m, n>>], net'[<<m, n>>])
      <4>1. CASE net' = net
        BY <4>1 DEF Later
      <4>2. CASE Broadcast(g)
        <5>1. PICK msg \in Msgs :
                /\ msg = [type |-> "config", a |-> job[g].a, val |-> job[g].val, from |-> NoVcpu]
                /\ \A m, n \in Nodes : net'[<<m, n>>] =
                     IF m = NodeOfOwner(g) /\ n # m THEN Append(net[<<m, n>>], msg) ELSE net[<<m, n>>]
          BY <4>2, BroadcastAt
        <5>2. msg.type = "config" /\ msg.from = NoVcpu
          BY <5>1
        <5> QED BY <5>1, <5>2 DEF Later
      <4> QED BY <2>3, <4>1, <4>2
    <3> QED BY <2>1, <2>2, <2>4, <3>1, <3>2, <3>3, CallTrap
  <2>6. CASE g[1] # "vcpu"
    <3>1. PICK n \in Nodes : g = Node(n)
      BY <2>6, OwnerIs
    <3>2. ~Broadcast(g)
      BY <2>6, BroadcastAt
    <3> QED BY <2>1, <2>2, <2>3, <3>1, <3>2, CallServer
  <2> QED BY <2>5, <2>6
<1>4. ASSUME NEW v \in Vcpus, RecvReply(v) PROVE CallOK'
  BY <1>4, CallReply
<1>5. ASSUME NEW v \in Vcpus, Return(v) PROVE CallOK'
  <2>1. job[Vcpu(v)].at = "end" /\ version' = version /\ net' = net /\ reply' = reply
    BY <1>5 DEF Return, Same
  <2>2. Step(Vcpu(v), Idle) /\ Idle.at = "idle" /\ Works'
    BY <1>5, ReturnAt DEF Idle
  <2>3. \A m, n \in Nodes : Later(net[<<m, n>>], net'[<<m, n>>])
    BY <2>1 DEF Later
  <2> QED BY <2>1, <2>2, <2>3, CallTrap
<1>6. CASE UNCHANGED vars
  BY <1>6 DEF CallOK, Replied, Served, Posted, Waits, Serves, vars
<1>7. CASE Next
  BY <1>1, <1>2, <1>3, <1>4, <1>5, <1>7, NextIs
<1> QED BY <1>6, <1>7

\* At first nobody calls.
LEMMA CallInit ==
  Init => CallOK
<1> SUFFICES ASSUME Init PROVE CallOK
  OBVIOUS
<1>1. \A g \in Owners : job[g].at = "idle"
  BY DEF Init, Idle
<1>2. \A n \in Nodes : job[Node(n)].at = "idle"
  BY <1>1, OwnerIs
<1>3. \A v \in Vcpus : reply[v] = NoReply
  BY DEF Init
<1>4. \A m, n \in Nodes : net[<<m, n>>] = << >>
  BY DEF Init
<1>5. Replied
  BY <1>3 DEF Replied
<1>6. Served
  BY <1>2 DEF Served, Serves
<1>7. Posted
  BY <1>4 DEF Posted
<1> QED BY <1>5, <1>6, <1>7 DEF CallOK

\* A forwarded access is asked once, served once and answered once, and only
\* while its vCPU waits: a server never works for, and a reply never waits for,
\* anybody else.
THEOREM CallsMatch == Spec => []CallOK
<1>1. Init => HwInv /\ CallOK
  BY HwInit, CallInit
<1>2. HwInv /\ CallOK /\ [Next]_vars => HwInv' /\ CallOK'
  BY HwStep, CallStep DEF HwInv
<1> QED BY <1>1, <1>2, PTL DEF Spec

-----------------------------------------------------------------------------
(* The refinement of RegisterBank.                                         *)

\* The access to register a of o, with i interrupts done and val gathered.
Shape(a, o, i, val) == [op |-> OpOf(a), owner |-> o, field |-> Loop[a.reg], next |-> i, val |-> val]

\* The interrupts job j is done with.
Cursor(j) == j.i + IF j.at = "count" THEN 1 ELSE 0

\* An access of v, served here.
LEMMA ViewLocal ==
  ASSUME NEW v, NEW j, NEW s, NEW r, NEW known, j.at \notin {"idle", "wait"}, known
  PROVE  View(v, j, s, r, known) =
         Shape(j.a, OwnerOf(v, j.a), IF j.at = "end" THEN Width ELSE Cursor(j), j.val)
BY DEF View, OwnerOf, Shape, Cursor

\* An access of v that another node has answered,
LEMMA ViewDone ==
  ASSUME NEW v, NEW j, NEW s, NEW r, NEW known, j.at = "wait", known, r # NoReply
  PROVE  View(v, j, s, r, known) = Shape(j.a, OwnerOf(v, j.a), Width, r[1])
BY DEF View, OwnerOf, Shape

\* serves,
LEMMA ViewServed ==
  ASSUME NEW v, NEW j, NEW s, NEW r, NEW known, j.at = "wait", known, r = NoReply,
         s.at # "idle", s.from = v
  PROVE  View(v, j, s, r, known) = Shape(j.a, OwnerOf(v, j.a), Cursor(s), s.val)
BY DEF View, OwnerOf, Shape, Cursor

\* or has yet to take.
LEMMA ViewSent ==
  ASSUME NEW v, NEW j, NEW s, NEW r, NEW known, j.at = "wait", known, r = NoReply,
         ~(s.at # "idle" /\ s.from = v)
  PROVE  View(v, j, s, r, known) = Shape(j.a, OwnerOf(v, j.a), 0, j.val)
BY DEF View, OwnerOf, Shape

\* No access, or one to a register of another kind.
LEMMA ViewOther ==
  ASSUME NEW v, NEW j, NEW s, NEW r, NEW known
  PROVE  /\ j.at = "idle" => View(v, j, s, r, known) = NoAccess
         /\ j.at # "idle" /\ ~known => View(v, j, s, r, known) = [NoAccess EXCEPT !.op = "other"]
BY DEF View

\* Progress by its definition, in this state and in the next.
LEMMA ProgressIs ==
  ASSUME NEW v \in Vcpus, version' = version
  PROVE  /\ Progress[v] = View(v, job[Vcpu(v)], job[Node(NodeOf(job[Vcpu(v)].a.vcpu))], reply[v],
                               Known(job[Vcpu(v)].a))
         /\ Progress'[v] = View(v, job'[Vcpu(v)], job'[Node(NodeOf(job'[Vcpu(v)].a.vcpu))], reply'[v],
                                Known(job'[Vcpu(v)].a))
<1>1. \A a : Known(a)' <=> Known(a)
  BY Fixed DEF Known
<1>2. Progress[v] = View(v, job[Vcpu(v)], job[Node(NodeOf(job[Vcpu(v)].a.vcpu))], reply[v],
                         Known(job[Vcpu(v)].a))
  BY DEF Progress
<1>3. PICK known : known = Known(job[Vcpu(v)].a)'
  OBVIOUS
<1>4. Progress'[v] = View(v, job'[Vcpu(v)], job'[Node(NodeOf(job'[Vcpu(v)].a.vcpu))], reply'[v], known)
  BY <1>3 DEF Progress
<1>5. known = Known(job'[Vcpu(v)].a)
  BY <1>3, Fixed DEF Known
<1> QED BY <1>2, <1>4, <1>5

\* Where the work for u is the same, so is the access.
LEMMA SameView ==
  ASSUME TypeOK, Works, NEW u \in Vcpus, version' = version, job'[Vcpu(u)] = job[Vcpu(u)],
         reply'[u] = reply[u],
         \A n \in Nodes : job'[Node(n)] = job[Node(n)] \/ (~Serves(n, u) /\ ~Serves(n, u)')
  PROVE  Progress'[u] = Progress[u]
<1>1. PICK j, s, t, r, known :
        /\ j = job[Vcpu(u)] /\ s = job[Node(NodeOf(j.a.vcpu))] /\ t = job'[Node(NodeOf(j.a.vcpu))]
        /\ r = reply[u] /\ known = Known(j.a)
  OBVIOUS
<1>2. Progress[u] = View(u, j, s, r, known) /\ Progress'[u] = View(u, j, t, r, known)
  BY <1>1, ProgressIs
<1>3. j.at # "idle" => s = t \/ (~(s.at # "idle" /\ s.from = u) /\ ~(t.at # "idle" /\ t.from = u))
  <2>1. j.at # "idle" => NodeOf(j.a.vcpu) \in Nodes
    BY <1>1, JobIs, OwnerIs, NodeOfIs DEF AccessRec
  <2> QED BY <1>1, <2>1 DEF Serves
<1>4. CASE j.at = "idle" \/ ~known
  BY <1>2, <1>4, ViewOther
<1>5. CASE j.at \notin {"idle", "wait"} /\ known
  BY <1>2, <1>5, ViewLocal
<1>6. CASE j.at = "wait" /\ known
  <2>1. CASE r # NoReply
    <3>1. View(u, j, s, r, known) = Shape(j.a, OwnerOf(u, j.a), Width, r[1])
      BY <1>6, <2>1, ViewDone
    <3>2. View(u, j, t, r, known) = Shape(j.a, OwnerOf(u, j.a), Width, r[1])
      BY <1>6, <2>1, ViewDone
    <3> QED BY <1>2, <3>1, <3>2
  <2>2. CASE r = NoReply /\ s = t
    BY <1>2, <2>2
  <2>3. CASE r = NoReply /\ ~(s.at # "idle" /\ s.from = u) /\ ~(t.at # "idle" /\ t.from = u)
    <3>1. View(u, j, s, r, known) = Shape(j.a, OwnerOf(u, j.a), 0, j.val)
      BY <1>6, <2>3, ViewSent
    <3>2. View(u, j, t, r, known) = Shape(j.a, OwnerOf(u, j.a), 0, j.val)
      BY <1>6, <2>3, ViewSent
    <3> QED BY <1>2, <3>1, <3>2
  <2> QED BY <1>3, <1>6, <2>1, <2>2, <2>3
<1> QED BY <1>4, <1>5, <1>6

\* A step of a vCPU is seen by nobody else.
LEMMA OthersTrap ==
  ASSUME TypeOK, Works, NEW v \in Vcpus, NEW k, Step(Vcpu(v), k), version' = version,
         NEW u \in Vcpus \ {v}, reply'[u] = reply[u]
  PROVE  Progress'[u] = Progress[u]
<1>1. \A h \in Owners \ {Vcpu(v)} : job'[h] = job[h]
  BY StepKeeps, OwnerIs
<1>2. job'[Vcpu(u)] = job[Vcpu(u)]
  BY <1>1, OwnerIs
<1>3. \A n \in Nodes : job'[Node(n)] = job[Node(n)]
  BY <1>1, OwnerIs
<1> QED BY <1>2, <1>3, SameView

\* A step of a server is seen by the vCPU it works for alone.
LEMMA OthersServer ==
  ASSUME TypeOK, Works, NEW n \in Nodes, NEW k, Step(Node(n), k), version' = version,
         Goes(Node(n), k), NEW u \in Vcpus, ~Serves(n, u)
  PROVE  Progress'[u] = Progress[u]
<1>1. Node(n) \in Owners /\ Node(n)[1] = "node"
  BY OwnerIs
<1>2. job'[Node(n)] = k /\ \A h \in Owners \ {Node(n)} : job'[h] = job[h]
  BY <1>1, StepKeeps
<1>3. job'[Vcpu(u)] = job[Vcpu(u)]
  BY <1>2, OwnerIs
<1>4. \A m \in Nodes \ {n} : job'[Node(m)] = job[Node(m)]
  BY <1>2, OwnerIs
<1>5. ~Serves(n, u)'
  BY <1>1, <1>2 DEF Serves, Goes, Idle
<1>6. reply'[u] = reply[u]
  <2>1. job[Node(n)].from # u
    BY <1>1 DEF Serves, Goes
  <2> QED BY <1>1, <2>1 DEF Goes, TypeOK
<1> QED BY <1>3, <1>4, <1>5, <1>6, SameView

\* The vCPU that g works for.
Actor(g) == IF g[1] = "vcpu" THEN g[2] ELSE job[g].from

\* An access being served, at home or for another node, is the actor's.
LEMMA LoopBefore ==
  ASSUME TypeOK, Works, CallOK, NEW g \in Owners, job[g].at \in {"do", "loop", "count"},
         Known(job[g].a), version' = version
  PROVE  /\ Actor(g) \in Vcpus
         /\ Progress[Actor(g)] = Shape(job[g].a, job[g].owner, Cursor(job[g]), job[g].val)
<1>1. CASE g[1] = "vcpu"
  <2>1. Actor(g) \in Vcpus /\ g = Vcpu(Actor(g))
    BY <1>1, OwnerIs DEF Actor
  <2>2. TrapJob(g, job[g])
    BY <1>1, JobIs DEF RequestJob, ConfigJob
  <2>3. job[g].owner = OwnerOf(Actor(g), job[g].a)
    BY <1>1, <2>2 DEF TrapJob, Actor
  <2>4. PICK v, j, s, r : v = Actor(g) /\ j = job[Vcpu(v)] /\ s = job[Node(NodeOf(j.a.vcpu))] /\ r = reply[v]
    OBVIOUS
  <2>5. Progress[v] = View(v, j, s, r, Known(j.a))
    BY <2>1, <2>4, ProgressIs
  <2>6. View(v, j, s, r, Known(j.a)) = Shape(j.a, OwnerOf(v, j.a), Cursor(j), j.val)
    <3>1. j.at \notin {"idle", "wait", "end"} /\ Known(j.a)
      BY <2>1, <2>4
    <3> QED BY <3>1, ViewLocal
  <2> QED BY <2>1, <2>3, <2>4, <2>5, <2>6
<1>2. CASE g[1] = "node"
  <2>1. g[2] \in Nodes /\ g = Node(g[2])
    BY <1>2, OwnerIs
  <2>2. RequestJob(g, job[g])
    BY <1>2, JobIs DEF TrapJob, ConfigJob
  <2>3. Actor(g) \in Vcpus /\ Actor(g) = job[g].from /\ Serves(g[2], Actor(g))
    BY <1>2, <2>1, <2>2 DEF RequestJob, Actor, Serves
  <2>4. Waits(Actor(g), job[g].a) /\ NodeOf(job[g].a.vcpu) = g[2]
    BY <2>1, <2>2, <2>3 DEF CallOK, Served, RequestJob
  <2>5. job[g].owner = OwnerOf(Actor(g), job[g].a)
    BY <2>2 DEF RequestJob, OwnerOf, Away
  <2>6. PICK v, j, s, r : v = Actor(g) /\ j = job[Vcpu(v)] /\ s = job[Node(NodeOf(j.a.vcpu))] /\ r = reply[v]
    OBVIOUS
  <2>7. Progress[v] = View(v, j, s, r, Known(j.a))
    BY <2>3, <2>6, ProgressIs
  <2>8. j.at = "wait" /\ j.a = job[g].a /\ r = NoReply /\ s = job[g]
    BY <2>1, <2>4, <2>6 DEF Waits
  <2>9. View(v, j, s, r, Known(j.a)) = Shape(j.a, OwnerOf(v, j.a), Cursor(s), s.val)
    <3>1. s.at # "idle" /\ s.from = v /\ Known(j.a)
      BY <2>3, <2>6, <2>8
    <3> QED BY <2>8, <3>1, ViewServed
  <2> QED BY <2>3, <2>5, <2>6, <2>7, <2>8, <2>9
<1> QED BY <1>1, <1>2, OwnerIs

\* While it is served,
LEMMA LoopAfter ==
  ASSUME TypeOK, Works, CallOK, NEW g \in Owners, job[g].at \in {"do", "loop", "count"},
         Known(job[g].a), version' = version, NEW k, Step(g, k), k.at \in {"do", "loop", "count"},
         k.a = job[g].a, k.from = job[g].from, reply' = reply
  PROVE  Progress'[Actor(g)] = Shape(job[g].a, job[g].owner, Cursor(k), k.val)
<1>0. job'[g] = k /\ \A h \in Owners \ {g} : job'[h] = job[h]
  BY StepKeeps
<1>1. CASE g[1] = "vcpu"
  <2>1. Actor(g) \in Vcpus /\ g = Vcpu(Actor(g))
    BY <1>1, OwnerIs DEF Actor
  <2>2. TrapJob(g, job[g])
    BY <1>1, JobIs DEF RequestJob, ConfigJob
  <2>3. job[g].owner = OwnerOf(Actor(g), job[g].a)
    BY <1>1, <2>2 DEF TrapJob, Actor
  <2>4. PICK v, s, r : v = Actor(g) /\ s = job'[Node(NodeOf(k.a.vcpu))] /\ r = reply'[v]
    OBVIOUS
  <2>5. Progress'[v] = View(v, k, s, r, Known(k.a))
    BY <1>0, <2>1, <2>4, ProgressIs
  <2>6. View(v, k, s, r, Known(k.a)) = Shape(k.a, OwnerOf(v, k.a), Cursor(k), k.val)
    <3>1. k.at \notin {"idle", "wait", "end"} /\ Known(k.a)
      OBVIOUS
    <3> QED BY <3>1, ViewLocal
  <2> QED BY <2>1, <2>3, <2>4, <2>5, <2>6
<1>2. CASE g[1] = "node"
  <2>1. g[2] \in Nodes /\ g = Node(g[2])
    BY <1>2, OwnerIs
  <2>2. RequestJob(g, job[g])
    BY <1>2, JobIs DEF TrapJob, ConfigJob
  <2>3. Actor(g) \in Vcpus /\ Actor(g) = job[g].from /\ Serves(g[2], Actor(g))
    BY <1>2, <2>1, <2>2 DEF RequestJob, Actor, Serves
  <2>4. Waits(Actor(g), job[g].a) /\ NodeOf(job[g].a.vcpu) = g[2]
    BY <2>1, <2>2, <2>3 DEF CallOK, Served, RequestJob
  <2>5. job[g].owner = OwnerOf(Actor(g), job[g].a)
    BY <2>2 DEF RequestJob, OwnerOf, Away
  <2>6. PICK v, j, s, r : v = Actor(g) /\ j = job'[Vcpu(v)] /\ s = job'[Node(NodeOf(j.a.vcpu))] /\ r = reply'[v]
    OBVIOUS
  <2>7. Progress'[v] = View(v, j, s, r, Known(j.a))
    BY <2>3, <2>6, ProgressIs
  <2>8. j = job[Vcpu(v)]
    BY <1>0, <2>1, <2>3, <2>6, OwnerIs
  <2>10. j.at = "wait" /\ j.a = job[g].a /\ r = NoReply /\ s = k
    BY <1>0, <2>1, <2>4, <2>6, <2>8 DEF Waits
  <2>9. View(v, j, s, r, Known(j.a)) = Shape(j.a, OwnerOf(v, j.a), Cursor(s), s.val)
    <3>1. s.at # "idle" /\ s.from = v /\ Known(j.a)
      BY <2>3, <2>6, <2>10
    <3> QED BY <2>10, <3>1, ViewServed
  <2> QED BY <2>3, <2>5, <2>6, <2>7, <2>10, <2>9
<1> QED BY <1>1, <1>2, OwnerIs

\* and when it is answered.
LEMMA LoopDone ==
  ASSUME TypeOK, Works, CallOK, NEW g \in Owners, job[g].at \in {"do", "loop", "count"},
         Known(job[g].a), version' = version, NEW k, Step(g, k), NEW val \in Vals, Answered(g, k, val)
  PROVE  Progress'[Actor(g)] = Shape(job[g].a, job[g].owner, Width, val)
<1>0. job'[g] = k /\ \A h \in Owners \ {g} : job'[h] = job[h]
  BY StepKeeps
<1>1. CASE g[1] = "vcpu"
  <2>1. Actor(g) \in Vcpus /\ g = Vcpu(Actor(g))
    BY <1>1, OwnerIs DEF Actor
  <2>2. TrapJob(g, job[g]) /\ job[g] \in Jobs
    BY <1>1, JobIs DEF RequestJob, ConfigJob
  <2>3. job[g].owner = OwnerOf(Actor(g), job[g].a)
    BY <1>1, <2>2 DEF TrapJob, Actor
  <2>4. PICK v, s, r : v = Actor(g) /\ s = job'[Node(NodeOf(k.a.vcpu))] /\ r = reply'[v]
    OBVIOUS
  <2>5. Progress'[v] = View(v, k, s, r, Known(k.a))
    BY <1>0, <2>1, <2>4, ProgressIs
  <2>7. k.at = "end" /\ k.a = job[g].a /\ k.val = val
    <3>1. PICK j \in Jobs : j = job[g]
      BY <2>2
    <3>2. k = [j EXCEPT !.at = "end", !.val = val]
      BY <1>1, <3>1 DEF Answered
    <3> QED BY <3>1, <3>2 DEF Jobs
  <2>6. View(v, k, s, r, Known(k.a)) = Shape(k.a, OwnerOf(v, k.a), Width, k.val)
    <3>1. k.at \notin {"idle", "wait"} /\ Known(k.a)
      BY <2>7
    <3> QED BY <2>7, <3>1, ViewLocal
  <2> QED BY <2>1, <2>3, <2>4, <2>5, <2>6, <2>7
<1>2. CASE g[1] = "node"
  <2>1. g[2] \in Nodes /\ g = Node(g[2])
    BY <1>2, OwnerIs
  <2>2. RequestJob(g, job[g])
    BY <1>2, JobIs DEF TrapJob, ConfigJob
  <2>3. Actor(g) \in Vcpus /\ Actor(g) = job[g].from /\ Serves(g[2], Actor(g))
    BY <1>2, <2>1, <2>2 DEF RequestJob, Actor, Serves
  <2>4. Waits(Actor(g), job[g].a)
    BY <2>1, <2>3 DEF CallOK, Served
  <2>5. job[g].owner = OwnerOf(Actor(g), job[g].a)
    BY <2>2 DEF RequestJob, OwnerOf, Away
  <2>6. PICK v, j, s, r : v = Actor(g) /\ j = job'[Vcpu(v)] /\ s = job'[Node(NodeOf(j.a.vcpu))] /\ r = reply'[v]
    OBVIOUS
  <2>7. Progress'[v] = View(v, j, s, r, Known(j.a))
    BY <2>3, <2>6, ProgressIs
  <2>8. j = job[Vcpu(v)]
    BY <1>0, <2>1, <2>3, <2>6, OwnerIs
  <2>10. j.at = "wait" /\ j.a = job[g].a
    BY <2>4, <2>6, <2>8 DEF Waits
  <2>11. r = <<val>>
    BY <1>2, <2>3, <2>6 DEF Answered, TypeOK
  <2>9. View(v, j, s, r, Known(j.a)) = Shape(j.a, OwnerOf(v, j.a), Width, r[1])
    <3>1. r # NoReply /\ Known(j.a)
      BY <2>10, <2>11 DEF NoReply
    <3> QED BY <2>10, <3>1, ViewDone
  <2> QED BY <2>5, <2>6, <2>7, <2>9, <2>10, <2>11
<1> QED BY <1>1, <1>2, OwnerIs

\* Nobody else sees it.
LEMMA LoopOthers ==
  ASSUME TypeOK, Works, NEW g \in Owners, version' = version, NEW k, Step(g, k), Goes(g, k)
  PROVE  \A u \in Vcpus \ {Actor(g)} : Progress'[u] = Progress[u]
<1> SUFFICES ASSUME NEW u \in Vcpus \ {Actor(g)} PROVE Progress'[u] = Progress[u]
  OBVIOUS
<1>1. CASE g[1] = "vcpu"
  <2>1. Actor(g) \in Vcpus /\ g = Vcpu(Actor(g))
    BY <1>1, OwnerIs DEF Actor
  <2>2. reply'[u] = reply[u]
    BY <1>1 DEF Goes
  <2> QED BY <2>1, <2>2, OthersTrap
<1>2. CASE g[1] = "node"
  <2>1. g[2] \in Nodes /\ g = Node(g[2])
    BY <1>2, OwnerIs
  <2>2. ~Serves(g[2], u)
    BY <1>2, <2>1 DEF Serves, Actor
  <2> QED BY <2>1, <2>2, OthersServer
<1> QED BY <1>1, <1>2, OwnerIs

\* A step of the loop of g that is done with interrupt i, having gathered j.val.
LEMMA NextMoves ==
  ASSUME TypeOK, Works, CallOK, NEW g \in Owners, job[g].at \in {"loop", "count"}, version' = version,
         NEW k, Step(g, k), NEW j \in Jobs, j.at = "loop", j.a = job[g].a, j.owner = job[g].owner,
         j.from = job[g].from, j.i = job[g].i,
         j.i + 1 < Width => k = [j EXCEPT !.i = j.i + 1] /\ reply' = reply,
         ~(j.i + 1 < Width) => Answered(g, k, j.val)
  PROVE  /\ Progress'[Actor(g)] = Shape(job[g].a, job[g].owner, job[g].i + 1, j.val)
         /\ \A u \in Vcpus \ {Actor(g)} : Progress'[u] = Progress[u]
<1>1. Known(job[g].a)
  BY JobIs, EmulateIs DEF Known, Stage, TypeOK
<1>2. j.val \in Vals /\ j.i \in Nat /\ Width \in Nat /\ j.i < Width
  BY NumbersAt DEF Jobs
<1>3. \A u \in Vcpus \ {Actor(g)} : Progress'[u] = Progress[u]
  BY NextGoes, LoopOthers
<1>4. CASE j.i + 1 < Width
  <2>1. k.at = "loop" /\ k.a = job[g].a /\ k.from = job[g].from /\ k.val = j.val /\ k.i = job[g].i + 1
    BY <1>2, <1>4 DEF Jobs
  <2>2. Cursor(k) = job[g].i + 1
    BY <1>2, <2>1 DEF Cursor
  <2>3. Progress'[Actor(g)] = Shape(job[g].a, job[g].owner, Cursor(k), k.val)
    BY <1>1, <1>4, <2>1, LoopAfter
  <2> QED BY <1>3, <2>1, <2>2, <2>3
<1>5. CASE ~(j.i + 1 < Width)
  <2>1. Width = job[g].i + 1
    BY <1>2, <1>5
  <2>2. Progress'[Actor(g)] = Shape(job[g].a, job[g].owner, Width, j.val)
    BY <1>1, <1>2, <1>5, LoopDone
  <2> QED BY <1>3, <2>1, <2>2
<1> QED BY <1>4, <1>5

\* A function and one that differs from it in at most one place.
LEMMA UpdateIs ==
  ASSUME NEW S, NEW h, NEW k, NEW z \in S, NEW y, h = [w \in S |-> h[w]], k = [w \in S |-> k[w]],
         k[z] = y, \A w \in S \ {z} : k[w] = h[w]
  PROVE  k = [h EXCEPT ![z] = y]
OBVIOUS

\* The registers by interrupt and field.
LEMMA RegistersAre ==
  /\ Registers = [o \in Owners |-> [i \in Bits |-> [f \in Fields |-> irqs[o][i][f]]]]
  /\ Registers' = [o \in Owners |-> [i \in Bits |-> [f \in Fields |-> irqs'[o][i][f]]]]
BY DEF Registers

\* One field of one interrupt is written,
LEMMA RegistersSet ==
  ASSUME NEW o \in Owners, NEW i \in Bits, NEW f \in Fields, NEW e,
         \A q \in Fields : irqs'[o][i][q] = IF q = f THEN e ELSE irqs[o][i][q],
         \A p \in Owners : \A b \in Bits : p # o \/ b # i => irqs'[p][b] = irqs[p][b]
  PROVE  Registers' = [Registers EXCEPT ![o][i][f] = e]
<1>1. PICK r, s : r = irqs /\ s = irqs'
  OBVIOUS
<1>2. /\ \A q \in Fields : s[o][i][q] = IF q = f THEN e ELSE r[o][i][q]
      /\ \A p \in Owners : \A b \in Bits : p # o \/ b # i => s[p][b] = r[p][b]
  BY <1>1
<1>3. /\ Registers = [p \in Owners |-> [b \in Bits |-> [q \in Fields |-> r[p][b][q]]]]
      /\ Registers' = [p \in Owners |-> [b \in Bits |-> [q \in Fields |-> s[p][b][q]]]]
  BY <1>1, RegistersAre
<1> HIDE <1>1
<1>4. Registers[o][i] = [q \in Fields |-> r[o][i][q]] /\ Registers[o] = [b \in Bits |-> [q \in Fields |-> r[o][b][q]]]
  BY <1>3
<1>5. [q \in Fields |-> s[o][i][q]] = [Registers[o][i] EXCEPT ![f] = e]
  BY <1>2, <1>4
<1>6. [b \in Bits |-> [q \in Fields |-> s[o][b][q]]] = [Registers[o] EXCEPT ![i] = [Registers[o][i] EXCEPT ![f] = e]]
  <2>1. \A b \in Bits \ {i} : [q \in Fields |-> s[o][b][q]] = [q \in Fields |-> r[o][b][q]]
    BY <1>2
  <2>2. PICK c, d : c = [b \in Bits |-> [q \in Fields |-> s[o][b][q]]] /\ d = Registers[o]
    OBVIOUS
  <2>3. c = [b \in Bits |-> c[b]] /\ d = [b \in Bits |-> d[b]]
    BY <1>4, <2>2
  <2>4. c[i] = [Registers[o][i] EXCEPT ![f] = e]
    BY <1>5, <2>2
  <2>5. \A b \in Bits \ {i} : c[b] = d[b]
    BY <1>4, <2>1, <2>2
  <2>6. c = [d EXCEPT ![i] = [Registers[o][i] EXCEPT ![f] = e]]
    BY <2>3, <2>4, <2>5, UpdateIs
  <2> QED BY <2>2, <2>6
<1>7. \A p \in Owners \ {o} : [b \in Bits |-> [q \in Fields |-> s[p][b][q]]] = [b \in Bits |-> [q \in Fields |-> r[p][b][q]]]
  BY <1>2
<1>8. Registers' = [Registers EXCEPT ![o] = [Registers[o] EXCEPT ![i] = [Registers[o][i] EXCEPT ![f] = e]]]
  <2>1. PICK c, d : c = Registers' /\ d = Registers
    OBVIOUS
  <2>2. c = [p \in Owners |-> c[p]] /\ d = [p \in Owners |-> d[p]]
    BY <1>3, <2>1
  <2>3. c[o] = [Registers[o] EXCEPT ![i] = [Registers[o][i] EXCEPT ![f] = e]]
    BY <1>3, <1>6, <2>1
  <2>4. \A p \in Owners \ {o} : c[p] = d[p]
    BY <1>3, <1>7, <2>1
  <2>5. c = [d EXCEPT ![o] = [Registers[o] EXCEPT ![i] = [Registers[o][i] EXCEPT ![f] = e]]]
    BY <2>2, <2>3, <2>4, UpdateIs
  <2> QED BY <2>1, <2>5
<1> QED BY <1>8

\* or none of the four fields is.
LEMMA RegistersSame ==
  ASSUME \A o \in Owners : \A i \in Bits : \A f \in Fields : irqs'[o][i][f] = irqs[o][i][f]
  PROVE  Registers' = Registers
BY RegistersAre

\* A field of a record of an interrupt.
LEMMA FieldAt ==
  ASSUME NEW r \in Irqs, NEW f \in Fields, NEW e, NEW s, s = [r EXCEPT ![f] = e]
  PROVE  \A q \in Fields : s[q] = IF q = f THEN e ELSE r[q]
<1>1. \A q \in Fields : q \in DOMAIN r
  BY DEF Irqs, Fields
<1> QED BY <1>1

\* What the loop does to interrupt i at its owner is what the promise says.
LEMMA TouchIs ==
  ASSUME NEW v \in Vcpus, NEW a, NEW o \in Owners, NEW i \in Bits, NEW val \in Vals, NEW nv, NEW e,
         Progress[v] = Shape(a, o, i, val), Progress'[v] = Shape(a, o, i + 1, nv),
         \A u \in Vcpus \ {v} : Progress'[u] = Progress[u], x' = x,
         Registers' = [Registers EXCEPT ![o][i][Loop[a.reg]] = e],
         Loop[a.reg] \in Fields,
         nv = IF OpOf(a) = "read" THEN [val EXCEPT ![i] = Registers[o][i][Loop[a.reg]]] ELSE val,
         OpOf(a) = "read" => e = Registers[o][i][Loop[a.reg]],
         OpOf(a) = "write" => e = val[i],
         OpOf(a) = "set" => e = IF val[i] = 1 THEN 1 ELSE Registers[o][i][Loop[a.reg]],
         OpOf(a) = "clear" => e = IF val[i] = 1 THEN 0 ELSE Registers[o][i][Loop[a.reg]]
  PROVE  Abstract!Touch(v)
<1>1. PICK p, np, b, nb, f, op :
        /\ p = Progress /\ np = Progress' /\ b = Registers /\ nb = Registers' /\ f = Loop[a.reg] /\ op = OpOf(a)
  OBVIOUS
<1>2. op \in {"read", "write", "set", "clear"}
  BY <1>1 DEF OpOf
<1>3. p[v] = [op |-> op, owner |-> o, field |-> f, next |-> i, val |-> val]
  BY <1>1 DEF Shape
<1>4. np[v] = [op |-> op, owner |-> o, field |-> f, next |-> i + 1, val |-> nv]
  BY <1>1 DEF Shape
<1>5. /\ p = [u \in Vcpus |-> p[u]] /\ np = [u \in Vcpus |-> np[u]]
  BY <1>1 DEF Progress
<1>6. b = [q \in Owners |-> [c \in Bits |-> [d \in Fields |-> b[q][c][d]]]]
  BY <1>1, RegistersAre
<1>7. nb = [b EXCEPT ![o][i][f] = e]
  BY <1>1
<1>8. i \in Nat /\ i < Width
  BY NumbersAt
<1>9. nv = [val EXCEPT ![i] = IF op = "read" THEN b[o][i][f] ELSE @]
  BY <1>1 DEF Vals
<1>10. np = [p EXCEPT ![v].next = @ + 1, ![v].val[i] = IF op = "read" THEN b[o][i][f] ELSE @]
  <2>1. np[v] = [p[v] EXCEPT !.next = @ + 1, !.val[i] = IF op = "read" THEN b[o][i][f] ELSE @]
    <3>1. PICK y : y = IF op = "read" THEN b[o][i][f] ELSE val[i]
      OBVIOUS
    <3>2. nv = [val EXCEPT ![i] = y]
      BY <1>9, <3>1
    <3>3. np[v] = [p[v] EXCEPT !.next = i + 1, !.val = [val EXCEPT ![i] = y]]
      <4>1. PICK q, nq : q = p[v] /\ nq = np[v]
        OBVIOUS
      <4>2. q = [op |-> op, owner |-> o, field |-> f, next |-> i, val |-> val]
        BY <1>3, <4>1
      <4>3. nq = [op |-> op, owner |-> o, field |-> f, next |-> i + 1, val |-> nv]
        BY <1>4, <4>1
      <4>4. nq = [q EXCEPT !.next = i + 1, !.val = nv]
        <5>1. PICK m : m = i + 1
          OBVIOUS
        <5>2. nq = [op |-> op, owner |-> o, field |-> f, next |-> m, val |-> nv]
          BY <4>3, <5>1
        <5>3. [q EXCEPT !.next = m] = [op |-> op, owner |-> o, field |-> f, next |-> m, val |-> val]
          BY <4>2
        <5>4. nq = [[q EXCEPT !.next = m] EXCEPT !.val = nv]
          <6>1. PICK z : z = [q EXCEPT !.next = m]
            OBVIOUS
          <6>2. z = [op |-> op, owner |-> o, field |-> f, next |-> m, val |-> val]
            BY <5>3, <6>1
          <6>3. [z EXCEPT !.val = nv] = [op |-> op, owner |-> o, field |-> f, next |-> m, val |-> nv]
            BY <6>2
          <6> QED BY <5>2, <6>1, <6>3
        <5>5. nq = [q EXCEPT !.next = m, !.val = nv]
          BY <5>4
        <5> QED BY <5>1, <5>5
      <4> QED BY <3>2, <4>1, <4>4
    <3>4. p[v].val = val /\ p[v].next = i
      BY <1>3
    <3>5. PICK q, nq : q = p[v] /\ nq = np[v]
      OBVIOUS
    <3>6. nq = [q EXCEPT !.next = q.next + 1, !.val = [q.val EXCEPT ![i] = IF op = "read" THEN b[o][i][f] ELSE q.val[i]]]
      BY <3>1, <3>3, <3>4, <3>5
    <3> QED BY <3>5, <3>6
  <2>2. np = [p EXCEPT ![v] = [p[v] EXCEPT !.next = @ + 1, !.val[i] = IF op = "read" THEN b[o][i][f] ELSE @]]
    BY <1>1, <1>5, <2>1
  <2> QED BY <2>2
<1>11. e = b[o][i][f] => nb = b
  <2> SUFFICES ASSUME e = b[o][i][f] PROVE nb = b
    OBVIOUS
  <2>1. b[o][i] = [b[o][i] EXCEPT ![f] = e]
    <3>1. PICK d : d = b[o][i]
      OBVIOUS
    <3>2. d = [w \in Fields |-> d[w]] /\ f \in Fields /\ d[f] = e
      BY <1>1, <1>6, <3>1
    <3>3. d = [d EXCEPT ![f] = e]
      BY <3>2, UpdateIs
    <3> QED BY <3>1, <3>3
  <2>2. b[o] = [b[o] EXCEPT ![i] = [b[o][i] EXCEPT ![f] = e]]
    <3>1. PICK d : d = b[o]
      OBVIOUS
    <3>2. d = [w \in Bits |-> d[w]]
      BY <1>6, <3>1
    <3>3. d[i] = [b[o][i] EXCEPT ![f] = e]
      BY <2>1, <3>1
    <3>4. d = [d EXCEPT ![i] = [b[o][i] EXCEPT ![f] = e]]
      BY <3>2, <3>3, UpdateIs
    <3> QED BY <3>1, <3>4
  <2>3. b = [b EXCEPT ![o] = [b[o] EXCEPT ![i] = [b[o][i] EXCEPT ![f] = e]]]
    <3>1. b = [w \in Owners |-> b[w]]
      BY <1>6
    <3>2. PICK y : y = [b[o] EXCEPT ![i] = [b[o][i] EXCEPT ![f] = e]]
      OBVIOUS
    <3>3. b = [b EXCEPT ![o] = y]
      BY <2>2, <3>1, <3>2, UpdateIs
    <3> QED BY <3>2, <3>3
  <2> QED BY <1>7, <2>3
<1>12. nb = CASE op = "write" -> [b EXCEPT ![o][i][f] = val[i]]
              [] op = "set" /\ val[i] = 1 -> [b EXCEPT ![o][i][f] = 1]
              [] op = "clear" /\ val[i] = 1 -> [b EXCEPT ![o][i][f] = 0]
              [] OTHER -> b
  <2>1. CASE op = "write"
    BY <1>1, <1>7, <2>1
  <2>2. CASE op = "set" /\ val[i] = 1
    BY <1>1, <1>7, <2>2
  <2>3. CASE op = "clear" /\ val[i] = 1
    BY <1>1, <1>7, <2>3
  <2>4. CASE op # "write" /\ ~(op = "set" /\ val[i] = 1) /\ ~(op = "clear" /\ val[i] = 1)
    <3>1. e = b[o][i][f]
      BY <1>1, <1>2, <2>4
    <3> QED BY <1>11, <2>4, <3>1
  <2> QED BY <2>1, <2>2, <2>3, <2>4
<1>13. /\ p[v].op = op /\ p[v].owner = o /\ p[v].field = f /\ p[v].next = i /\ p[v].val = val
  BY <1>3
<1> QED
  BY <1>1, <1>2, <1>8, <1>10, <1>12, <1>13 DEF Abstract!Touch, Abstract!Op

\* The guest sees nothing of a step.
Unseen == UNCHANGED <<Registers, Progress, x>>

\* A step that changes no view of an access and no register is unseen.
LEMMA UnseenIs ==
  ASSUME \A u \in Vcpus : Progress'[u] = Progress[u], Registers' = Registers, x' = x
  PROVE  Unseen
<1>1. Progress' = Progress
  BY DEF Progress
<1> QED BY <1>1 DEF Unseen

\* The vCPU's access is seen to change, and nobody else's.
LEMMA ProgressSet ==
  ASSUME NEW v \in Vcpus, NEW y, Progress'[v] = y, \A u \in Vcpus \ {v} : Progress'[u] = Progress[u]
  PROVE  Progress' = [Progress EXCEPT ![v] = y]
<1>1. PICK p, np : p = Progress /\ np = Progress'
  OBVIOUS
<1>2. p = [u \in Vcpus |-> p[u]] /\ np = [u \in Vcpus |-> np[u]]
  BY <1>1 DEF Progress
<1>3. np = [p EXCEPT ![v] = y]
  BY <1>1, <1>2, UpdateIs
<1> QED BY <1>1, <1>3

\* The vCPU without an access, in the promise and here.
LEMMA FreeIs ==
  NoAccess = Abstract!Free /\ Abstract!Bits = Bits
BY DEF Abstract!Free, NoAccess, None, Bits, Abstract!Bits

\* A register of the four fields.
LEMMA KnownIs ==
  ASSUME NEW a \in AccessRec, Known(a)
  PROVE  OpOf(a) \in Abstract!Op /\ Loop[a.reg] \in Fields /\ (OpOf(a) = "read" <=> ~a.wr)
<1>1. a.reg \in {"igroup", "isenable", "icenable", "ipriority", "icfg"} /\ a.wr \in BOOLEAN
  BY DEF Known, Loop, AccessRec
<1>2. Loop[a.reg] \in Fields
  BY <1>1 DEF Loop, Fields
<1>3. OpOf(a) \in Abstract!Op /\ (OpOf(a) = "read" <=> ~a.wr)
  BY <1>1 DEF OpOf, Abstract!Op
<1> QED BY <1>2, <1>3

\* vm_dabort begins an access.
LEMMA BankAccess ==
  ASSUME TypeOK, Works, CallOK, NEW v \in Vcpus, NEW a \in Accesses[v], Access(v, a)
  PROVE  Abstract!Begin(v) \/ Abstract!BeginOther(v)
<1>1. PICK k : /\ Step(Vcpu(v), k)
               /\ k = [at |-> IF Away(v, a) THEN "wait" ELSE "do", a |-> a,
                       owner |-> OwnerOf(v, a), i |-> 0,
                       val |-> IF a.wr THEN a.val ELSE x[v], seen |-> 0, from |-> NoVcpu]
  BY AccessAt
<1>2. version' = version /\ irqs' = irqs /\ reply' = reply /\ x' = x /\ job[Vcpu(v)].at = "idle"
  BY DEF Access
<1>3. /\ Vcpu(v) \in Owners /\ job'[Vcpu(v)] = k
      /\ \A h \in Owners \ {Vcpu(v)} : job'[h] = job[h]
  BY <1>1, <1>2, StepKeeps, OwnerIs
<1>4. a \in AccessRec /\ OwnerOf(v, a) \in Owners /\ NodeOf(a.vcpu) \in Nodes
  <2>1. a \in AccessRec
    BY GicMmioAssumption
  <2>2. a.vcpu \in Vcpus
    BY <2>1 DEF AccessRec
  <2> QED BY <2>1, <2>2, NodeOfIs, OwnerIs DEF OwnerOf
<1>5. k.val \in Vals
  BY <1>1, <1>4 DEF TypeOK, AccessRec, Vals
<1>6. Registers' = Registers
  BY <1>2, RegistersSame
<1>7. Progress[v] = NoAccess
  BY <1>2, ProgressIs, ViewOther
<1>8. \A u \in Vcpus \ {v} : Progress'[u] = Progress[u]
  BY <1>1, <1>2, OthersTrap
<1>9. PICK s, r : s = job'[Node(NodeOf(k.a.vcpu))] /\ r = reply'[v]
  OBVIOUS
<1>10. Progress'[v] = View(v, k, s, r, Known(k.a))
  BY <1>2, <1>3, <1>9, ProgressIs
<1>11. k.a = a /\ k.at # "idle" /\ k.i = 0 /\ Cursor(k) = 0 /\ k.at \in {"wait", "do"}
  BY <1>1 DEF Cursor
<1>12. CASE ~Known(a)
  <2>1. Progress'[v] = [NoAccess EXCEPT !.op = "other"]
    BY <1>10, <1>11, <1>12, ViewOther
  <2>2. Progress' = [Progress EXCEPT ![v] = [NoAccess EXCEPT !.op = "other"]]
    BY <1>8, <2>1, ProgressSet
  <2> QED BY <1>2, <1>6, <1>7, <2>2, FreeIs DEF Abstract!BeginOther
<1>13. CASE Known(a)
  <2>1. Progress'[v] = Shape(a, OwnerOf(v, a), 0, k.val)
    <3>1. CASE k.at = "do"
      BY <1>10, <1>11, <1>13, <3>1, ViewLocal
    <3>2. CASE k.at = "wait"
      <4>1. r = NoReply
        BY <1>2, <1>9 DEF CallOK, Replied
      <4>2. ~Serves(NodeOf(a.vcpu), v)
        BY <1>2, <1>4 DEF CallOK, Served, Waits
      <4>3. s = job[Node(NodeOf(a.vcpu))]
        BY <1>3, <1>4, <1>9, <1>11, OwnerIs
      <4>4. ~(s.at # "idle" /\ s.from = v)
        BY <4>2, <4>3 DEF Serves
      <4> QED BY <1>10, <1>11, <1>13, <3>2, <4>1, <4>4, ViewSent
    <3> QED BY <1>11, <3>1, <3>2
  <2>2. Progress' = [Progress EXCEPT ![v] = Progress'[v]]
    BY <1>8, ProgressSet
  <2>3. Shape(a, OwnerOf(v, a), 0, k.val) \in
          [op : Abstract!Op, owner : Owners, field : Fields, next : {0}, val : [Abstract!Bits -> Nat]]
    BY <1>4, <1>5, <1>13, KnownIs, FreeIs DEF Shape, Vals
  <2> QED BY <1>2, <1>6, <1>7, <2>1, <2>2, <2>3, FreeIs DEF Abstract!Begin
<1> QED BY <1>12, <1>13

\* vm_dabort returns to the guest.
LEMMA BankReturn ==
  ASSUME TypeOK, Works, NEW v \in Vcpus, Return(v)
  PROVE  Abstract!End(v)
<1>1. TypeOK' /\ job[Vcpu(v)].at = "end" /\ Step(Vcpu(v), Idle)
  BY ReturnAt
<1>2. PICK j : j = job[Vcpu(v)]
  OBVIOUS
<1>3. /\ version' = version /\ irqs' = irqs /\ reply' = reply
      /\ x' = IF j.a.wr THEN x ELSE [x EXCEPT ![v] = j.val]
  BY <1>2 DEF Return, Same
<1>4. j.a \in AccessRec /\ Vcpu(v) \in Owners
  BY <1>1, <1>2, JobIs, OwnerIs
<1>5. Registers' = Registers
  BY <1>3, RegistersSame
<1>6. \A u \in Vcpus \ {v} : Progress'[u] = Progress[u]
  BY <1>1, <1>3, OthersTrap
<1>7. job'[Vcpu(v)] = Idle /\ Idle.at = "idle"
  BY <1>1, <1>3, <1>4, StepKeeps DEF Idle
<1>8. Progress'[v] = NoAccess
  BY <1>3, <1>7, ProgressIs, ViewOther
<1>9. Progress' = [Progress EXCEPT ![v] = NoAccess]
  BY <1>6, <1>8, ProgressSet
<1>10. PICK s, r : s = job[Node(NodeOf(j.a.vcpu))] /\ r = reply[v]
  OBVIOUS
<1>11. Progress[v] = View(v, j, s, r, Known(j.a))
  BY <1>2, <1>3, <1>10, ProgressIs
<1>12. CASE ~Known(j.a)
  <2>1. Progress[v] = [NoAccess EXCEPT !.op = "other"]
    BY <1>1, <1>2, <1>11, <1>12, ViewOther
  <2>2. Progress[v].op = "other"
    BY <2>1 DEF NoAccess
  <2>3. x'[v] \in Vals /\ x' = [x EXCEPT ![v] = x'[v]]
    BY <1>1, <1>3 DEF TypeOK
  <2> QED BY <1>5, <1>9, <2>2, <2>3, FreeIs DEF Abstract!End, Vals
<1>13. CASE Known(j.a)
  <2>1. Progress[v] = Shape(j.a, OwnerOf(v, j.a), Width, j.val)
    <3>1. View(v, j, s, r, Known(j.a)) =
            Shape(j.a, OwnerOf(v, j.a), IF j.at = "end" THEN Width ELSE Cursor(j), j.val)
      BY <1>1, <1>2, <1>13, ViewLocal
    <3> QED BY <1>1, <1>2, <1>11, <3>1
  <2>2. Progress[v].op = OpOf(j.a) /\ Progress[v].next = Width /\ Progress[v].val = j.val
    BY <2>1 DEF Shape
  <2>3. OpOf(j.a) \in Abstract!Op /\ (OpOf(j.a) = "read" <=> ~j.a.wr)
    BY <1>4, <1>13, KnownIs
  <2>4. x' = IF Progress[v].op = "read" THEN [x EXCEPT ![v] = Progress[v].val] ELSE x
    BY <1>3, <2>2, <2>3
  <2> QED BY <1>5, <1>9, <2>2, <2>3, <2>4, FreeIs DEF Abstract!End
<1> QED BY <1>12, <1>13

\* vmmio_recv_reply: the access was done when the answer was sent.
LEMMA BankReply ==
  ASSUME TypeOK, Works, NEW v \in Vcpus, RecvReply(v)
  PROVE  Unseen
<1>1. /\ job[Vcpu(v)].at = "wait" /\ reply[v] # NoReply
      /\ reply' = [reply EXCEPT ![v] = NoReply]
  BY RecvReplyAt
<1>2. PICK k : Step(Vcpu(v), k) /\ k = [job[Vcpu(v)] EXCEPT !.at = "end", !.val = reply[v][1]]
  BY RecvReplyAt
<1>3. version' = version /\ irqs' = irqs /\ x' = x
  BY DEF RecvReply, Same
<1>4. Vcpu(v) \in Owners /\ job'[Vcpu(v)] = k
  BY <1>2, <1>3, StepKeeps, OwnerIs
<1>5. PICK j \in Jobs : j = job[Vcpu(v)]
  BY <1>4 DEF TypeOK
<1>6. k = [j EXCEPT !.at = "end", !.val = reply[v][1]]
  BY <1>2, <1>5
<1>7. k.at = "end" /\ k.a = j.a /\ k.val = reply[v][1]
  BY <1>6 DEF Jobs
<1>8. \A u \in Vcpus \ {v} : Progress'[u] = Progress[u]
  BY <1>1, <1>2, <1>3, OthersTrap DEF TypeOK
<1>9. PICK s, t, r, q : /\ s = job[Node(NodeOf(j.a.vcpu))] /\ r = reply[v]
                        /\ t = job'[Node(NodeOf(k.a.vcpu))] /\ q = reply'[v]
  OBVIOUS
<1>10. Progress[v] = View(v, j, s, r, Known(j.a)) /\ Progress'[v] = View(v, k, t, q, Known(j.a))
  BY <1>3, <1>4, <1>5, <1>7, <1>9, ProgressIs
<1>11. Progress'[v] = Progress[v]
  <2>1. CASE ~Known(j.a)
    <3>1. View(v, j, s, r, Known(j.a)) = [NoAccess EXCEPT !.op = "other"]
      BY <1>1, <1>5, <2>1, ViewOther
    <3>2. View(v, k, t, q, Known(j.a)) = [NoAccess EXCEPT !.op = "other"]
      BY <1>7, <2>1, ViewOther
    <3> QED BY <1>10, <3>1, <3>2
  <2>2. CASE Known(j.a)
    <3>1. View(v, j, s, r, Known(j.a)) = Shape(j.a, OwnerOf(v, j.a), Width, r[1])
      <4>1. j.at = "wait" /\ r # NoReply
        BY <1>1, <1>5, <1>9
      <4>2. PICK known : known = Known(j.a)
        OBVIOUS
      <4>3. known
        BY <2>2, <4>2
      <4>4. View(v, j, s, r, known) = Shape(j.a, OwnerOf(v, j.a), Width, r[1])
        BY <4>1, <4>3, ViewDone
      <4> QED BY <4>2, <4>4
    <3>2. View(v, k, t, q, Known(j.a)) = Shape(k.a, OwnerOf(v, k.a), Width, k.val)
      BY <1>7, <2>2, ViewLocal
    <3> QED BY <1>7, <1>9, <1>10, <3>1, <3>2
  <2> QED BY <2>1, <2>2
<1> QED BY <1>3, <1>8, <1>11, RegistersSame, UnseenIs

\* The server takes a message: the access is where it was.
LEMMA BankReceive ==
  ASSUME TypeOK, Works, CallOK, NEW n \in Nodes, NEW m \in Nodes, Receive(n, m)
  PROVE  Unseen
<1>1. PICK q : q = net[<<m, n>>]
  OBVIOUS
<1>2. q # << >>
  BY <1>1, ReceiveAt
<1>3. PICK msg \in GoodMsg(m, n) : \E k :
        /\ msg = Head(q) /\ Step(Node(n), k)
        /\ msg.type = "request" =>
             k = [at |-> "do", a |-> msg.a, owner |-> Vcpu(msg.a.vcpu), i |-> 0,
                  val |-> msg.val, seen |-> 0, from |-> msg.from]
        /\ msg.type = "config" =>
             k = [at |-> "targets", a |-> msg.a, owner |-> Node(n), i |-> 0,
                  val |-> msg.val, seen |-> 0, from |-> NoVcpu]
  BY <1>1, ReceiveAt
<1>4. PICK k :
        /\ msg = Head(q) /\ Step(Node(n), k)
        /\ msg.type = "request" =>
             k = [at |-> "do", a |-> msg.a, owner |-> Vcpu(msg.a.vcpu), i |-> 0,
                  val |-> msg.val, seen |-> 0, from |-> msg.from]
        /\ msg.type = "config" =>
             k = [at |-> "targets", a |-> msg.a, owner |-> Node(n), i |-> 0,
                  val |-> msg.val, seen |-> 0, from |-> NoVcpu]
  BY <1>3
<1>5. version' = version /\ irqs' = irqs /\ x' = x /\ reply' = reply /\ job[Node(n)].at = "idle"
  BY DEF Receive, Same, Takes
<1>6. job'[Node(n)] = k /\ \A h \in Owners \ {Node(n)} : job'[h] = job[h]
  BY <1>4, <1>5, StepKeeps, OwnerIs
<1>7. /\ \A u \in Vcpus : job'[Vcpu(u)] = job[Vcpu(u)]
      /\ \A h \in Nodes \ {n} : job'[Node(h)] = job[Node(h)]
  BY <1>6, OwnerIs
<1>8. \A u \in Vcpus : k.from # u => Progress'[u] = Progress[u]
  <2> SUFFICES ASSUME NEW u \in Vcpus, k.from # u PROVE Progress'[u] = Progress[u]
    OBVIOUS
  <2>1. ~Serves(n, u) /\ ~Serves(n, u)'
    BY <1>5, <1>6 DEF Serves
  <2> QED BY <1>5, <1>7, <2>1, SameView
<1>9. CASE msg.type = "config"
  <2>1. k.from \notin Vcpus
    BY <1>4, <1>9, NumbersAt
  <2> QED BY <1>5, <1>8, <2>1, RegistersSame, UnseenIs
<1>10. CASE msg.type = "request"
  <2>1. PICK u \in Vcpus : u = msg.from
    BY <1>10 DEF GoodMsg, RequestMsg, ConfigMsg
  <2>2. NodeOf(msg.a.vcpu) = n
    BY <1>10 DEF GoodMsg, RequestMsg, ConfigMsg
  <2>3. q \in Seq(GoodMsg(m, n)) /\ Head(q) = q[1] /\ 1 \in 1..Len(q)
    <3>1. q \in Seq(GoodMsg(m, n))
      BY <1>1 DEF Works
    <3> QED BY <1>2, <3>1, TakeAt
  <2>4. Waits(u, msg.a) /\ job[Vcpu(u)].val = msg.val
    BY <1>1, <1>4, <1>10, <2>1, <2>3 DEF CallOK, Posted
  <2>5. PICK j, s, r : j = job[Vcpu(u)] /\ s = job[Node(NodeOf(j.a.vcpu))] /\ r = reply[u]
    OBVIOUS
  <2>6. j.at = "wait" /\ j.a = msg.a /\ j.val = msg.val /\ r = NoReply /\ s.at = "idle"
    BY <1>5, <2>2, <2>4, <2>5 DEF Waits
  <2>7. k.at = "do" /\ k.i = 0 /\ k.val = msg.val /\ k.from = u /\ Cursor(k) = 0
    BY <1>4, <1>10, <2>1 DEF Cursor
  <2>8. Progress[u] = View(u, j, s, r, Known(j.a))
    BY <1>5, <2>5, ProgressIs
  <2>9. Progress'[u] = View(u, j, k, r, Known(j.a))
    <3>1. job'[Vcpu(u)] = j /\ reply'[u] = r /\ job'[Node(NodeOf(j.a.vcpu))] = k
      BY <1>5, <1>6, <1>7, <2>2, <2>5, <2>6
    <3> QED BY <1>5, <3>1, ProgressIs
  <2>10. Progress'[u] = Progress[u]
    <3>1. CASE ~Known(j.a)
      <4>1. View(u, j, s, r, Known(j.a)) = [NoAccess EXCEPT !.op = "other"]
        BY <2>6, <3>1, ViewOther
      <4>2. View(u, j, k, r, Known(j.a)) = [NoAccess EXCEPT !.op = "other"]
        BY <2>6, <3>1, ViewOther
      <4> QED BY <2>8, <2>9, <4>1, <4>2
    <3>2. CASE Known(j.a)
      <4>1. View(u, j, s, r, Known(j.a)) = Shape(j.a, OwnerOf(u, j.a), 0, j.val)
        BY <2>6, <3>2, ViewSent
      <4>2. View(u, j, k, r, Known(j.a)) = Shape(j.a, OwnerOf(u, j.a), Cursor(k), k.val)
        <5>1. k.at # "idle" /\ k.from = u /\ Known(j.a)
          BY <2>7, <3>2
        <5>2. j.at = "wait" /\ r = NoReply
          BY <2>6
        <5>3. PICK known : known = Known(j.a)
          OBVIOUS
        <5>4. View(u, j, k, r, known) = Shape(j.a, OwnerOf(u, j.a), Cursor(k), k.val)
          <6>1. known
            BY <5>1, <5>3
          <6>2. View(u, j, k, r, known) = Shape(j.a, OwnerOf(u, j.a), Cursor(k), k.val)
            BY <5>1, <5>2, <6>1 DEF View, OwnerOf, Shape, Cursor
          <6> QED BY <6>2
        <5> QED BY <5>3, <5>4
      <4> QED BY <2>6, <2>7, <2>8, <2>9, <4>1, <4>2
    <3> QED BY <3>1, <3>2
  <2>11. \A w \in Vcpus : Progress'[w] = Progress[w]
    BY <1>8, <2>7, <2>10
  <2> QED BY <1>5, <2>11, RegistersSame, UnseenIs
<1> QED BY <1>9, <1>10 DEF GoodMsg, RequestMsg, ConfigMsg

\* An access to a register of another kind stays one.
LEMMA OtherStays ==
  ASSUME TypeOK, Works, CallOK, NEW g \in Owners, version' = version, NEW k, Step(g, k), Goes(g, k),
         job[g].at # "idle", ~Known(job[g].a)
  PROVE  \A u \in Vcpus : Progress'[u] = Progress[u]
<1>1. \A u \in Vcpus \ {Actor(g)} : Progress'[u] = Progress[u]
  BY LoopOthers
<1> SUFFICES ASSUME NEW v \in Vcpus, v = Actor(g) PROVE Progress'[v] = Progress[v]
  BY <1>1
<1>2. job'[g] = k /\ \A h \in Owners \ {g} : job'[h] = job[h]
  BY StepKeeps
<1>3. PICK j, l : j = job[Vcpu(v)] /\ l = job'[Vcpu(v)]
  OBVIOUS
<1>4. j.at # "idle" /\ l.at # "idle" /\ j.a = job[g].a /\ l.a = job[g].a
  <2>1. CASE g[1] = "vcpu"
    BY <1>2, <1>3, <2>1, OwnerIs DEF Actor, Goes
  <2>2. CASE g[1] = "node"
    <3>1. g[2] \in Nodes /\ g = Node(g[2])
      BY <2>2, OwnerIs
    <3>2. Serves(g[2], v)
      BY <2>2, <3>1 DEF Serves, Actor
    <3>3. Waits(v, job[g].a)
      BY <3>1, <3>2 DEF CallOK, Served
    <3>4. l = j
      BY <1>2, <1>3, <3>1, OwnerIs
    <3> QED BY <1>3, <3>3, <3>4 DEF Waits
  <2> QED BY <2>1, <2>2, OwnerIs
<1>5. PICK s, t, r, q : /\ s = job[Node(NodeOf(j.a.vcpu))] /\ r = reply[v]
                        /\ t = job'[Node(NodeOf(l.a.vcpu))] /\ q = reply'[v]
  OBVIOUS
<1>6. Progress[v] = View(v, j, s, r, Known(j.a)) /\ Progress'[v] = View(v, l, t, q, Known(l.a))
  BY <1>3, <1>5, ProgressIs
<1>7. Progress[v] = [NoAccess EXCEPT !.op = "other"]
  BY <1>4, <1>6, ViewOther
<1>8. Progress'[v] = [NoAccess EXCEPT !.op = "other"]
  BY <1>4, <1>6, ViewOther
<1> QED BY <1>7, <1>8

\* The dispatch of an access.
LEMMA BankEmulate ==
  ASSUME TypeOK, Works, CallOK, NEW g \in Owners, Emulate(g)
  PROVE  Unseen
<1>1. version' = version /\ irqs' = irqs /\ x' = x
  BY DEF Emulate, Same
<1>2. Handler(g)
  BY DEF Handler
<1>3. job[g].at = "do" /\ job[g] \in Jobs /\ job[g].a \in AccessRec
  BY EmulateAt, JobIs
<1>4. CASE ~Known(job[g].a)
  <2>1. PICK k : Step(g, k) /\ Goes(g, k)
    BY <1>2, HandlerIs
  <2>2. \A u \in Vcpus : Progress'[u] = Progress[u]
    BY <1>1, <1>3, <1>4, <2>1, OtherStays
  <2> QED BY <1>1, <2>2, RegistersSame, UnseenIs
<1>5. CASE Known(job[g].a)
  <2>1. vmmio_emulate(job[g].a) = "loop"
    BY <1>5 DEF Known
  <2>2. PICK k : Step(g, k) /\ reply' = reply /\ k = [job[g] EXCEPT !.at = "loop"]
    BY <2>1, EmulateAt
  <2>3. PICK j \in Jobs : j = job[g]
    BY <1>3
  <2>4. k = [j EXCEPT !.at = "loop"]
    BY <2>2, <2>3
  <2>5. k.at = "loop" /\ k.a = j.a /\ k.from = j.from /\ k.val = j.val /\ k.i = j.i
    BY <2>4 DEF Jobs
  <2>6. Cursor(k) = Cursor(job[g])
    BY <1>3, <2>3, <2>5 DEF Cursor
  <2>7. Actor(g) \in Vcpus /\ Progress[Actor(g)] = Shape(job[g].a, job[g].owner, Cursor(job[g]), job[g].val)
    BY <1>1, <1>3, <1>5, LoopBefore
  <2>8. Progress'[Actor(g)] = Shape(job[g].a, job[g].owner, Cursor(k), k.val)
    BY <1>1, <1>3, <1>5, <2>2, <2>3, <2>5, LoopAfter
  <2>9. Goes(g, k)
    BY <1>3, <2>2, <2>3, <2>5, OnGoes
  <2>10. \A u \in Vcpus \ {Actor(g)} : Progress'[u] = Progress[u]
    BY <1>1, <2>2, <2>9, LoopOthers
  <2>11. Progress'[Actor(g)] = Progress[Actor(g)]
    BY <2>3, <2>5, <2>6, <2>7, <2>8
  <2> QED BY <1>1, <2>10, <2>11, RegistersSame, UnseenIs
<1> QED BY <1>4, <1>5

\* The target of an interrupt is none of the four fields.
LEMMA BankTarget ==
  ASSUME TypeOK, Works, CallOK, NEW g \in Owners, TargetBit(g) \/ Broadcast(g) \/ Route(g)
  PROVE  Unseen
<1>1. version' = version /\ x' = x
  BY DEF TargetBit, Broadcast, Route, Same
<1>2. PICK k : Step(g, k) /\ Goes(g, k)
  BY HandlerIs DEF Handler
<1>3. job[g].at \in {"targets", "bcast", "route"}
  BY TargetBitAt, BroadcastAt, RouteAt
<1>4. ~Known(job[g].a)
  BY <1>3, JobIs DEF Known, Stage
<1>5. \A u \in Vcpus : Progress'[u] = Progress[u]
  BY <1>1, <1>2, <1>3, <1>4, OtherStays
<1>6. job[g].owner \in Owners /\ job[g].i \in Bits /\ NodeOfOwner(g) \in Nodes /\ job[g].val \in Vals
  BY <1>3, JobIs, OwnerIs DEF Jobs
<1>7. irqs' = irqs \/ \E i \in Bits : \E ts \in Nat : \E t \in Vcpus \cup {NoVcpu} :
        SetTarget(job[g].owner, i, NodeOfOwner(g), ts, t)
  <2>1. CASE TargetBit(g)
    <3>1. job[g].val[job[g].i] \in Nat
      BY <1>6 DEF Vals
    <3>2. Local(NodeOfOwner(g), FirstTarget(job[g].val[job[g].i])) \in Vcpus \cup {NoVcpu}
      BY <1>6, LocalIs
    <3>3. CASE job[g].a.wr
      BY <1>6, <2>1, <3>1, <3>2, <3>3, TargetBitAt
    <3>4. CASE ~job[g].a.wr
      BY <2>1, <3>4, TargetBitAt
    <3> QED BY <3>3, <3>4
  <2>2. CASE Broadcast(g)
    BY <2>2 DEF Broadcast
  <2>3. CASE Route(g)
    BY <2>3, RouteAt, NumbersAt
  <2> QED BY <2>1, <2>2, <2>3
<1>8. Registers' = Registers
  <2>1. CASE irqs' = irqs
    BY <2>1, RegistersSame
  <2>2. ASSUME NEW i \in Bits, NEW ts \in Nat, NEW t \in Vcpus \cup {NoVcpu},
               SetTarget(job[g].owner, i, NodeOfOwner(g), ts, t)
        PROVE  Registers' = Registers
    <3>1. PICK o \in Owners : o = job[g].owner
      BY <1>6
    <3>2. /\ Changed(o, i, [irqs[o][i] EXCEPT !.targets = ts, !.target = t])
          /\ irqs'[o][i].enabled = irqs[o][i].enabled /\ irqs'[o][i].igroup = irqs[o][i].igroup
          /\ irqs'[o][i].priority = irqs[o][i].priority /\ irqs'[o][i].cfg = irqs[o][i].cfg
      BY <1>6, <2>2, <3>1, SetTargetAt
    <3>3. \A p \in Owners : \A b \in Bits : p # o \/ b # i => irqs'[p][b] = irqs[p][b]
      BY <3>2 DEF Changed
    <3>4. \A f \in Fields : irqs'[o][i][f] = irqs[o][i][f]
      BY <3>2 DEF Fields
    <3>5. \A p \in Owners : \A b \in Bits : \A f \in Fields : irqs'[p][b][f] = irqs[p][b][f]
      BY <3>3, <3>4
    <3> QED BY <3>5, RegistersSame
  <2> QED BY <1>7, <2>1, <2>2
<1> QED BY <1>1, <1>5, <1>8, UnseenIs

\* Where a loop stands before its step.
LEMMA LoopIs ==
  ASSUME TypeOK, Works, CallOK, NEW g \in Owners, job[g].at \in {"loop", "count"}, version' = version
  PROVE  /\ Actor(g) \in Vcpus /\ job[g] \in Jobs /\ job[g].owner \in Owners /\ job[g].i \in Bits
         /\ job[g].val \in Vals /\ job[g].a \in AccessRec /\ Known(job[g].a)
         /\ OpOf(job[g].a) \in Abstract!Op /\ Loop[job[g].a.reg] \in Fields
         /\ OpOf(job[g].a) = "read" <=> ~job[g].a.wr
         /\ Progress[Actor(g)] = Shape(job[g].a, job[g].owner, Cursor(job[g]), job[g].val)
         /\ job[g].at = "loop" => Cursor(job[g]) = job[g].i
         /\ job[g].at = "count" => Cursor(job[g]) = job[g].i + 1
<1>1. job[g] \in Jobs /\ job[g].owner \in Owners /\ job[g].a \in AccessRec /\ Stage(job[g])
  BY JobIs
<1>2. Known(job[g].a)
  BY <1>1, EmulateIs DEF Known, Stage, TypeOK
<1>3. job[g].i \in Bits /\ job[g].val \in Vals /\ job[g].i \in Nat
  BY <1>1, NumbersAt DEF Jobs
<1>4. Actor(g) \in Vcpus /\ Progress[Actor(g)] = Shape(job[g].a, job[g].owner, Cursor(job[g]), job[g].val)
  BY <1>2, LoopBefore
<1>5. /\ job[g].at = "loop" => Cursor(job[g]) = job[g].i
      /\ job[g].at = "count" => Cursor(job[g]) = job[g].i + 1
  BY <1>3 DEF Cursor
<1>6. /\ OpOf(job[g].a) \in Abstract!Op /\ Loop[job[g].a.reg] \in Fields
      /\ OpOf(job[g].a) = "read" <=> ~job[g].a.wr
  BY <1>1, <1>2, KnownIs
<1> QED BY <1>1, <1>2, <1>3, <1>4, <1>5, <1>6

\* The physical interrupt is not the guest's to see.
LEMMA BankHw ==
  ASSUME TypeOK, Works, CallOK, NEW g \in Owners, EnableHw(g)
  PROVE  Unseen
<1>1. version' = version /\ irqs' = irqs /\ x' = x
  BY DEF EnableHw, Same
<1>2. job[g].at = "count"
  BY EnableHwAt
<1>3. PICK k : /\ Step(g, k)
               /\ job[g].i + 1 < Width =>
                    k = [job[g] EXCEPT !.at = "loop", !.seen = 0, !.i = job[g].i + 1] /\ reply' = reply
               /\ ~(job[g].i + 1 < Width) => Answered(g, k, job[g].val)
  BY EnableHwAt
<1>4. PICK l \in Jobs : l = job[g]
  BY <1>1, <1>2, LoopIs
<1>5. PICK j : j = [l EXCEPT !.at = "loop", !.seen = 0]
  OBVIOUS
<1>6. /\ j \in Jobs /\ j.at = "loop" /\ j.a = l.a /\ j.owner = l.owner /\ j.from = l.from
      /\ j.i = l.i /\ j.val = l.val
  <2>1. PICK y : y = [l EXCEPT !.at = "loop"]
    OBVIOUS
  <2>2. /\ y \in Jobs /\ y.at = "loop" /\ y.a = l.a /\ y.owner = l.owner /\ y.from = l.from
        /\ y.i = l.i /\ y.val = l.val
    BY <2>1 DEF Jobs, Ats
  <2>3. j = [y EXCEPT !.seen = 0]
    BY <1>5, <2>1
  <2>4. /\ j \in Jobs /\ j.at = y.at /\ j.a = y.a /\ j.owner = y.owner /\ j.from = y.from
        /\ j.i = y.i /\ j.val = y.val
    BY <2>2, <2>3 DEF Jobs
  <2> QED BY <2>2, <2>4
<1>7. [j EXCEPT !.i = j.i + 1] = [l EXCEPT !.at = "loop", !.seen = 0, !.i = l.i + 1]
  <2>1. j.i + 1 = l.i + 1
    BY <1>6
  <2> QED BY <1>5, <2>1
<1>8. /\ j.i + 1 < Width => k = [j EXCEPT !.i = j.i + 1] /\ reply' = reply
      /\ ~(j.i + 1 < Width) => Answered(g, k, j.val)
  BY <1>3, <1>4, <1>6, <1>7
<1>9. /\ Progress'[Actor(g)] = Shape(job[g].a, job[g].owner, job[g].i + 1, j.val)
      /\ \A u \in Vcpus \ {Actor(g)} : Progress'[u] = Progress[u]
  BY <1>1, <1>2, <1>3, <1>4, <1>6, <1>8, NextMoves
<1>10. Progress[Actor(g)] = Shape(job[g].a, job[g].owner, job[g].i + 1, job[g].val)
  BY <1>1, <1>2, LoopIs
<1>11. Progress'[Actor(g)] = Progress[Actor(g)]
  BY <1>4, <1>6, <1>9, <1>10
<1> QED BY <1>1, <1>9, <1>11, RegistersSame, UnseenIs

\* A read takes one interrupt.
LEMMA BankRead ==
  ASSUME TypeOK, Works, CallOK, NEW g \in Owners, ReadBit(g)
  PROVE  Actor(g) \in Vcpus /\ Abstract!Touch(Actor(g))
<1>1. version' = version /\ irqs' = irqs /\ x' = x
  BY DEF ReadBit, Same
<1>2. job[g].at = "loop" /\ ~job[g].a.wr
  BY ReadBitAt
<1>3. PICK v, a, o, i, val : /\ v = Actor(g) /\ a = job[g].a /\ o = job[g].owner /\ i = job[g].i
                             /\ val = job[g].val
  OBVIOUS
<1>4. /\ v \in Vcpus /\ o \in Owners /\ i \in Bits /\ val \in Vals /\ a \in AccessRec
      /\ Loop[a.reg] \in Fields /\ OpOf(a) = "read" /\ Progress[v] = Shape(a, o, i, val)
  BY <1>1, <1>2, <1>3, LoopIs
<1>5. PICK j \in Jobs : \E k :
        /\ j = [job[g] EXCEPT !.val = [job[g].val EXCEPT ![job[g].i] =
                  irqs[job[g].owner][job[g].i][Loop[job[g].a.reg]]]]
        /\ Step(g, k) /\ k.at # "count"
        /\ j.i + 1 < Width => k = [j EXCEPT !.i = j.i + 1] /\ reply' = reply
        /\ ~(j.i + 1 < Width) => Answered(g, k, j.val)
  BY ReadBitAt
<1>6. PICK k : /\ Step(g, k)
               /\ j.i + 1 < Width => k = [j EXCEPT !.i = j.i + 1] /\ reply' = reply
               /\ ~(j.i + 1 < Width) => Answered(g, k, j.val)
  BY <1>5
<1>7. PICK nv : nv = [val EXCEPT ![i] = irqs[o][i][Loop[a.reg]]]
  OBVIOUS
<1>8. j = [job[g] EXCEPT !.val = nv]
  BY <1>3, <1>5, <1>7
<1>9. /\ j.at = "loop" /\ j.a = job[g].a /\ j.owner = job[g].owner /\ j.from = job[g].from
      /\ j.i = job[g].i /\ j.val = nv
  <2>1. PICK l \in Jobs : l = job[g]
    BY <1>1, <1>2, LoopIs
  <2>2. j = [l EXCEPT !.val = nv]
    BY <1>8, <2>1
  <2>3. j.at = l.at /\ j.a = l.a /\ j.owner = l.owner /\ j.from = l.from /\ j.i = l.i /\ j.val = nv
    BY <2>2 DEF Jobs
  <2> QED BY <1>2, <2>1, <2>3
<1>10. Progress'[v] = Shape(a, o, i + 1, nv) /\ \A u \in Vcpus \ {v} : Progress'[u] = Progress[u]
  BY <1>1, <1>2, <1>3, <1>6, <1>9, NextMoves
<1>11. PICK e : e = Registers[o][i][Loop[a.reg]]
  OBVIOUS
<1>12. e = irqs[o][i][Loop[a.reg]]
  BY <1>4, <1>11 DEF Registers
<1>13. Registers' = [Registers EXCEPT ![o][i][Loop[a.reg]] = e]
  <2>1. PICK f \in Fields : f = Loop[a.reg]
    BY <1>4
  <2>2. \A q \in Fields : irqs'[o][i][q] = IF q = f THEN e ELSE irqs[o][i][q]
    BY <1>1, <1>12, <2>1
  <2>3. Registers' = [Registers EXCEPT ![o][i][f] = e]
    BY <1>1, <1>4, <2>2, RegistersSet
  <2> QED BY <2>1, <2>3
<1>14. nv = [val EXCEPT ![i] = Registers[o][i][Loop[a.reg]]]
  BY <1>7, <1>11, <1>12
<1>15. Abstract!Touch(v)
  BY <1>1, <1>4, <1>10, <1>11, <1>13, <1>14, TouchIs
<1> QED BY <1>3, <1>4, <1>15

\* A write of a group, a priority or a trigger mode takes one interrupt.
LEMMA BankWrite ==
  ASSUME TypeOK, Works, CallOK, NEW g \in Owners, WriteBit(g)
  PROVE  Actor(g) \in Vcpus /\ Abstract!Touch(Actor(g))
<1>1. version' = version /\ x' = x
  BY DEF WriteBit, Same
<1>2. job[g].at = "loop" /\ job[g].a.wr /\ job[g].a.reg \notin {"isenable", "icenable"}
  BY WriteBitAt
<1>3. PICK v, a, o, i, val : /\ v = Actor(g) /\ a = job[g].a /\ o = job[g].owner /\ i = job[g].i
                             /\ val = job[g].val
  OBVIOUS
<1>4. /\ v \in Vcpus /\ o \in Owners /\ i \in Bits /\ val \in Vals /\ a \in AccessRec
      /\ Loop[a.reg] \in Fields /\ Progress[v] = Shape(a, o, i, val) /\ job[g] \in Jobs
  BY <1>1, <1>2, <1>3, LoopIs
<1>5. OpOf(a) = "write"
  BY <1>2, <1>3 DEF OpOf
<1>6. PICK k : /\ Step(g, k)
               /\ job[g].i + 1 < Width => k = [job[g] EXCEPT !.i = job[g].i + 1] /\ reply' = reply
               /\ ~(job[g].i + 1 < Width) => Answered(g, k, job[g].val)
  BY WriteBitAt
<1>7. Progress'[v] = Shape(a, o, i + 1, val) /\ \A u \in Vcpus \ {v} : Progress'[u] = Progress[u]
  BY <1>1, <1>2, <1>3, <1>4, <1>6, NextMoves
<1>8. PICK e : e = val[i]
  OBVIOUS
<1>9. Changed(o, i, [irqs[o][i] EXCEPT ![Loop[a.reg]] = e])
  BY <1>3, <1>8, WriteBitAt
<1>10. Registers' = [Registers EXCEPT ![o][i][Loop[a.reg]] = e]
  <2>1. PICK f \in Fields : f = Loop[a.reg]
    BY <1>4
  <2>4. PICK r \in Irqs : r = irqs[o][i]
    BY <1>4 DEF TypeOK
  <2>5. PICK s : s = irqs'[o][i]
    OBVIOUS
  <2>6. s = [r EXCEPT ![f] = e]
    BY <1>9, <2>1, <2>4, <2>5 DEF Changed
  <2>7. \A q \in Fields : s[q] = IF q = f THEN e ELSE r[q]
    BY <2>6, FieldAt
  <2>2. \A q \in Fields : irqs'[o][i][q] = IF q = f THEN e ELSE irqs[o][i][q]
    BY <2>4, <2>5, <2>7
  <2>3. \A p \in Owners : \A b \in Bits : p # o \/ b # i => irqs'[p][b] = irqs[p][b]
    BY <1>9 DEF Changed
  <2>8. Registers' = [Registers EXCEPT ![o][i][f] = e]
    <3>1. o \in Owners /\ i \in Bits
      BY <1>4
    <3> QED BY <2>2, <2>3, <3>1, RegistersSet
  <2> QED BY <2>1, <2>8
<1>11. Abstract!Touch(v)
  BY <1>1, <1>4, <1>5, <1>7, <1>8, <1>10, TouchIs
<1> QED BY <1>3, <1>4, <1>11

\* So does a write of an enable, an early return included.
LEMMA BankEnable ==
  ASSUME TypeOK, Works, CallOK, NEW g \in Owners, EnableBit(g)
  PROVE  Actor(g) \in Vcpus /\ Abstract!Touch(Actor(g))
<1>1. version' = version /\ x' = x
  BY DEF EnableBit, Same
<1>2. job[g].at = "loop" /\ job[g].a.wr /\ job[g].a.reg \in {"isenable", "icenable"}
  BY EnableBitAt
<1>3. PICK v, a, o, i, val : /\ v = Actor(g) /\ a = job[g].a /\ o = job[g].owner /\ i = job[g].i
                             /\ val = job[g].val
  OBVIOUS
<1>4. /\ v \in Vcpus /\ o \in Owners /\ i \in Bits /\ val \in Vals /\ a \in AccessRec
      /\ Progress[v] = Shape(a, o, i, val) /\ job[g] \in Jobs /\ Known(a)
  BY <1>1, <1>2, <1>3, LoopIs
<1>5. Loop[a.reg] = "enabled" /\ OpOf(a) = IF EnableOf(a) = 1 THEN "set" ELSE "clear"
  BY <1>2, <1>3 DEF Loop, OpOf, EnableOf
<1>6. PICK k : /\ Step(g, k)
               /\ \/ /\ Wants(job[g]) /\ IsHw(job[g].owner, job[g].i) /\ reply' = reply
                     /\ k = [job[g] EXCEPT !.at = "count",
                               !.seen = count[NodeOfOwner(g)][Kind(job[g].owner)]]
                  \/ /\ ~(Wants(job[g]) /\ IsHw(job[g].owner, job[g].i)) /\ k.at # "count"
                     /\ job[g].i + 1 < Width => k = [job[g] EXCEPT !.i = job[g].i + 1] /\ reply' = reply
                     /\ ~(job[g].i + 1 < Width) => Answered(g, k, job[g].val)
  BY EnableBitAt
<1>7. Progress'[v] = Shape(a, o, i + 1, val) /\ \A u \in Vcpus \ {v} : Progress'[u] = Progress[u]
  <2>1. CASE Wants(job[g]) /\ IsHw(job[g].owner, job[g].i)
    <3>1. PICK c : k = [job[g] EXCEPT !.at = "count", !.seen = c] /\ reply' = reply
      BY <1>6, <2>1
    <3>2. PICK l \in Jobs : l = job[g]
      BY <1>4
    <3>3. k = [l EXCEPT !.at = "count", !.seen = c]
      BY <3>1, <3>2
    <3>4. k.at = "count" /\ k.a = l.a /\ k.from = l.from /\ k.i = l.i /\ k.val = l.val
      BY <3>3 DEF Jobs
    <3>5. Cursor(k) = i + 1
      BY <1>3, <3>2, <3>4 DEF Cursor
    <3>6. Progress'[Actor(g)] = Shape(job[g].a, job[g].owner, Cursor(k), k.val)
      <4>1. /\ k.at \in {"do", "loop", "count"} /\ k.a = job[g].a /\ k.from = job[g].from
            /\ job[g].at \in {"do", "loop", "count"} /\ Known(job[g].a) /\ Step(g, k)
        BY <1>2, <1>3, <1>4, <1>6, <3>2, <3>4
      <4> QED BY <1>1, <3>1, <4>1, LoopAfter
    <3>7. Goes(g, k)
      BY <1>2, <3>1, <3>2, <3>4, OnGoes
    <3>8. \A u \in Vcpus \ {v} : Progress'[u] = Progress[u]
      BY <1>1, <1>3, <1>6, <3>7, LoopOthers
    <3> QED BY <1>3, <3>2, <3>4, <3>5, <3>6, <3>8
  <2>2. CASE ~(Wants(job[g]) /\ IsHw(job[g].owner, job[g].i))
    <3>1. /\ job[g].i + 1 < Width => k = [job[g] EXCEPT !.i = job[g].i + 1] /\ reply' = reply
          /\ ~(job[g].i + 1 < Width) => Answered(g, k, job[g].val)
      BY <1>6, <2>2
    <3> QED BY <1>1, <1>2, <1>3, <1>4, <1>6, <3>1, NextMoves
  <2> QED BY <2>1, <2>2
<1>8. PICK e : e = IF val[i] = 1 THEN EnableOf(a) ELSE irqs[o][i].enabled
  OBVIOUS
<1>9. Changed(o, i, [irqs[o][i] EXCEPT !.enabled = e])
  BY <1>3, <1>8, EnableBitAt
<1>10. PICK f \in Fields : f = "enabled"
  BY DEF Fields
<1>11. Registers' = [Registers EXCEPT ![o][i][f] = e]
  <2>1. PICK r \in Irqs : r = irqs[o][i]
    BY <1>4 DEF TypeOK
  <2>4. PICK s : s = irqs'[o][i]
    OBVIOUS
  <2>5. s = [r EXCEPT ![f] = e]
    BY <1>9, <1>10, <2>1, <2>4 DEF Changed
  <2>6. \A q \in Fields : s[q] = IF q = f THEN e ELSE r[q]
    BY <2>5, FieldAt
  <2>2. \A q \in Fields : irqs'[o][i][q] = IF q = f THEN e ELSE irqs[o][i][q]
    BY <2>1, <2>4, <2>6
  <2>3. \A p \in Owners : \A b \in Bits : p # o \/ b # i => irqs'[p][b] = irqs[p][b]
    BY <1>9 DEF Changed
  <2> QED BY <1>4, <2>2, <2>3, RegistersSet
<1>12. Registers[o][i][f] = irqs[o][i].enabled
  BY <1>4, <1>10 DEF Registers
<1>13. EnableOf(a) \in {0, 1} /\ (OpOf(a) = "set" => EnableOf(a) = 1) /\ (OpOf(a) = "clear" => EnableOf(a) = 0)
       /\ OpOf(a) \in {"set", "clear"}
  BY <1>5 DEF EnableOf
<1>14. /\ OpOf(a) = "set" => e = IF val[i] = 1 THEN 1 ELSE Registers[o][i][Loop[a.reg]]
       /\ OpOf(a) = "clear" => e = IF val[i] = 1 THEN 0 ELSE Registers[o][i][Loop[a.reg]]
  BY <1>5, <1>8, <1>10, <1>12, <1>13
<1>15. Registers' = [Registers EXCEPT ![o][i][Loop[a.reg]] = e] /\ Loop[a.reg] \in Fields
  BY <1>5, <1>10, <1>11
<1>16. Abstract!Touch(v)
  BY <1>1, <1>4, <1>7, <1>13, <1>14, <1>15, TouchIs
<1> QED BY <1>3, <1>4, <1>16

\* Every step is a step of the promise, or unseen.
LEMMA BankStep ==
  ASSUME TypeOK, Works, CallOK, [Next]_vars
  PROVE  [Abstract!Next]_<<Registers, Progress, x>>
<1> DEFINE G == Abstract!Next \/ Unseen
<1>1. ASSUME NEW v \in Vcpus, Abstract!Begin(v) \/ Abstract!BeginOther(v) \/ Abstract!Touch(v) \/ Abstract!End(v)
      PROVE  G
  BY <1>1 DEF Abstract!Next
<1>2. CASE UNCHANGED vars
  <2>1. version' = version /\ irqs' = irqs /\ job' = job /\ reply' = reply /\ x' = x
    BY <1>2 DEF vars
  <2>2. \A u \in Vcpus : Progress'[u] = Progress[u]
    BY <2>1, ProgressIs
  <2> QED BY <2>1, <2>2, RegistersSame, UnseenIs DEF Unseen
<1>3. ASSUME Next PROVE G
  <2>1. ASSUME NEW v \in Vcpus, NEW a \in Accesses[v], Access(v, a) PROVE G
    <3>1. Abstract!Begin(v) \/ Abstract!BeginOther(v)
      BY <2>1, BankAccess
    <3> HIDE DEF G
    <3> QED BY <1>1, <3>1
  <2>2. ASSUME NEW n \in Nodes, NEW m \in Nodes, Receive(n, m) PROVE G
    BY <2>2, BankReceive
  <2>3. ASSUME NEW v \in Vcpus, RecvReply(v) PROVE G
    BY <2>3, BankReply
  <2>4. ASSUME NEW v \in Vcpus, Return(v) PROVE G
    <3>1. Abstract!End(v)
      BY <2>4, BankReturn
    <3> HIDE DEF G
    <3> QED BY <1>1, <3>1
  <2>5. ASSUME NEW g \in Owners, Handler(g) PROVE G
    <3>1. CASE Emulate(g)
      BY <3>1, BankEmulate
    <3>2. CASE EnableHw(g)
      BY <3>2, BankHw
    <3>3. CASE TargetBit(g) \/ Broadcast(g) \/ Route(g)
      BY <3>3, BankTarget
    <3>4. CASE ReadBit(g) \/ WriteBit(g) \/ EnableBit(g)
      <4>1. PICK v \in Vcpus : v = Actor(g) /\ Abstract!Touch(v)
        BY <3>4, BankRead, BankWrite, BankEnable
      <4> HIDE DEF G
      <4> QED BY <1>1, <4>1
    <3> HIDE DEF G
    <3> QED BY <2>5, <3>1, <3>2, <3>3, <3>4 DEF Handler
  <2> HIDE DEF G
  <2> QED BY <1>3, <2>1, <2>2, <2>3, <2>4, <2>5, NextIs
<1> QED BY <1>2, <1>3 DEF Unseen

\* The registers as vgic_init leaves them.
LEMMA BankInit ==
  Init => Abstract!Init
<1> SUFFICES ASSUME Init PROVE Abstract!Init
  OBVIOUS
<1>1. TypeOK
  BY InitAt
<1>2. Registers \in [Owners -> [Bits -> [Fields -> Nat]]]
  <2>1. \A r \in Irqs : \A f \in Fields : r[f] \in Nat
    BY DEF Irqs, Fields
  <2> QED BY <1>1, <2>1 DEF Registers, TypeOK
<1>3. Progress = [v \in Vcpus |-> NoAccess]
  <2>1. \A v \in Vcpus : job[Vcpu(v)].at = "idle"
    BY OwnerIs DEF Init, Idle
  <2>2. \A v \in Vcpus : View(v, job[Vcpu(v)], job[Node(NodeOf(job[Vcpu(v)].a.vcpu))], reply[v],
                              Known(job[Vcpu(v)].a)) = NoAccess
    BY <2>1 DEF View
  <2> QED BY <2>2 DEF Progress
<1>4. x \in [Vcpus -> [Bits -> Nat]]
  BY <1>1 DEF TypeOK, Vals
<1> QED BY <1>2, <1>3, <1>4, FreeIs DEF Abstract!Init

\* Forwarded or not, interleaved with whatever the other cpus and nodes do, an
\* access takes every interrupt of its register once, at its owner, between the
\* trap and the return, and a read returns what it found (vmmio.c, vgic.c).
THEOREM RegisterBankImplemented == Spec => ImplementsRegisterBank
<1>1. Init => HwInv /\ CallOK
  BY HwInit, CallInit
<1>2. HwInv /\ CallOK /\ [Next]_vars => HwInv' /\ CallOK'
  BY HwStep, CallStep DEF HwInv
<1>3. HwInv /\ CallOK /\ [Next]_vars => [Abstract!Next]_<<Registers, Progress, x>>
  BY BankStep DEF HwInv
<1>4. Init => Abstract!Init
  BY BankInit
<1> QED BY <1>1, <1>2, <1>3, <1>4, PTL DEF Spec, ImplementsRegisterBank, Abstract!Spec
=============================================================================

-------------------------------- MODULE CpuOnProofs --------------------------------
(*****************************************************************************)
(* CpuOn for any number of vCPUs and nodes: of all the CPU_ONs for a vCPU    *)
(* at most one succeeds and the vCPU enters where that call asked, and the   *)
(* registers of a running vCPU are not touched.  That every vCPU also        *)
(* enters with the boot clock set needs a cluster with one sub-node: with    *)
(* more, a wake-up from one sub-node can overtake Node 0's boot signal to    *)
(* another.                                                                  *)
(*****************************************************************************)
EXTENDS CpuOn, SequenceTheorems, TLAPS

(* The inductive invariant.                                                *)

Node0 == NodeOf[BootVcpu]
Eps == (UNION {Entries[v] : v \in Vcpus}) \cup {"kernel", None}
Cores == {"off", "start", "init", "test", "about", "asleep", "enter", "guest"}
Pcs == {"idle", "lock", "check", "entry", "boot", "online", "unlock", "reply"}
Jobs == [pc : Pcs, target : Vcpus \cup {None}, ep : Eps,
         from : Vcpus \cup {None}, ret : Statuses \cup {None}]
Frames == [type : {"BOOT_SIG"}]
          \cup [type : {"CPU_WAKEUP"}, vcpuid : Vcpus, ep : Eps, from : Vcpus]

Shapes ==
  /\ core \in [Vcpus -> Cores]
  /\ online \in [Vcpus -> BOOLEAN]
  /\ elr \in [Vcpus -> Eps]
  /\ lock \in [Vcpus -> BOOLEAN]
  /\ job \in [Agents -> Jobs]
  /\ net \in [Nodes -> [Nodes -> Seq(Frames)]]
  /\ ack \in [Vcpus -> Statuses \cup {None}]
  /\ granted \in [Vcpus -> Seq(Eps)]
  /\ entered \in [Vcpus -> [ep : Eps, clk : BOOLEAN]]
  /\ bootclk \in [Nodes -> BOOLEAN]

\* a is in vpsci_vcpu_wakeup_local with the lock of its target held
InLock(a) == job[a].pc \in {"check", "entry", "boot", "online", "unlock"}

TargetsOK ==
  /\ \A v \in Vcpus : job[Cpu(v)].pc # "idle" =>
       /\ job[Cpu(v)].target \in Vcpus
       /\ job[Cpu(v)].pc = "reply" <=> NodeOf[job[Cpu(v)].target] # NodeOf[v]
  /\ \A n \in Nodes : job[Rx(n)].pc # "idle" =>
       /\ job[Rx(n)].pc # "reply"
       /\ job[Rx(n)].target \in Vcpus /\ NodeOf[job[Rx(n)].target] = n

LockOK ==
  \A a \in Agents : InLock(a) =>
    /\ lock[job[a].target]
    /\ \A b \in Agents : InLock(b) /\ job[b].target = job[a].target => b = a

OnlineOK ==
  /\ online[BootVcpu]
  /\ \A a \in Agents : job[a].pc \in {"entry", "boot", "online"} => ~online[job[a].target]
  /\ \A a \in Agents : job[a].pc \in {"boot", "online"} => elr[job[a].target] = job[a].ep
  /\ \A v \in Vcpus : core[v] \in {"enter", "guest"} => online[v]
  /\ \A v \in Vcpus : core[v] # "guest" => entered[v] = NotEntered
  /\ \A v \in Vcpus : core[v] = "guest" => entered[v].ep = elr[v]

\* the call of w that an agent, a frame or an acknowledgement belongs to
Awaits(w, t, ep) ==
  /\ w \in Vcpus
  /\ job[Cpu(w)].pc = "reply" /\ job[Cpu(w)].target = t /\ job[Cpu(w)].ep = ep

IsWakeup(m, n, i) == i \in 1..Len(net[m][n]) /\ net[m][n][i].type = "CPU_WAKEUP"

\* A frame in flight is the request of one call, and the only one of it.
FrameOK(m, n, i) ==
  LET f == net[m][n][i]
  IN /\ Awaits(f.from, f.vcpuid, f.ep) /\ ack[f.from] = None
     /\ NodeOf[f.from] = m /\ NodeOf[f.vcpuid] = n
     /\ job[Rx(n)].pc # "idle" => job[Rx(n)].from # f.from
     /\ \A j \in 1..Len(net[m][n]) : IsWakeup(m, n, j) /\ net[m][n][j].from = f.from => j = i

FramesOK ==
  \A m, n \in Nodes : \A i \in 1..Len(net[m][n]) : IsWakeup(m, n, i) => FrameOK(m, n, i)

\* A handler at work executes one call that still waits.
HandlersOK ==
  \A n \in Nodes : job[Rx(n)].pc # "idle" =>
    /\ Awaits(job[Rx(n)].from, job[Rx(n)].target, job[Rx(n)].ep)
    /\ ack[job[Rx(n)].from] = None

AcksOK == \A w \in Vcpus : ack[w] # None => job[Cpu(w)].pc = "reply"

CallsOK == FramesOK /\ HandlersOK /\ AcksOK

\* a has put its target online
Won(a) == job[a].pc = "unlock" /\ job[a].ret = "SUCCESS"

Answered(w) == ack[w] = "SUCCESS"

\* v was put online by a call with this entry point, and no call was told yet
Promised(v, ep) == online[v] /\ v # BootVcpu /\ elr[v] = ep /\ granted[v] = <<>>

SuccessOK ==
  /\ \A a \in Agents : Won(a) => Promised(job[a].target, job[a].ep)
  /\ \A w \in Vcpus : Answered(w) => Promised(job[Cpu(w)].target, job[Cpu(w)].ep)
  /\ \A a \in Agents, w \in Vcpus : Won(a) /\ Answered(w) => job[a].target # job[Cpu(w)].target
  /\ \A w, x \in Vcpus : /\ Answered(w) /\ Answered(x)
                         /\ job[Cpu(w)].target = job[Cpu(x)].target
                         => w = x
  /\ \A v \in Vcpus : granted[v] # <<>> =>
       /\ online[v] /\ v # BootVcpu
       /\ Len(granted[v]) = 1 /\ granted[v][1] = elr[v]

\* at most one node besides Node 0
OneSubNode == \A m, n \in Nodes \ {Node0} : m = n

ClockOK ==
  /\ \A n \in Nodes : ~bootclk[n] =>
       /\ n # Node0
       /\ 1 \in 1..Len(net[Node0][n]) /\ net[Node0][n][1].type = "BOOT_SIG"
       /\ job[Rx(n)].pc = "idle"
       /\ \A v \in Vcpus : NodeOf[v] = n => ~online[v] /\ job[Cpu(v)].pc = "idle"
  /\ \A v \in Vcpus : entered[v] # NotEntered => entered[v].clk

EntryInv == Shapes /\ TargetsOK /\ LockOK /\ OnlineOK /\ CallsOK /\ SuccessOK

\* the two ways the frames between two nodes change
Sends(m, n, f) == net' = [net EXCEPT ![m][n] = Append(@, f)]
Takes(m, n) == net' = [net EXCEPT ![m][n] = Tail(@)]

-----------------------------------------------------------------------------
(* What the actions do.                                                    *)

\* Callers and handlers are distinct agents.
LEMMA Places ==
  /\ \A v \in Vcpus : Cpu(v) \in Agents /\ NodeOf[v] \in Nodes
  /\ \A n \in Nodes : Rx(n) \in Agents
  /\ \A a \in Agents : (\E v \in Vcpus : a = Cpu(v)) \/ (\E n \in Nodes : a = Rx(n))
  /\ \A v, w \in Vcpus : Cpu(v) = Cpu(w) => v = w
  /\ \A m, n \in Nodes : Rx(m) = Rx(n) => m = n
  /\ \A v \in Vcpus, n \in Nodes : Cpu(v) # Rx(n)
  /\ BootVcpu \in Vcpus /\ Node0 \in Nodes
BY CpuOnAssumption DEF Cpu, Rx, Agents, Nodes, Node0

\* The values that stand for nothing yet.
LEMMA Marks == /\ None \in Eps /\ "kernel" \in Eps
               /\ \A v \in Vcpus : \A ep \in Entries[v] : ep \in Eps
               /\ NoJob \in Jobs /\ NotEntered \in [ep : Eps, clk : BOOLEAN]
<1>1. None \in Eps /\ "kernel" \in Eps /\ \A v \in Vcpus : \A ep \in Entries[v] : ep \in Eps
  BY DEF Eps
<1> QED BY <1>1 DEF NoJob, Jobs, Pcs, NotEntered

\* Every job at work has a vCPU as its target.
LEMMA TargetIn ==
  ASSUME TargetsOK, NEW a \in Agents, job[a].pc # "idle"
  PROVE  job[a].target \in Vcpus
BY Places DEF TargetsOK

\* What a step of vpsci_vcpu_wakeup_local does.
LEMMA WakeupAt ==
  ASSUME Shapes, TargetsOK, NEW a \in Agents, WakeupLocal(a)
  PROVE  LET t == job[a].target
         IN /\ t \in Vcpus
            /\ \A b \in Agents : b # a => job'[b] = job[b]
            /\ job'[a].target = t /\ job'[a].ep = job[a].ep /\ job'[a].from = job[a].from
            /\ UNCHANGED <<net, ack, granted, entered, bootclk>>
            /\ \A v \in Vcpus : v # t => /\ core'[v] = core[v] /\ online'[v] = online[v]
                                         /\ elr'[v] = elr[v] /\ lock'[v] = lock[v]
            /\ \/ /\ job[a].pc = "lock" /\ job'[a].pc = "check" /\ ~lock[t] /\ lock'[t]
                  /\ core' = core /\ online' = online /\ elr' = elr
               \/ /\ job[a].pc = "check" /\ lock' = lock
                  /\ \/ online[t] /\ job'[a].pc = "unlock" /\ job'[a].ret = "ALREADY_ON"
                     \/ ~online[t] /\ job'[a].pc = "entry"
                  /\ core' = core /\ online' = online /\ elr' = elr
               \/ /\ job[a].pc = "entry" /\ job'[a].pc \in {"boot", "online"} /\ lock' = lock
                  /\ core' = core /\ online' = online /\ elr'[t] = job[a].ep
               \/ /\ job[a].pc = "boot" /\ lock' = lock /\ online' = online /\ elr' = elr
                  /\ \/ job'[a].pc = "online" /\ core[t] = "off" /\ core'[t] = "start"
                     \/ job'[a].pc = "unlock" /\ job'[a].ret = "DENIED" /\ core' = core
               \/ /\ job[a].pc = "online" /\ job'[a].pc = "unlock" /\ job'[a].ret = "SUCCESS"
                  /\ core' = core /\ elr' = elr /\ lock' = lock /\ online'[t]
<1> DEFINE t == job[a].target
<1>0. /\ job[a] \in Jobs /\ job \in [Agents -> Jobs] /\ core \in [Vcpus -> Cores]
      /\ online \in [Vcpus -> BOOLEAN] /\ elr \in [Vcpus -> Eps] /\ lock \in [Vcpus -> BOOLEAN]
  BY DEF Shapes
<1>1. job[a].pc # "idle" /\ t \in Vcpus
  <2>1. job[a].pc # "idle"
    BY DEF WakeupLocal, Lock, CheckOnline, SetEntry, CpuBoot, SetOnline
  <2> QED BY <2>1, TargetIn
<1>2. CASE Lock(a)
  BY <1>0, <1>1, <1>2 DEF Lock, Jobs
<1>3. CASE CheckOnline(a)
  BY <1>0, <1>1, <1>3 DEF CheckOnline, Jobs
<1>4. CASE SetEntry(a)
  BY <1>0, <1>1, <1>4 DEF SetEntry, Jobs
<1>5. CASE CpuBoot(a)
  <2>1. CASE core[t] = "off" /\ core' = [core EXCEPT ![t] = "start"]
             /\ job' = [job EXCEPT ![a].pc = "online"]
    BY <1>0, <1>1, <1>5, <2>1 DEF CpuBoot, Jobs
  <2>2. CASE job' = [job EXCEPT ![a].pc = "unlock", ![a].ret = "DENIED"] /\ UNCHANGED core
    BY <1>0, <1>1, <1>5, <2>2 DEF CpuBoot, Jobs
  <2> QED BY <1>5, <2>1, <2>2 DEF CpuBoot
<1>6. CASE SetOnline(a)
  BY <1>0, <1>1, <1>6 DEF SetOnline, Jobs
<1> QED BY <1>2, <1>3, <1>4, <1>5, <1>6 DEF WakeupLocal

\* What vpsci_cpu_on does.
LEMMA CallAt ==
  ASSUME Shapes, NEW v \in Vcpus, Call(v)
  PROVE  \E t \in Vcpus, ep \in Eps, f \in Frames :
           /\ f.type = "CPU_WAKEUP" /\ f.vcpuid = t /\ f.ep = ep /\ f.from = v
           /\ job[Cpu(v)].pc = "idle" /\ core[v] = "guest"
           /\ job'[Cpu(v)].target = t /\ job'[Cpu(v)].ep = ep
           /\ \A b \in Agents : b # Cpu(v) => job'[b] = job[b]
           /\ UNCHANGED <<core, wakeup, online, elr, lock, ack, bootclk, granted, entered>>
           /\ \/ NodeOf[t] = NodeOf[v] /\ job'[Cpu(v)].pc = "lock" /\ net' = net
              \/ /\ NodeOf[t] # NodeOf[v] /\ job'[Cpu(v)].pc = "reply"
                 /\ Sends(NodeOf[v], NodeOf[t], f)
<1>0. job \in [Agents -> Jobs] /\ Cpu(v) \in Agents
  BY Places DEF Shapes
<1>1. PICK t \in Vcpus, ep \in Entries[v] : CpuOnLocal(v, t, ep) \/ CpuOnRemote(v, t, ep)
  BY DEF Call
<1>2. ep \in Eps
  BY Marks
<1>5. PICK f \in Frames : /\ f = [type |-> "CPU_WAKEUP", vcpuid |-> t, ep |-> ep, from |-> v]
                          /\ f.type = "CPU_WAKEUP" /\ f.vcpuid = t /\ f.ep = ep /\ f.from = v
  <2>1. [type |-> "CPU_WAKEUP", vcpuid |-> t, ep |-> ep, from |-> v] \in Frames
    BY <1>2 DEF Frames
  <2> QED BY <2>1
<1>3. CASE CpuOnLocal(v, t, ep)
  <2> WITNESS t \in Vcpus, ep \in Eps, f \in Frames
  <2> QED BY <1>0, <1>3, <1>5 DEF CpuOnLocal, NoJob, Running
<1>4. CASE CpuOnRemote(v, t, ep)
  <2>1. Sends(NodeOf[v], NodeOf[t], f)
    BY <1>4, <1>5 DEF CpuOnRemote, Sends
  <2> WITNESS t \in Vcpus, ep \in Eps, f \in Frames
  <2> QED BY <1>0, <1>4, <1>5, <2>1 DEF CpuOnRemote, NoJob, Running
<1> QED BY <1>1, <1>3, <1>4

\* What the return of a call does.
LEMMA ReturnAt ==
  ASSUME Shapes, TargetsOK, NEW v \in Vcpus, UnlockLocal(v) \/ recv_wakeup_reply(v)
  PROVE  LET t == job[Cpu(v)].target
         IN /\ t \in Vcpus
            /\ \A b \in Agents : b # Cpu(v) => job'[b] = job[b]
            /\ job'[Cpu(v)] = NoJob /\ job'[Cpu(v)].pc = "idle"
            /\ UNCHANGED <<core, wakeup, online, elr, net, bootclk, entered>>
            /\ \A w \in Vcpus : w # t => granted'[w] = granted[w]
            /\ \/ /\ job[Cpu(v)].pc = "unlock" /\ ack' = ack
                  /\ \A w \in Vcpus : w # t => lock'[w] = lock[w]
                  /\ granted'[t] = IF Won(Cpu(v)) THEN Append(granted[t], job[Cpu(v)].ep)
                                   ELSE granted[t]
               \/ /\ job[Cpu(v)].pc = "reply" /\ ack[v] # None /\ lock' = lock
                  /\ ack'[v] = None /\ \A w \in Vcpus : w # v => ack'[w] = ack[w]
                  /\ granted'[t] = IF Answered(v) THEN Append(granted[t], job[Cpu(v)].ep)
                                   ELSE granted[t]
<1> DEFINE t == job[Cpu(v)].target
<1>0. /\ job \in [Agents -> Jobs] /\ Cpu(v) \in Agents /\ lock \in [Vcpus -> BOOLEAN]
      /\ ack \in [Vcpus -> Statuses \cup {None}] /\ granted \in [Vcpus -> Seq(Eps)]
  BY Places DEF Shapes
<1>1. t \in Vcpus
  BY <1>0, TargetIn DEF UnlockLocal, recv_wakeup_reply
<1>2. CASE UnlockLocal(v)
  BY <1>0, <1>1, <1>2 DEF UnlockLocal, Won, NoJob
<1>3. CASE recv_wakeup_reply(v)
  BY <1>0, <1>1, <1>3 DEF recv_wakeup_reply, Answered, NoJob
<1> QED BY <1>2, <1>3

\* What the end of cpu_wakeup_recv_intr does.
LEMMA ReplyAt ==
  ASSUME Shapes, TargetsOK, CallsOK, NEW n \in Nodes, UnlockRemote(n)
  PROVE  LET r == Rx(n) t == job[r].target w == job[r].from
         IN /\ t \in Vcpus /\ w \in Vcpus /\ job[r].pc = "unlock"
            /\ \A b \in Agents : b # r => job'[b] = job[b]
            /\ job'[r] = NoJob /\ job'[r].pc = "idle"
            /\ ack'[w] = job[r].ret /\ \A x \in Vcpus : x # w => ack'[x] = ack[x]
            /\ \A v \in Vcpus : v # t => lock'[v] = lock[v]
            /\ UNCHANGED <<online, elr, net, bootclk, granted, entered>>
            /\ \A v \in Vcpus : core'[v] = core[v] \/ (core[v] = "asleep" /\ core'[v] = "test")
<1> DEFINE r == Rx(n) t == job[r].target w == job[r].from
<1>0. /\ job \in [Agents -> Jobs] /\ r \in Agents /\ lock \in [Vcpus -> BOOLEAN]
      /\ ack \in [Vcpus -> Statuses \cup {None}] /\ core \in [Vcpus -> Cores]
  BY Places DEF Shapes
<1>1. job[r].pc = "unlock"
  BY DEF UnlockRemote
<1>2. t \in Vcpus /\ w \in Vcpus
  BY <1>0, <1>1, TargetIn DEF CallsOK, HandlersOK, Awaits
<1>3. \A v \in Vcpus : core'[v] = core[v] \/ (core[v] = "asleep" /\ core'[v] = "test")
  BY <1>0 DEF UnlockRemote, WakeFirst
<1>4. /\ \A b \in Agents : b # r => job'[b] = job[b]
      /\ job'[r] = NoJob /\ job'[r].pc = "idle"
      /\ ack'[w] = job[r].ret /\ \A x \in Vcpus : x # w => ack'[x] = ack[x]
      /\ \A v \in Vcpus : v # t => lock'[v] = lock[v]
      /\ UNCHANGED <<online, elr, net, bootclk, granted, entered>>
  BY <1>0, <1>2 DEF UnlockRemote, NoJob
<1> QED BY <1>1, <1>2, <1>3, <1>4

\* What taking a frame off the wire does.
LEMMA FrameAt ==
  ASSUME Shapes, CallsOK, NEW m \in Nodes, NEW n \in Nodes,
         recv_boot_sig(m, n) \/ cpu_wakeup_recv(m, n)
  PROVE  LET r == Rx(n) f == net[m][n][1]
         IN /\ job[r].pc = "idle" /\ net[m][n] # <<>> /\ 1 \in 1..Len(net[m][n])
            /\ Takes(m, n)
            /\ \A b \in Agents : b # r => job'[b] = job[b]
            /\ UNCHANGED <<online, elr, lock, ack, granted, entered>>
            /\ \A v \in Vcpus : core'[v] = core[v] \/ (core[v] = "asleep" /\ core'[v] = "test")
            /\ \/ /\ f.type = "BOOT_SIG" /\ job' = job
                  /\ bootclk'[n] /\ \A k \in Nodes : k # n => bootclk'[k] = bootclk[k]
               \/ /\ IsWakeup(m, n, 1) /\ f.from \in Vcpus /\ f.vcpuid \in Vcpus
                  /\ job'[r].pc = "lock" /\ job'[r].target = f.vcpuid
                  /\ job'[r].ep = f.ep /\ job'[r].from = f.from
                  /\ bootclk' = bootclk
<1> DEFINE r == Rx(n) f == net[m][n][1]
<1>0. /\ job \in [Agents -> Jobs] /\ r \in Agents /\ core \in [Vcpus -> Cores]
      /\ bootclk \in [Nodes -> BOOLEAN] /\ net[m][n] \in Seq(Frames)
  BY Places DEF Shapes
<1>1. net[m][n] # <<>> /\ job[r].pc = "idle" /\ Takes(m, n)
  BY DEF recv_boot_sig, cpu_wakeup_recv, TakeFrame, Takes
<1>2. Head(net[m][n]) = f /\ 1 \in 1..Len(net[m][n])
  BY <1>0, <1>1
<1>3. CASE recv_boot_sig(m, n)
  <2>1. f.type = "BOOT_SIG"
    BY <1>2, <1>3 DEF recv_boot_sig, TakeFrame
  <2>2. \A v \in Vcpus : core'[v] = core[v] \/ (core[v] = "asleep" /\ core'[v] = "test")
    BY <1>0, <1>3 DEF recv_boot_sig, WakeFirst
  <2>3. /\ UNCHANGED <<online, elr, lock, job, ack, granted, entered>>
        /\ bootclk'[n] /\ \A k \in Nodes : k # n => bootclk'[k] = bootclk[k]
    BY <1>0, <1>3 DEF recv_boot_sig
  <2> QED BY <1>0, <1>1, <1>2, <2>1, <2>2, <2>3
<1>4. CASE cpu_wakeup_recv(m, n)
  <2>1. IsWakeup(m, n, 1)
    BY <1>2, <1>4 DEF cpu_wakeup_recv, TakeFrame, IsWakeup
  <2>2. f.from \in Vcpus /\ f.vcpuid \in Vcpus
    <3>1. f \in Frames /\ f.type = "CPU_WAKEUP"
      BY <1>0, <1>2, <2>1 DEF IsWakeup
    <3> QED BY <3>1 DEF Frames
  <2>3. job' = [job EXCEPT ![r] = [pc |-> "lock", target |-> f.vcpuid, ep |-> f.ep,
                                   from |-> f.from, ret |-> None]]
    BY <1>2, <1>4 DEF cpu_wakeup_recv
  <2>4. UNCHANGED <<core, online, elr, lock, ack, bootclk, granted, entered>>
    BY <1>4 DEF cpu_wakeup_recv
  <2>5. /\ \A b \in Agents : b # r => job'[b] = job[b]
        /\ job'[r].pc = "lock" /\ job'[r].target = f.vcpuid
        /\ job'[r].ep = f.ep /\ job'[r].from = f.from
    BY <1>0, <2>3
  <2> QED BY <1>1, <1>2, <2>1, <2>2, <2>4, <2>5
<1> QED BY <1>3, <1>4

\* What the physical cpu of a vCPU does.
LEMMA CoreAt ==
  ASSUME Shapes, NEW v \in Vcpus, CoreStep(v) \/ OtherIrq(v)
  PROVE  /\ UNCHANGED <<online, elr, lock, job, net, ack, bootclk, granted>>
         /\ \A w \in Vcpus : w # v => core'[w] = core[w] /\ entered'[w] = entered[w]
         /\ \/ /\ core[v] \notin {"enter", "guest", "off"} /\ entered' = entered
               /\ core'[v] \notin {"enter", "guest", "off"}
            \/ /\ core[v] = "test" /\ core'[v] = "enter" /\ online[v] /\ entered' = entered
            \/ /\ core[v] = "enter" /\ core'[v] = "guest"
               /\ entered'[v].ep = elr[v] /\ entered'[v].clk = bootclk[NodeOf[v]]
<1>0. core \in [Vcpus -> Cores] /\ entered \in [Vcpus -> [ep : Eps, clk : BOOLEAN]]
  BY DEF Shapes
<1>1. CASE PcpuInit(v) \/ VcpuInit(v) \/ Wfi(v) \/ OtherIrq(v)
  BY <1>0, <1>1 DEF PcpuInit, VcpuInit, Wfi, OtherIrq
<1>2. CASE wait_for_current_vcpu_online(v)
  BY <1>0, <1>2 DEF wait_for_current_vcpu_online
<1>3. CASE vcpu_entry(v)
  BY <1>0, <1>3 DEF vcpu_entry
<1> QED BY <1>1, <1>2, <1>3 DEF CoreStep

\* The actions of Next, those of vpsci_vcpu_wakeup_local together.
LEMMA Steps ==
  ASSUME [Next]_vars
  PROVE  \/ \E a \in Agents : WakeupLocal(a)
         \/ \E v \in Vcpus : Call(v)
         \/ \E v \in Vcpus : UnlockLocal(v) \/ recv_wakeup_reply(v)
         \/ \E n \in Nodes : UnlockRemote(n)
         \/ \E m, n \in Nodes : recv_boot_sig(m, n) \/ cpu_wakeup_recv(m, n)
         \/ \E v \in Vcpus : CoreStep(v) \/ OtherIrq(v)
         \/ UNCHANGED vars
<1>1. ASSUME NEW v \in Vcpus, CallerStep(v)
      PROVE  \/ \E a \in Agents : WakeupLocal(a)
             \/ \E w \in Vcpus : UnlockLocal(w) \/ recv_wakeup_reply(w)
  BY <1>1, Places DEF CallerStep
<1>2. ASSUME NEW n \in Nodes, RxStep(n)
      PROVE  \/ \E a \in Agents : WakeupLocal(a)
             \/ \E k \in Nodes : UnlockRemote(k)
             \/ \E m, k \in Nodes : recv_boot_sig(m, k) \/ cpu_wakeup_recv(m, k)
  BY <1>2, Places DEF RxStep
<1> QED BY <1>1, <1>2 DEF Next

-----------------------------------------------------------------------------
(* Every action keeps the invariant.                                       *)

\* Every step keeps the types of the state.
LEMMA ShapesStep ==
  ASSUME Shapes, TargetsOK, CallsOK, [Next]_vars
  PROVE  Shapes'
<1> DEFINE G == Shapes'
<1>0. /\ core \in [Vcpus -> Cores] /\ online \in [Vcpus -> BOOLEAN]
      /\ elr \in [Vcpus -> Eps] /\ lock \in [Vcpus -> BOOLEAN]
      /\ job \in [Agents -> Jobs] /\ net \in [Nodes -> [Nodes -> Seq(Frames)]]
      /\ ack \in [Vcpus -> Statuses \cup {None}] /\ granted \in [Vcpus -> Seq(Eps)]
      /\ entered \in [Vcpus -> [ep : Eps, clk : BOOLEAN]] /\ bootclk \in [Nodes -> BOOLEAN]
  BY DEF Shapes
<1> HIDE DEF G
<1>1. ASSUME NEW a \in Agents, WakeupLocal(a) PROVE G
  <2>1. job[a] \in Jobs /\ job[a].ep \in Eps
    BY <1>0 DEF Jobs
  <2>2. CASE Lock(a)
    <3>1. [job[a] EXCEPT !.pc = "check"] \in Jobs
      BY <2>1 DEF Jobs, Pcs
    <3> QED BY <1>0, <2>2, <3>1 DEF Lock, Shapes, G
  <2>3. CASE CheckOnline(a)
    <3>1. /\ [job[a] EXCEPT !.pc = "unlock", !.ret = "ALREADY_ON"] \in Jobs
          /\ [job[a] EXCEPT !.pc = "entry"] \in Jobs
      BY <2>1 DEF Jobs, Pcs, Statuses
    <3> QED BY <1>0, <2>3, <3>1 DEF CheckOnline, Shapes, G
  <2>4. CASE SetEntry(a)
    <3>1. [job[a] EXCEPT !.pc = "online"] \in Jobs /\ [job[a] EXCEPT !.pc = "boot"] \in Jobs
      BY <2>1 DEF Jobs, Pcs
    <3> QED BY <1>0, <2>1, <2>4, <3>1 DEF SetEntry, Shapes, G
  <2>5. CASE CpuBoot(a)
    <3>1. /\ [job[a] EXCEPT !.pc = "online"] \in Jobs
          /\ [job[a] EXCEPT !.pc = "unlock", !.ret = "DENIED"] \in Jobs
      BY <2>1 DEF Jobs, Pcs, Statuses
    <3>2. core' \in [Vcpus -> Cores]
      BY <1>0, <2>5 DEF CpuBoot, Cores
    <3>3. job' \in [Agents -> Jobs]
      BY <1>0, <2>5, <3>1 DEF CpuBoot
    <3> QED BY <1>0, <2>5, <3>2, <3>3 DEF CpuBoot, Shapes, G
  <2>6. CASE SetOnline(a)
    <3>1. [job[a] EXCEPT !.pc = "unlock", !.ret = "SUCCESS"] \in Jobs
      BY <2>1 DEF Jobs, Pcs, Statuses
    <3> QED BY <1>0, <2>6, <3>1 DEF SetOnline, Shapes, G
  <2> QED BY <1>1, <2>2, <2>3, <2>4, <2>5, <2>6 DEF WakeupLocal
<1>2. ASSUME NEW v \in Vcpus, Call(v) PROVE G
  <2>1. PICK t \in Vcpus, ep \in Entries[v] : CpuOnLocal(v, t, ep) \/ CpuOnRemote(v, t, ep)
    BY <1>2 DEF Call
  <2>2. ep \in Eps /\ NodeOf[v] \in Nodes /\ NodeOf[t] \in Nodes
    BY Marks, Places
  <2>3. CASE CpuOnLocal(v, t, ep)
    <3>1. [NoJob EXCEPT !.pc = "lock", !.target = t, !.ep = ep] \in Jobs
      BY <2>2, Marks DEF Jobs, Pcs, NoJob
    <3> QED BY <1>0, <2>3, <3>1 DEF CpuOnLocal, Shapes, G
  <2>4. CASE CpuOnRemote(v, t, ep)
    <3>1. [NoJob EXCEPT !.pc = "reply", !.target = t, !.ep = ep] \in Jobs
      BY <2>2, Marks DEF Jobs, Pcs, NoJob
    <3>2. [type |-> "CPU_WAKEUP", vcpuid |-> t, ep |-> ep, from |-> v] \in Frames
      BY <2>2 DEF Frames
    <3>3. net' \in [Nodes -> [Nodes -> Seq(Frames)]]
      BY <1>0, <2>2, <2>4, <3>2 DEF CpuOnRemote
    <3> QED BY <1>0, <2>4, <3>1, <3>3 DEF CpuOnRemote, Shapes, G
  <2> QED BY <2>1, <2>3, <2>4
<1>3. ASSUME NEW v \in Vcpus, UnlockLocal(v) PROVE G
  <2>1. job[Cpu(v)] \in Jobs /\ job[Cpu(v)].ep \in Eps
    BY <1>0, Places DEF Jobs
  <2>2. granted' \in [Vcpus -> Seq(Eps)]
    <3>1. job[Cpu(v)].target \in Vcpus
      BY <1>3, Places, TargetIn DEF UnlockLocal
    <3>2. Append(granted[job[Cpu(v)].target], job[Cpu(v)].ep) \in Seq(Eps)
      BY <1>0, <2>1, <3>1
    <3> QED BY <1>0, <1>3, <3>1, <3>2 DEF UnlockLocal
  <2> QED BY <1>0, <1>3, <2>2, Marks DEF UnlockLocal, Shapes, G
<1>4. ASSUME NEW v \in Vcpus, recv_wakeup_reply(v) PROVE G
  <2>1. job[Cpu(v)] \in Jobs /\ job[Cpu(v)].ep \in Eps
    BY <1>0, Places DEF Jobs
  <2>2. granted' \in [Vcpus -> Seq(Eps)]
    <3>1. job[Cpu(v)].target \in Vcpus
      BY <1>4, Places, TargetIn DEF recv_wakeup_reply
    <3>2. Append(granted[job[Cpu(v)].target], job[Cpu(v)].ep) \in Seq(Eps)
      BY <1>0, <2>1, <3>1
    <3> QED BY <1>0, <1>4, <3>1, <3>2 DEF recv_wakeup_reply
  <2> QED BY <1>0, <1>4, <2>2, Marks DEF recv_wakeup_reply, Shapes, G
<1>5. ASSUME NEW n \in Nodes, UnlockRemote(n) PROVE G
  <2>1. job[Rx(n)].ret \in Statuses \cup {None}
    BY <1>0, Places DEF Jobs
  <2>2. core' \in [Vcpus -> Cores]
    BY <1>0, <1>5 DEF UnlockRemote, WakeFirst, Cores
  <2> QED BY <1>0, <1>5, <2>1, <2>2, Marks DEF UnlockRemote, Shapes, G
<1>6. ASSUME NEW m \in Nodes, NEW n \in Nodes, recv_boot_sig(m, n) \/ cpu_wakeup_recv(m, n)
      PROVE  G
  <2>1. net[m][n] \in Seq(Frames) /\ net[m][n] # <<>> /\ net' = [net EXCEPT ![m][n] = Tail(@)]
    BY <1>0, <1>6 DEF recv_boot_sig, cpu_wakeup_recv, TakeFrame
  <2>2. Tail(net[m][n]) \in Seq(Frames) /\ Head(net[m][n]) \in Frames
    BY <2>1
  <2>3. net' \in [Nodes -> [Nodes -> Seq(Frames)]]
    BY <1>0, <2>1, <2>2
  <2>4. CASE recv_boot_sig(m, n)
    <3>1. core' \in [Vcpus -> Cores]
      BY <1>0, <2>4 DEF recv_boot_sig, WakeFirst, Cores
    <3>2. bootclk' \in [Nodes -> BOOLEAN]
      BY <1>0, <2>4 DEF recv_boot_sig
    <3> QED BY <1>0, <2>3, <2>4, <3>1, <3>2 DEF recv_boot_sig, Shapes, G
  <2>5. CASE cpu_wakeup_recv(m, n)
    <3> DEFINE f == Head(net[m][n])
               j == [pc |-> "lock", target |-> f.vcpuid, ep |-> f.ep, from |-> f.from, ret |-> None]
    <3>1. f.type = "CPU_WAKEUP" /\ job' = [job EXCEPT ![Rx(n)] = j]
      BY <2>5 DEF cpu_wakeup_recv, TakeFrame
    <3>2. f.vcpuid \in Vcpus /\ f.ep \in Eps /\ f.from \in Vcpus
      BY <2>2, <3>1 DEF Frames
    <3>3. j \in Jobs
      BY <3>2 DEF Jobs, Pcs
    <3> HIDE DEF j
    <3>4. job' \in [Agents -> Jobs]
      BY <1>0, <3>1, <3>3
    <3> QED BY <1>0, <2>3, <2>5, <3>4 DEF cpu_wakeup_recv, Shapes, G
  <2> QED BY <1>6, <2>4, <2>5
<1>7. ASSUME NEW v \in Vcpus, CoreStep(v) \/ OtherIrq(v) PROVE G
  <2>1. core' \in [Vcpus -> Cores]
    BY <1>0, <1>7 DEF CoreStep, PcpuInit, VcpuInit, wait_for_current_vcpu_online, Wfi,
       vcpu_entry, OtherIrq, Cores
  <2>2. entered' \in [Vcpus -> [ep : Eps, clk : BOOLEAN]]
    <3>1. CASE vcpu_entry(v)
      <4>1. [ep |-> elr[v], clk |-> bootclk[NodeOf[v]]] \in [ep : Eps, clk : BOOLEAN]
        BY <1>0, Places
      <4> QED BY <1>0, <3>1, <4>1 DEF vcpu_entry
    <3>2. CASE ~vcpu_entry(v)
      BY <1>0, <1>7, <3>2 DEF CoreStep, PcpuInit, VcpuInit, wait_for_current_vcpu_online,
         Wfi, OtherIrq
    <3> QED BY <3>1, <3>2
  <2> QED BY <1>0, <1>7, <2>1, <2>2, CoreAt DEF Shapes, G
<1>8. ASSUME UNCHANGED vars PROVE G
  BY <1>8, <1>0 DEF vars, Shapes, G
<1>9. G
  BY <1>1, <1>2, <1>3, <1>4, <1>5, <1>6, <1>7, <1>8, Steps
<1> QED BY <1>9 DEF G

\* The call, the frame and the handler of a node agree on the target.
LEMMA TargetsStep ==
  ASSUME Shapes, TargetsOK, CallsOK, [Next]_vars
  PROVE  TargetsOK'
<1> DEFINE G == TargetsOK'
<1> HIDE DEF G
<1>1. ASSUME NEW a \in Agents, WakeupLocal(a) PROVE G
  <2>1. /\ \A b \in Agents : b # a => job'[b] = job[b]
        /\ job'[a].target = job[a].target
        /\ job[a].pc \notin {"idle", "reply"} /\ job'[a].pc \notin {"idle", "reply"}
    BY <1>1, WakeupAt
  <2> QED BY <2>1, Places DEF TargetsOK, G
<1>2. ASSUME NEW v \in Vcpus, Call(v) PROVE G
  <2>1. PICK t \in Vcpus : /\ \A b \in Agents : b # Cpu(v) => job'[b] = job[b]
                           /\ job'[Cpu(v)].target = t
                           /\ \/ NodeOf[t] = NodeOf[v] /\ job'[Cpu(v)].pc = "lock"
                              \/ NodeOf[t] # NodeOf[v] /\ job'[Cpu(v)].pc = "reply"
    BY <1>2, CallAt
  <2> QED BY <2>1, Places DEF TargetsOK, G
<1>3. ASSUME NEW v \in Vcpus, UnlockLocal(v) \/ recv_wakeup_reply(v) PROVE G
  <2>1. /\ \A b \in Agents : b # Cpu(v) => job'[b] = job[b]
        /\ job'[Cpu(v)].pc = "idle"
    BY <1>3, ReturnAt DEF NoJob
  <2> QED BY <2>1, Places DEF TargetsOK, G
<1>4. ASSUME NEW n \in Nodes, UnlockRemote(n) PROVE G
  <2>1. /\ \A b \in Agents : b # Rx(n) => job'[b] = job[b]
        /\ job'[Rx(n)].pc = "idle"
    BY <1>4, ReplyAt DEF NoJob
  <2> QED BY <2>1, Places DEF TargetsOK, G
<1>5. ASSUME NEW m \in Nodes, NEW n \in Nodes, recv_boot_sig(m, n) \/ cpu_wakeup_recv(m, n)
      PROVE  G
  <2>1. CASE job' = job
    BY <2>1 DEF TargetsOK, G
  <2>2. CASE job' # job
    <3>1. PICK f : /\ f = net[m][n][1] /\ IsWakeup(m, n, 1) /\ f.vcpuid \in Vcpus
                   /\ 1 \in 1..Len(net[m][n])
                   /\ \A b \in Agents : b # Rx(n) => job'[b] = job[b]
                   /\ job'[Rx(n)].pc = "lock" /\ job'[Rx(n)].target = f.vcpuid
      BY <1>5, <2>2, FrameAt
    <3>2. NodeOf[f.vcpuid] = n
      BY <3>1 DEF CallsOK, FramesOK, FrameOK
    <3> QED BY <3>1, <3>2, Places DEF TargetsOK, G
  <2> QED BY <2>1, <2>2
<1>6. ASSUME job' = job PROVE G
  BY <1>6 DEF TargetsOK, G
<1>7. G
  BY <1>1, <1>2, <1>3, <1>4, <1>5, <1>6, Steps, CoreAt DEF vars
<1> QED BY <1>7 DEF G

\* vcpu->lock admits one agent per vCPU.
LEMMA LockStep ==
  ASSUME Shapes, TargetsOK, CallsOK, LockOK, [Next]_vars
  PROVE  LockOK'
<1> DEFINE G == LockOK'
<1> HIDE DEF G
<1>1. ASSUME NEW a \in Agents, WakeupLocal(a) PROVE G
  <2> DEFINE t == job[a].target
  <2>1. /\ \A b \in Agents : b # a => job'[b] = job[b]
        /\ job'[a].target = t /\ t \in Vcpus
        /\ \A v \in Vcpus : v # t => lock'[v] = lock[v]
        /\ \/ job[a].pc = "lock" /\ ~lock[t] /\ lock'[t]
           \/ InLock(a) /\ lock' = lock
    BY <1>1, WakeupAt DEF InLock
  <2>2. \A b \in Agents : InLock(b) => job[b].target \in Vcpus
    BY TargetIn DEF InLock
  <2> QED BY <2>1, <2>2 DEF LockOK, InLock, G
<1>2. ASSUME NEW v \in Vcpus, Call(v) PROVE G
  <2>1. /\ \A b \in Agents : b # Cpu(v) => job'[b] = job[b]
        /\ job'[Cpu(v)].pc \in {"lock", "reply"} /\ lock' = lock
    BY <1>2, CallAt
  <2> QED BY <2>1, Places DEF LockOK, InLock, G
<1>3. ASSUME NEW v \in Vcpus, UnlockLocal(v) \/ recv_wakeup_reply(v) PROVE G
  <2>1. /\ \A b \in Agents : b # Cpu(v) => job'[b] = job[b]
        /\ job'[Cpu(v)].pc = "idle" /\ job[Cpu(v)].target \in Vcpus
        /\ \/ lock' = lock
           \/ /\ job[Cpu(v)].pc = "unlock"
              /\ \A w \in Vcpus : w # job[Cpu(v)].target => lock'[w] = lock[w]
    BY <1>3, ReturnAt DEF NoJob
  <2>2. \A b \in Agents : InLock(b) => job[b].target \in Vcpus
    BY TargetIn DEF InLock
  <2> QED BY <2>1, <2>2, Places DEF LockOK, InLock, G
<1>4. ASSUME NEW n \in Nodes, UnlockRemote(n) PROVE G
  <2>1. /\ \A b \in Agents : b # Rx(n) => job'[b] = job[b]
        /\ job'[Rx(n)].pc = "idle" /\ job[Rx(n)].target \in Vcpus
        /\ job[Rx(n)].pc = "unlock"
        /\ \A w \in Vcpus : w # job[Rx(n)].target => lock'[w] = lock[w]
    BY <1>4, ReplyAt DEF NoJob
  <2>2. \A b \in Agents : InLock(b) => job[b].target \in Vcpus
    BY TargetIn DEF InLock
  <2> QED BY <2>1, <2>2, Places DEF LockOK, InLock, G
<1>5. ASSUME NEW m \in Nodes, NEW n \in Nodes, recv_boot_sig(m, n) \/ cpu_wakeup_recv(m, n)
      PROVE  G
  <2>1. /\ \A b \in Agents : b # Rx(n) => job'[b] = job[b]
        /\ job' = job \/ job'[Rx(n)].pc = "lock"
        /\ lock' = lock
    BY <1>5, FrameAt
  <2> QED BY <2>1, Places DEF LockOK, InLock, G
<1>6. ASSUME job' = job, lock' = lock PROVE G
  BY <1>6 DEF LockOK, InLock, G
<1>7. G
  BY <1>1, <1>2, <1>3, <1>4, <1>5, <1>6, Steps, CoreAt DEF vars
<1> QED BY <1>7 DEF G

\* The entry point is written only while the vCPU is offline, and a vCPU that
\* enters or runs is online.
LEMMA OnlineStep ==
  ASSUME Shapes, TargetsOK, CallsOK, LockOK, OnlineOK, [Next]_vars
  PROVE  OnlineOK'
<1> DEFINE G == OnlineOK'
<1> HIDE DEF G
<1>1. ASSUME NEW a \in Agents, WakeupLocal(a) PROVE G
  <2> DEFINE t == job[a].target
  <2>1. /\ \A b \in Agents : b # a => job'[b] = job[b]
        /\ job'[a].target = t /\ t \in Vcpus /\ job'[a].ep = job[a].ep /\ entered' = entered
        /\ \A v \in Vcpus : v # t => core'[v] = core[v] /\ online'[v] = online[v] /\ elr'[v] = elr[v]
        /\ \/ /\ job[a].pc = "lock" /\ job'[a].pc = "check"
              /\ core' = core /\ online' = online /\ elr' = elr
           \/ /\ job[a].pc = "check"
              /\ job'[a].pc = "unlock" \/ (~online[t] /\ job'[a].pc = "entry")
              /\ core' = core /\ online' = online /\ elr' = elr
           \/ /\ job[a].pc = "entry" /\ job'[a].pc \in {"boot", "online"}
              /\ core' = core /\ online' = online /\ elr'[t] = job[a].ep
           \/ /\ job[a].pc = "boot" /\ online' = online /\ elr' = elr
              /\ \/ job'[a].pc = "online" /\ core[t] = "off" /\ core'[t] = "start"
                 \/ job'[a].pc = "unlock" /\ core' = core
           \/ /\ job[a].pc = "online" /\ job'[a].pc = "unlock"
              /\ core' = core /\ elr' = elr /\ online'[t]
    BY <1>1, WakeupAt
  <2>2. \A b \in Agents : InLock(b) => job[b].target \in Vcpus
    BY TargetIn DEF InLock
  <2>3. \A b \in Agents : InLock(a) /\ b # a /\ InLock(b) => job[b].target # t
    BY DEF LockOK
  <2>4. online'[BootVcpu]
    BY <2>1, Places DEF OnlineOK
  <2>5. \A b \in Agents : job'[b].pc \in {"entry", "boot", "online"} => ~online'[job'[b].target]
    BY <2>1, <2>2, <2>3 DEF OnlineOK, InLock
  <2>6. \A b \in Agents : job'[b].pc \in {"boot", "online"} => elr'[job'[b].target] = job'[b].ep
    BY <2>1, <2>2, <2>3 DEF OnlineOK, InLock
  <2>7. \A v \in Vcpus : core'[v] \in {"enter", "guest"} => core[v] = core'[v] /\ online'[v]
    BY <2>1 DEF OnlineOK
  <2>8. \A v \in Vcpus : core'[v] = "guest" => elr'[v] = elr[v]
    BY <2>1, <2>7 DEF OnlineOK
  <2>9. \A v \in Vcpus : core'[v] # "guest" => core[v] # "guest"
    BY <2>1
  <2> QED BY <2>1, <2>4, <2>5, <2>6, <2>7, <2>8, <2>9 DEF OnlineOK, G
<1>2. ASSUME NEW a \in Agents, \A b \in Agents : b # a => job'[b] = job[b],
             job' = job \/ job'[a].pc \notin {"entry", "boot", "online"},
             UNCHANGED <<online, elr, entered>>,
             \A v \in Vcpus : core'[v] = core[v] \/ (core[v] = "asleep" /\ core'[v] = "test")
      PROVE  G
  BY <1>2 DEF OnlineOK, G
<1>3. ASSUME NEW v \in Vcpus, Call(v) PROVE G
  <2>1. /\ \A b \in Agents : b # Cpu(v) => job'[b] = job[b]
        /\ job'[Cpu(v)].pc \in {"lock", "reply"} /\ UNCHANGED <<online, elr, entered, core>>
    BY <1>3, CallAt
  <2> QED BY <1>2, <2>1, Places
<1>4. ASSUME NEW v \in Vcpus, UnlockLocal(v) \/ recv_wakeup_reply(v) PROVE G
  <2>1. /\ \A b \in Agents : b # Cpu(v) => job'[b] = job[b]
        /\ job'[Cpu(v)].pc = "idle" /\ UNCHANGED <<online, elr, entered, core>>
    BY <1>4, ReturnAt DEF NoJob
  <2> QED BY <1>2, <2>1, Places
<1>5. ASSUME NEW n \in Nodes, UnlockRemote(n) PROVE G
  <2>1. /\ \A b \in Agents : b # Rx(n) => job'[b] = job[b]
        /\ job'[Rx(n)].pc = "idle" /\ UNCHANGED <<online, elr, entered>>
        /\ \A v \in Vcpus : core'[v] = core[v] \/ (core[v] = "asleep" /\ core'[v] = "test")
    BY <1>5, ReplyAt DEF NoJob
  <2> QED BY <1>2, <2>1, Places
<1>6. ASSUME NEW m \in Nodes, NEW n \in Nodes, recv_boot_sig(m, n) \/ cpu_wakeup_recv(m, n)
      PROVE  G
  <2>1. /\ \A b \in Agents : b # Rx(n) => job'[b] = job[b]
        /\ job' = job \/ job'[Rx(n)].pc = "lock"
        /\ UNCHANGED <<online, elr, entered>>
        /\ \A v \in Vcpus : core'[v] = core[v] \/ (core[v] = "asleep" /\ core'[v] = "test")
    BY <1>6, FrameAt
  <2> QED BY <1>2, <2>1, Places
<1>7. ASSUME NEW v \in Vcpus, CoreStep(v) \/ OtherIrq(v) PROVE G
  <2>1. /\ UNCHANGED <<online, elr, job>>
        /\ \A w \in Vcpus : w # v => core'[w] = core[w] /\ entered'[w] = entered[w]
        /\ \/ /\ core[v] # "guest" /\ entered' = entered
              /\ core'[v] \notin {"enter", "guest"}
           \/ /\ core[v] = "test" /\ core'[v] = "enter" /\ online[v] /\ entered' = entered
           \/ /\ core[v] = "enter" /\ core'[v] = "guest" /\ entered'[v].ep = elr[v]
    BY <1>7, CoreAt
  <2> QED BY <2>1 DEF OnlineOK, G
<1>8. ASSUME UNCHANGED vars PROVE G
  BY <1>8 DEF OnlineOK, vars, G
<1>9. G
  BY <1>1, <1>3, <1>4, <1>5, <1>6, <1>7, <1>8, Steps
<1> QED BY <1>9 DEF G

\* The frames after one more was sent.
LEMMA SentAt ==
  ASSUME Shapes, NEW M \in Nodes, NEW N \in Nodes, NEW f \in Frames,
         Sends(M, N, f)
  PROVE  /\ \A m, n \in Nodes : m # M \/ n # N => net'[m][n] = net[m][n]
         /\ Len(net[M][N]) \in Nat /\ Len(net'[M][N]) = Len(net[M][N]) + 1
         /\ net'[M][N][Len(net[M][N]) + 1] = f
         /\ \A i \in 1..Len(net[M][N]) : net'[M][N][i] = net[M][N][i]
<1>1. net \in [Nodes -> [Nodes -> Seq(Frames)]] /\ net[M][N] \in Seq(Frames)
  BY DEF Shapes
<1>2. net'[M][N] = Append(net[M][N], f) /\ \A m, n \in Nodes : m # M \/ n # N => net'[m][n] = net[m][n]
  BY <1>1 DEF Sends
<1> QED BY <1>1, <1>2

\* The frames after the oldest was taken.
LEMMA TakenAt ==
  ASSUME Shapes, NEW M \in Nodes, NEW N \in Nodes, net[M][N] # <<>>,
         Takes(M, N)
  PROVE  /\ \A m, n \in Nodes : m # M \/ n # N => net'[m][n] = net[m][n]
         /\ Len(net[M][N]) \in Nat /\ Len(net'[M][N]) = Len(net[M][N]) - 1
         /\ \A i \in 1..Len(net'[M][N]) : /\ i + 1 \in 1..Len(net[M][N]) /\ i + 1 # 1
                                          /\ net'[M][N][i] = net[M][N][i + 1]
<1>1. net \in [Nodes -> [Nodes -> Seq(Frames)]] /\ net[M][N] \in Seq(Frames)
  BY DEF Shapes
<1>2. net'[M][N] = Tail(net[M][N]) /\ \A m, n \in Nodes : m # M \/ n # N => net'[m][n] = net[m][n]
  BY <1>1 DEF Takes
<1> QED BY <1>1, <1>2

\* Nothing changes for the calls when the frames stay, the calls that have a
\* frame or a handler go on waiting, and the handlers keep their calls.
LEMMA CallsKept ==
  ASSUME CallsOK, net' = net,
         \A w \in Vcpus : job[Cpu(w)].pc = "reply" /\ ack[w] = None =>
                            job'[Cpu(w)] = job[Cpu(w)] /\ ack'[w] = None,
         \A w \in Vcpus : ack'[w] # None => job'[Cpu(w)].pc = "reply",
         \A n \in Nodes : job'[Rx(n)].pc # "idle" =>
                            /\ job[Rx(n)].pc # "idle"
                            /\ job'[Rx(n)].from = job[Rx(n)].from
                            /\ job'[Rx(n)].target = job[Rx(n)].target
                            /\ job'[Rx(n)].ep = job[Rx(n)].ep
  PROVE  CallsOK'
<1>1. ASSUME NEW w, NEW t, NEW ep, Awaits(w, t, ep), ack[w] = None
      PROVE  Awaits(w, t, ep)' /\ ack'[w] = None
  BY <1>1 DEF Awaits
<1>2. ASSUME NEW m \in Nodes, NEW n \in Nodes, NEW i, IsWakeup(m, n, i)
    PROVE FrameOK(m, n, i)'
  <2>1. i \in 1..Len(net[m][n])
    BY <1>2 DEF IsWakeup
  <2>2. FrameOK(m, n, i)
    BY <1>2, <2>1 DEF CallsOK, FramesOK
  <2> DEFINE f == net[m][n][i]
  <2>3. Awaits(f.from, f.vcpuid, f.ep)' /\ ack'[f.from] = None
    BY <1>1, <2>2 DEF FrameOK
  <2> QED BY <2>2, <2>3 DEF FrameOK, IsWakeup
<1>3. FramesOK'
  BY <1>2 DEF FramesOK, IsWakeup
<1>4. HandlersOK'
  <2> SUFFICES ASSUME NEW n \in Nodes, job'[Rx(n)].pc # "idle"
               PROVE  /\ Awaits(job[Rx(n)].from, job[Rx(n)].target, job[Rx(n)].ep)'
                      /\ ack'[job'[Rx(n)].from] = None
    BY DEF HandlersOK
  <2> DEFINE w == job[Rx(n)].from t == job[Rx(n)].target ep == job[Rx(n)].ep
  <2>1. Awaits(w, t, ep) /\ ack[w] = None
    BY DEF CallsOK, HandlersOK
  <2>2. w' = w /\ t' = t /\ ep' = ep
    OBVIOUS
  <2>3. PICK x, y, z : x = w /\ y = t /\ z = ep
    OBVIOUS
  <2> HIDE DEF w, t, ep
  <2>4. Awaits(x, y, z)' /\ ack'[x] = None
    BY <1>1, <2>1, <2>3
  <2> QED BY <2>2, <2>3, <2>4 DEF w, t, ep, Awaits
<1> QED BY <1>3, <1>4 DEF CallsOK, AcksOK

\* Every remote call that waits has one request, handler or acknowledgement.
LEMMA CallsStep ==
  ASSUME Shapes, TargetsOK, CallsOK, [Next]_vars
  PROVE  CallsOK'
<1> DEFINE G == CallsOK'
<1> HIDE DEF G
<1>0. \A w \in Vcpus : ack[w] \in Statuses \cup {None}
  BY DEF Shapes
<1>1. ASSUME NEW a \in Agents, WakeupLocal(a) PROVE G
  <2>1. /\ \A b \in Agents : b # a => job'[b] = job[b]
        /\ job'[a].target = job[a].target /\ job'[a].ep = job[a].ep /\ job'[a].from = job[a].from
        /\ job[a].pc \notin {"idle", "reply"} /\ net' = net /\ ack' = ack
    BY <1>1, WakeupAt
  <2>2. \A w \in Vcpus : job[Cpu(w)].pc = "reply" => job'[Cpu(w)] = job[Cpu(w)]
    BY <2>1, Places
  <2>3. \A w \in Vcpus : ack'[w] # None => job'[Cpu(w)].pc = "reply"
    BY <2>1, <2>2 DEF CallsOK, AcksOK
  <2>4. \A n \in Nodes : job'[Rx(n)].pc # "idle" =>
                            /\ job[Rx(n)].pc # "idle"
                            /\ job'[Rx(n)].from = job[Rx(n)].from
                            /\ job'[Rx(n)].target = job[Rx(n)].target
                            /\ job'[Rx(n)].ep = job[Rx(n)].ep
    BY <2>1, Places
  <2> QED BY <2>1, <2>2, <2>3, <2>4, CallsKept DEF G
<1>2. ASSUME NEW v \in Vcpus, Call(v) PROVE G
  <2>1. PICK t \in Vcpus, ep \in Eps, f \in Frames :
           /\ f.type = "CPU_WAKEUP" /\ f.vcpuid = t /\ f.ep = ep /\ f.from = v
           /\ job[Cpu(v)].pc = "idle"
           /\ job'[Cpu(v)].target = t /\ job'[Cpu(v)].ep = ep
           /\ \A b \in Agents : b # Cpu(v) => job'[b] = job[b]
           /\ ack' = ack
           /\ \/ net' = net
              \/ /\ NodeOf[t] # NodeOf[v] /\ job'[Cpu(v)].pc = "reply"
                 /\ Sends(NodeOf[v], NodeOf[t], f)
    BY <1>2, CallAt
  <2>2. /\ \A w \in Vcpus : w # v => job'[Cpu(w)] = job[Cpu(w)]
        /\ \A n \in Nodes : job'[Rx(n)] = job[Rx(n)]
    BY <2>1, Places
  <2>3. ack[v] = None
    BY <2>1 DEF CallsOK, AcksOK
  <2>4. \A w \in Vcpus : ack'[w] # None => job'[Cpu(w)].pc = "reply"
    BY <2>1, <2>2, <2>3 DEF CallsOK, AcksOK
  <2>5. CASE net' = net
    BY <2>1, <2>2, <2>4, <2>5, CallsKept DEF G
  <2>6. CASE net' # net
    <3> DEFINE M == NodeOf[v] N == NodeOf[t]
    <3>1. M \in Nodes /\ N \in Nodes
      BY Places
    <3>2. f.type = "CPU_WAKEUP" /\ f.vcpuid = t /\ f.ep = ep /\ f.from = v
      BY <2>1
    <3>3. Sends(M, N, f) /\ job'[Cpu(v)].pc = "reply"
      BY <2>1, <2>6
    <3> HIDE DEF M, N
    <3>4. /\ \A m, n \in Nodes : m # M \/ n # N => net'[m][n] = net[m][n]
          /\ Len(net[M][N]) \in Nat /\ Len(net'[M][N]) = Len(net[M][N]) + 1
          /\ net'[M][N][Len(net[M][N]) + 1] = f
          /\ \A i \in 1..Len(net[M][N]) : net'[M][N][i] = net[M][N][i]
      BY <3>1, <3>3, SentAt
    <3>5. ASSUME NEW m \in Nodes, NEW n \in Nodes, NEW i \in 1..Len(net[m][n]), IsWakeup(m, n, i)
          PROVE  /\ FrameOK(m, n, i) /\ net[m][n][i].from # v
                 /\ job[Rx(n)].pc # "idle" => job[Rx(n)].from # v
      BY <2>1, <3>5 DEF CallsOK, FramesOK, FrameOK, HandlersOK, Awaits
    <3>6. \A n \in Nodes : job[Rx(n)].pc # "idle" => job[Rx(n)].from # v
      BY <2>1 DEF CallsOK, HandlersOK, Awaits
    <3>7. ASSUME NEW m \in Nodes, NEW n \in Nodes, NEW i \in 1..Len(net'[m][n]), IsWakeup(m, n, i)'
          PROVE  FrameOK(m, n, i)'
      <4>1. CASE m = M /\ n = N /\ i = Len(net[M][N]) + 1
        <5>1. Awaits(v, t, ep)' /\ ack'[v] = None
          BY <2>1, <2>3, <3>3 DEF Awaits
        <5>2. net'[m][n][i] = f
          BY <3>4, <4>1
        <5>3. ASSUME NEW j \in 1..Len(net'[m][n]), IsWakeup(m, n, j)', net'[m][n][j].from = v
              PROVE  j = i
          <6>1. CASE j \in 1..Len(net[m][n])
            <7>1. net'[m][n][j] = net[m][n][j]
              BY <3>4, <4>1, <6>1
            <7>2. IsWakeup(m, n, j)
              BY <5>3, <6>1, <7>1 DEF IsWakeup
            <7> QED BY <3>5, <5>3, <6>1, <7>1, <7>2
          <6> QED BY <3>4, <4>1, <6>1
        <5>4. job'[Rx(n)].pc # "idle" => job'[Rx(n)].from # v
          BY <2>2, <3>6
        <5> QED BY <3>2, <4>1, <5>1, <5>2, <5>3, <5>4 DEF FrameOK, M, N
      <4>2. CASE ~(m = M /\ n = N /\ i = Len(net[M][N]) + 1)
        <5>1. i \in 1..Len(net[m][n]) /\ net'[m][n][i] = net[m][n][i]
          BY <3>4, <4>2
        <5>2. FrameOK(m, n, i) /\ net[m][n][i].from # v
          BY <3>5, <3>7, <5>1 DEF IsWakeup
        <5>g. PICK g : g = net[m][n][i]
          OBVIOUS
        <5>3. Awaits(g.from, g.vcpuid, g.ep)' /\ ack'[g.from] = None
          BY <5>g, <2>1, <2>2, <5>1, <5>2 DEF FrameOK, Awaits
        <5>4. ASSUME NEW j \in 1..Len(net'[m][n]), IsWakeup(m, n, j)', net'[m][n][j].from = g.from
              PROVE  j = i
          <6>1. j \in 1..Len(net[m][n]) /\ net'[m][n][j] = net[m][n][j]
            <7>1. CASE m = M /\ n = N /\ j = Len(net[M][N]) + 1
              BY <5>g, <3>2, <3>4, <5>2, <5>4, <7>1
            <7>2. CASE ~(m = M /\ n = N /\ j = Len(net[M][N]) + 1)
              BY <3>4, <7>2
            <7> QED BY <7>1, <7>2
          <6> QED BY <5>g, <5>2, <5>4, <6>1 DEF FrameOK, IsWakeup
        <5>5. net'[m][n][i] = g /\ NodeOf[g.from] = m /\ NodeOf[g.vcpuid] = n
              /\ (job'[Rx(n)].pc # "idle" => job'[Rx(n)].from # g.from)
          BY <5>g, <2>2, <5>1, <5>2 DEF FrameOK
        <5> QED BY <5>g, <5>3, <5>4, <5>5 DEF FrameOK, Awaits
      <4> QED BY <4>1, <4>2
    <3>8. FramesOK'
      BY <3>7 DEF FramesOK
    <3>9. HandlersOK'
      BY <2>1, <2>2, <3>6 DEF CallsOK, HandlersOK, Awaits
    <3> QED BY <2>4, <3>8, <3>9 DEF CallsOK, AcksOK, G
  <2> QED BY <2>5, <2>6
<1>3. ASSUME NEW v \in Vcpus, UnlockLocal(v) \/ recv_wakeup_reply(v) PROVE G
  <2>1. /\ \A b \in Agents : b # Cpu(v) => job'[b] = job[b]
        /\ job'[Cpu(v)].pc = "idle" /\ net' = net
        /\ \/ job[Cpu(v)].pc = "unlock" /\ ack' = ack
           \/ /\ job[Cpu(v)].pc = "reply" /\ ack[v] # None
              /\ ack'[v] = None /\ \A w \in Vcpus : w # v => ack'[w] = ack[w]
    BY <1>3, ReturnAt
  <2>2. /\ \A w \in Vcpus : w # v => job'[Cpu(w)] = job[Cpu(w)]
        /\ \A n \in Nodes : job'[Rx(n)] = job[Rx(n)]
    BY <2>1, Places
  <2>3. \A w \in Vcpus : ack'[w] # None => job'[Cpu(w)].pc = "reply"
    BY <2>1, <2>2 DEF CallsOK, AcksOK
  <2>4. \A w \in Vcpus : job[Cpu(w)].pc = "reply" /\ ack[w] = None =>
                            job'[Cpu(w)] = job[Cpu(w)] /\ ack'[w] = None
    BY <2>1, <2>2
  <2> QED BY <2>1, <2>2, <2>3, <2>4, CallsKept DEF G
<1>4. ASSUME NEW k \in Nodes, UnlockRemote(k) PROVE G
  <2> DEFINE x == job[Rx(k)].from
  <2>1. /\ x \in Vcpus /\ job[Rx(k)].pc = "unlock"
        /\ \A b \in Agents : b # Rx(k) => job'[b] = job[b]
        /\ job'[Rx(k)].pc = "idle" /\ net' = net
        /\ \A y \in Vcpus : y # x => ack'[y] = ack[y]
    BY <1>4, ReplyAt
  <2>2. /\ \A w \in Vcpus : job'[Cpu(w)] = job[Cpu(w)]
        /\ \A n \in Nodes : n # k => job'[Rx(n)] = job[Rx(n)]
    BY <2>1, Places
  <2>3. /\ Awaits(x, job[Rx(k)].target, job[Rx(k)].ep) /\ NodeOf[job[Rx(k)].target] = k
        /\ job[Cpu(x)].target = job[Rx(k)].target /\ job[Cpu(x)].pc = "reply"
    BY <2>1 DEF CallsOK, HandlersOK, TargetsOK, Awaits
  <2>4. PICK c : c = x
    OBVIOUS
  <2> HIDE DEF x
  <2>5. ASSUME NEW m \in Nodes, NEW n \in Nodes, NEW i \in 1..Len(net[m][n]), IsWakeup(m, n, i)
        PROVE  FrameOK(m, n, i) /\ net[m][n][i].from # x
    <3>1. FrameOK(m, n, i)
      BY <2>5 DEF CallsOK, FramesOK
    <3>2. CASE n = k
      BY <2>1, <3>1, <3>2 DEF FrameOK, x
    <3>3. CASE n # k
      BY <2>3, <3>1, <3>3 DEF FrameOK, Awaits
    <3> QED BY <3>1, <3>2, <3>3
  <2>6. ASSUME NEW m \in Nodes, NEW n \in Nodes, NEW i \in 1..Len(net[m][n]), IsWakeup(m, n, i)
        PROVE  FrameOK(m, n, i)'
    <3>g. PICK g : g = net[m][n][i]
      OBVIOUS
    <3>1. FrameOK(m, n, i) /\ g.from # x
      BY <3>g, <2>5, <2>6
    <3>2. Awaits(g.from, g.vcpuid, g.ep)' /\ ack'[g.from] = None
      BY <3>g, <2>1, <2>2, <3>1 DEF FrameOK, Awaits
    <3>3. job'[Rx(n)].pc # "idle" => job'[Rx(n)].from # g.from
      BY <3>g, <2>1, <2>2, <3>1 DEF FrameOK
    <3> QED BY <3>g, <2>1, <3>1, <3>2, <3>3 DEF FrameOK, IsWakeup
  <2>7. FramesOK'
    BY <2>1, <2>6 DEF FramesOK, IsWakeup
  <2>8. HandlersOK'
    <3> SUFFICES ASSUME NEW n \in Nodes, job'[Rx(n)].pc # "idle"
                 PROVE  /\ Awaits(job[Rx(n)].from, job[Rx(n)].target, job[Rx(n)].ep)'
                        /\ ack'[job'[Rx(n)].from] = None
      BY DEF HandlersOK
    <3>1. n # k /\ job'[Rx(n)] = job[Rx(n)] /\ job[Rx(n)].pc # "idle"
      BY <2>1, <2>2
    <3>2. /\ Awaits(job[Rx(n)].from, job[Rx(n)].target, job[Rx(n)].ep)
          /\ ack[job[Rx(n)].from] = None /\ NodeOf[job[Rx(n)].target] = n
      BY <3>1 DEF CallsOK, HandlersOK, TargetsOK
    <3>3. job[Rx(n)].from # x /\ job[Rx(n)].from \in Vcpus
      BY <2>3, <3>1, <3>2 DEF Awaits
    <3> QED BY <2>1, <2>2, <3>1, <3>2, <3>3 DEF Awaits
  <2>9. AcksOK'
    BY <2>1, <2>2, <2>3 DEF CallsOK, AcksOK
  <2> QED BY <2>7, <2>8, <2>9 DEF CallsOK, G
<1>5. ASSUME NEW M \in Nodes, NEW N \in Nodes, recv_boot_sig(M, N) \/ cpu_wakeup_recv(M, N)
      PROVE  G
  <2> DEFINE f == net[M][N][1]
  <2>1. /\ job[Rx(N)].pc = "idle" /\ net[M][N] # <<>> /\ 1 \in 1..Len(net[M][N])
        /\ Takes(M, N)
        /\ \A b \in Agents : b # Rx(N) => job'[b] = job[b]
        /\ ack' = ack
        /\ \/ job' = job
           \/ /\ IsWakeup(M, N, 1) /\ f.from \in Vcpus
              /\ job'[Rx(N)].pc = "lock" /\ job'[Rx(N)].target = f.vcpuid
              /\ job'[Rx(N)].ep = f.ep /\ job'[Rx(N)].from = f.from
    BY <1>5, FrameAt
  <2>2. /\ \A w \in Vcpus : job'[Cpu(w)] = job[Cpu(w)]
        /\ \A n \in Nodes : n # N => job'[Rx(n)] = job[Rx(n)]
    BY <2>1, Places
  <2>3. /\ \A m, n \in Nodes : m # M \/ n # N => net'[m][n] = net[m][n]
        /\ \A i \in 1..Len(net'[M][N]) : /\ i + 1 \in 1..Len(net[M][N]) /\ i + 1 # 1
                                         /\ net'[M][N][i] = net[M][N][i + 1]
    BY <2>1, TakenAt
  <2>4. CASE job' = job
    <3>1. job'[Rx(N)].pc = "idle"
      BY <2>1, <2>4
    <3>2. ASSUME NEW m \in Nodes, NEW n \in Nodes, NEW i \in 1..Len(net'[m][n]), IsWakeup(m, n, i)'
          PROVE  \E j \in 1..Len(net[m][n]) :
                   /\ net'[m][n][i] = net[m][n][j] /\ IsWakeup(m, n, j)
                   /\ j = IF m = M /\ n = N THEN i + 1 ELSE i
      BY <2>3, <3>2 DEF IsWakeup
    <3>3. ASSUME NEW m \in Nodes, NEW n \in Nodes, NEW i \in 1..Len(net'[m][n]), IsWakeup(m, n, i)'
          PROVE  FrameOK(m, n, i)'
      <4>1. PICK j \in 1..Len(net[m][n]) :
                   /\ net'[m][n][i] = net[m][n][j] /\ IsWakeup(m, n, j)
                   /\ j = IF m = M /\ n = N THEN i + 1 ELSE i
        BY <3>2, <3>3
      <4>g. PICK g : g = net[m][n][j]
        OBVIOUS
      <4>2. FrameOK(m, n, j)
        BY <4>g, <4>1 DEF CallsOK, FramesOK
      <4>3. ASSUME NEW l \in 1..Len(net'[m][n]), IsWakeup(m, n, l)', net'[m][n][l].from = g.from
            PROVE  l = i
        <5>1. PICK h \in 1..Len(net[m][n]) :
                   /\ net'[m][n][l] = net[m][n][h] /\ IsWakeup(m, n, h)
                   /\ h = IF m = M /\ n = N THEN l + 1 ELSE l
          BY <4>g, <3>2, <4>3
        <5>2. h = j
          BY <4>g, <4>2, <4>3, <5>1 DEF FrameOK
        <5> QED BY <4>g, <4>1, <5>1, <5>2
      <4>4. Awaits(g.from, g.vcpuid, g.ep)' /\ ack'[g.from] = None
        BY <4>g, <2>1, <2>4, <4>2 DEF FrameOK, Awaits
      <4>5. /\ NodeOf[g.from] = m /\ NodeOf[g.vcpuid] = n
            /\ job'[Rx(n)].pc # "idle" => job'[Rx(n)].from # g.from
        BY <4>g, <2>4, <4>2 DEF FrameOK
      <4>6. net'[m][n][i] = g
        BY <4>g, <4>1
      <4> QED BY <4>g, <4>3, <4>4, <4>5, <4>6 DEF FrameOK, Awaits
    <3>4. FramesOK'
      BY <3>3 DEF FramesOK
    <3>5. HandlersOK' /\ AcksOK'
      BY <2>1, <2>4 DEF CallsOK, HandlersOK, AcksOK, Awaits
    <3> QED BY <3>4, <3>5 DEF CallsOK, G
  <2>5. CASE job' # job
    <3>1. /\ FrameOK(M, N, 1) /\ job'[Rx(N)].pc = "lock" /\ job'[Rx(N)].target = f.vcpuid
          /\ job'[Rx(N)].ep = f.ep /\ job'[Rx(N)].from = f.from /\ IsWakeup(M, N, 1)
      BY <2>1, <2>5 DEF CallsOK, FramesOK
    <3>2. ASSUME NEW m \in Nodes, NEW n \in Nodes, NEW i \in 1..Len(net'[m][n]), IsWakeup(m, n, i)'
          PROVE  \E j \in 1..Len(net[m][n]) :
                   /\ net'[m][n][i] = net[m][n][j] /\ IsWakeup(m, n, j)
                   /\ j = IF m = M /\ n = N THEN i + 1 ELSE i
      BY <2>3, <3>2 DEF IsWakeup
    <3>3. ASSUME NEW m \in Nodes, NEW n \in Nodes, NEW i \in 1..Len(net'[m][n]), IsWakeup(m, n, i)'
          PROVE  FrameOK(m, n, i)'
      <4>1. PICK j \in 1..Len(net[m][n]) :
                   /\ net'[m][n][i] = net[m][n][j] /\ IsWakeup(m, n, j)
                   /\ j = IF m = M /\ n = N THEN i + 1 ELSE i
        BY <3>2, <3>3
      <4>g. PICK g : g = net[m][n][j]
        OBVIOUS
      <4>2. FrameOK(m, n, j)
        BY <4>g, <4>1 DEF CallsOK, FramesOK
      <4>3. ASSUME NEW l \in 1..Len(net'[m][n]), IsWakeup(m, n, l)', net'[m][n][l].from = g.from
            PROVE  l = i
        <5>1. PICK h \in 1..Len(net[m][n]) :
                   /\ net'[m][n][l] = net[m][n][h] /\ IsWakeup(m, n, h)
                   /\ h = IF m = M /\ n = N THEN l + 1 ELSE l
          BY <4>g, <3>2, <4>3
        <5>2. h = j
          BY <4>g, <4>2, <4>3, <5>1 DEF FrameOK
        <5> QED BY <4>g, <4>1, <5>1, <5>2
      <4>4. Awaits(g.from, g.vcpuid, g.ep)' /\ ack'[g.from] = None
        BY <4>g, <2>1, <2>2, <4>2 DEF FrameOK, Awaits
      <4>5. n = N => g.from # f.from
        <5>1. CASE n = N /\ g.from = f.from
          <6>1. m = M
            BY <4>g, <3>1, <4>2, <5>1 DEF FrameOK
          <6>2. j = i + 1 /\ j # 1
            BY <4>g, <2>3, <4>1, <5>1, <6>1
          <6>3. j = 1
            BY <4>g, <2>1, <3>1, <4>1, <5>1, <6>1 DEF FrameOK
          <6> QED BY <4>g, <6>2, <6>3
        <5> QED BY <4>g, <5>1
      <4>6. /\ NodeOf[g.from] = m /\ NodeOf[g.vcpuid] = n
            /\ job'[Rx(n)].pc # "idle" => job'[Rx(n)].from # g.from
        <5>1. CASE n = N
          BY <4>g, <3>1, <4>2, <4>5, <5>1 DEF FrameOK
        <5>2. CASE n # N
          BY <4>g, <2>2, <4>2, <5>2 DEF FrameOK
        <5> QED BY <4>g, <5>1, <5>2
      <4>7. net'[m][n][i] = g
        BY <4>g, <4>1
      <4> QED BY <4>g, <4>3, <4>4, <4>6, <4>7 DEF FrameOK, Awaits
    <3>4. FramesOK'
      BY <3>3 DEF FramesOK
    <3>5. Awaits(f.from, f.vcpuid, f.ep) /\ ack[f.from] = None
      BY <3>1 DEF FrameOK
    <3>6. HandlersOK'
      <4> SUFFICES ASSUME NEW n \in Nodes, job'[Rx(n)].pc # "idle"
                   PROVE  /\ Awaits(job[Rx(n)].from, job[Rx(n)].target, job[Rx(n)].ep)'
                          /\ ack'[job'[Rx(n)].from] = None
        BY DEF HandlersOK
      <4>1. CASE n = N
        BY <2>1, <2>2, <3>1, <3>5, <4>1 DEF Awaits
      <4>2. CASE n # N
        BY <2>1, <2>2, <4>2 DEF Awaits, CallsOK, HandlersOK
      <4> QED BY <4>1, <4>2
    <3>7. AcksOK'
      BY <2>1, <2>2 DEF CallsOK, AcksOK
    <3> QED BY <3>4, <3>6, <3>7 DEF CallsOK, G
  <2> QED BY <2>4, <2>5
<1>6. ASSUME job' = job, net' = net, ack' = ack PROVE G
  BY <1>6, CallsKept DEF CallsOK, AcksOK, G
<1>7. G
  BY <1>1, <1>2, <1>3, <1>4, <1>5, <1>6, Steps, CoreAt DEF vars
<1> QED BY <1>7 DEF G

\* At most one call per vCPU is or will be told SUCCESS, the one that set elr.
LEMMA SuccessStep ==
  ASSUME Shapes, TargetsOK, CallsOK, LockOK, OnlineOK, SuccessOK, [Next]_vars
  PROVE  SuccessOK'
<1> DEFINE G == SuccessOK'
<1> HIDE DEF G
<1>0. /\ \A w \in Vcpus : Answered(w) => job[Cpu(w)].pc = "reply" /\ job[Cpu(w)].target \in Vcpus
      /\ \A b \in Agents : Won(b) => InLock(b) /\ job[b].target \in Vcpus
      /\ \A v \in Vcpus : granted[v] \in Seq(Eps)
  <2>1. \A w \in Vcpus : Answered(w) => job[Cpu(w)].pc = "reply"
    BY DEF CallsOK, AcksOK, Answered, None
  <2>2. \A b \in Agents : Won(b) => InLock(b) /\ job[b].pc # "idle"
    BY DEF Won, InLock
  <2> QED BY <2>1, <2>2, TargetIn, Places DEF Shapes
\* steps that leave the promises and the calls that wait alone
<1>1. ASSUME NEW a \in Agents, \A b \in Agents : b # a => job'[b] = job[b],
             job' = job \/ (~Won(a)' /\ job[a].pc # "reply"), UNCHANGED <<ack, granted>>,
             \A v \in Vcpus : online[v] => online'[v] /\ elr'[v] = elr[v]
      PROVE  G
  <2>1. \A w \in Vcpus : Answered(w)' => Answered(w) /\ job'[Cpu(w)] = job[Cpu(w)]
    BY <1>0, <1>1, Places DEF Answered
  <2>2. \A b \in Agents : Won(b)' => Won(b) /\ job'[b] = job[b]
    BY <1>1 DEF Won
  <2>3. \A b \in Agents : Won(b)' => Promised(job[b].target, job[b].ep)'
    BY <1>0, <1>1, <2>2 DEF SuccessOK, Promised
  <2>4. \A w \in Vcpus : Answered(w)' => Promised(job[Cpu(w)].target, job[Cpu(w)].ep)'
    BY <1>0, <1>1, <2>1 DEF SuccessOK, Promised
  <2>5. \A b \in Agents, w \in Vcpus : Won(b)' /\ Answered(w)' => job'[b].target # job'[Cpu(w)].target
    BY <2>1, <2>2 DEF SuccessOK
  <2>6. \A w, x \in Vcpus : Answered(w)' /\ Answered(x)' /\ job'[Cpu(w)].target = job'[Cpu(x)].target => w = x
    BY <2>1 DEF SuccessOK
  <2>7. \A v \in Vcpus : granted'[v] # <<>> =>
           online'[v] /\ v # BootVcpu /\ Len(granted'[v]) = 1 /\ granted'[v][1] = elr'[v]
    BY <1>1 DEF SuccessOK
  <2> QED BY <2>3, <2>4, <2>5, <2>6, <2>7 DEF SuccessOK, G
<1>2. ASSUME NEW a \in Agents, WakeupLocal(a) PROVE G
  <2> DEFINE t == job[a].target
  <2>1. /\ t \in Vcpus
        /\ \A b \in Agents : b # a => job'[b] = job[b]
        /\ job'[a].target = t /\ job'[a].ep = job[a].ep
        /\ UNCHANGED <<ack, granted>>
        /\ \A v \in Vcpus : v # t => online'[v] = online[v] /\ elr'[v] = elr[v]
        /\ job[a].pc # "reply"
        /\ \/ ~Won(a)' /\ online' = online /\ (elr' = elr \/ job[a].pc = "entry")
           \/ /\ job[a].pc = "online" /\ job'[a].pc = "unlock" /\ job'[a].ret = "SUCCESS"
              /\ elr' = elr /\ online'[t]
    BY <1>2, WakeupAt DEF Won
  <2>2. CASE ~Won(a)' /\ online' = online /\ (elr' = elr \/ job[a].pc = "entry")
    <3>1. \A v \in Vcpus : online[v] => online'[v] /\ elr'[v] = elr[v]
      BY <2>1, <2>2 DEF OnlineOK
    <3> QED BY <1>1, <2>1, <2>2, <3>1
  <2>3. CASE /\ job[a].pc = "online" /\ job'[a].pc = "unlock" /\ job'[a].ret = "SUCCESS"
             /\ elr' = elr /\ online'[t]
    <3>1. ~online[t] /\ elr[t] = job[a].ep /\ t # BootVcpu
      BY <2>1, <2>3 DEF OnlineOK
    <3>2. /\ granted[t] = <<>>
          /\ \A b \in Agents : Won(b) => job[b].target # t
          /\ \A w \in Vcpus : Answered(w) => job[Cpu(w)].target # t
      BY <1>0, <2>1, <3>1 DEF SuccessOK, Promised
    <3>3. \A w \in Vcpus : Answered(w)' => Answered(w) /\ job'[Cpu(w)] = job[Cpu(w)]
      BY <1>0, <2>1, Places DEF Answered
    <3>4. \A b \in Agents : Won(b)' => b = a \/ (Won(b) /\ job'[b] = job[b])
      BY <2>1 DEF Won
    <3>5. Promised(t, job[a].ep)' /\ job'[a].target = t /\ job'[a].ep = job[a].ep
      BY <2>1, <2>3, <3>1, <3>2 DEF Promised
    <3>6. \A b \in Agents : Won(b)' => Promised(job[b].target, job[b].ep)'
      BY <1>0, <2>1, <2>3, <3>2, <3>4, <3>5 DEF SuccessOK, Promised
    <3>7. \A w \in Vcpus : Answered(w)' => Promised(job[Cpu(w)].target, job[Cpu(w)].ep)'
      BY <1>0, <2>1, <2>3, <3>2, <3>3 DEF SuccessOK, Promised
    <3>8. \A b \in Agents, w \in Vcpus : Won(b)' /\ Answered(w)' => job'[b].target # job'[Cpu(w)].target
      BY <2>1, <3>2, <3>3, <3>4 DEF SuccessOK
    <3>9. \A w, x \in Vcpus : Answered(w)' /\ Answered(x)' /\ job'[Cpu(w)].target = job'[Cpu(x)].target => w = x
      BY <3>3 DEF SuccessOK
    <3>10. \A v \in Vcpus : granted'[v] # <<>> =>
             online'[v] /\ v # BootVcpu /\ Len(granted'[v]) = 1 /\ granted'[v][1] = elr'[v]
      BY <2>1, <2>3, <3>2 DEF SuccessOK
    <3> QED BY <3>6, <3>7, <3>8, <3>9, <3>10 DEF SuccessOK, G
  <2> QED BY <2>1, <2>2, <2>3
<1>3. ASSUME NEW v \in Vcpus, Call(v) PROVE G
  <2>1. /\ \A b \in Agents : b # Cpu(v) => job'[b] = job[b]
        /\ job'[Cpu(v)].pc \in {"lock", "reply"} /\ job[Cpu(v)].pc = "idle"
        /\ UNCHANGED <<online, elr, ack, granted>>
    BY <1>3, CallAt
  <2> QED BY <1>1, <2>1, Places DEF Won
<1>4. ASSUME NEW v \in Vcpus, UnlockLocal(v) \/ recv_wakeup_reply(v) PROVE G
  <2> DEFINE t == job[Cpu(v)].target
  <2>1. /\ t \in Vcpus /\ Cpu(v) \in Agents
        /\ \A b \in Agents : b # Cpu(v) => job'[b] = job[b]
        /\ job'[Cpu(v)].pc = "idle"
        /\ UNCHANGED <<online, elr>>
        /\ \A w \in Vcpus : w # t => granted'[w] = granted[w]
        /\ \/ /\ job[Cpu(v)].pc = "unlock" /\ ack' = ack
              /\ granted'[t] = IF Won(Cpu(v)) THEN Append(granted[t], job[Cpu(v)].ep)
                               ELSE granted[t]
           \/ /\ job[Cpu(v)].pc = "reply"
              /\ ack'[v] = None /\ \A w \in Vcpus : w # v => ack'[w] = ack[w]
              /\ granted'[t] = IF Answered(v) THEN Append(granted[t], job[Cpu(v)].ep)
                               ELSE granted[t]
    BY <1>4, ReturnAt, Places
  <2>2. \A b \in Agents : Won(b)' => b # Cpu(v) /\ Won(b) /\ job'[b] = job[b]
    BY <2>1 DEF Won
  <2>3. \A w \in Vcpus : Answered(w)' => w # v /\ Answered(w) /\ job'[Cpu(w)] = job[Cpu(w)]
    BY <1>0, <2>1, Places DEF Answered, None
  <2>4. CASE granted'[t] = granted[t]
    <3>1. \A w \in Vcpus : granted'[w] = granted[w]
      BY <2>1, <2>4
    <3>2. \A b \in Agents : Won(b)' => Promised(job[b].target, job[b].ep)'
      BY <1>0, <2>1, <2>2, <3>1 DEF SuccessOK, Promised
    <3>3. \A w \in Vcpus : Answered(w)' => Promised(job[Cpu(w)].target, job[Cpu(w)].ep)'
      BY <1>0, <2>1, <2>3, <3>1 DEF SuccessOK, Promised
    <3>4. \A b \in Agents, w \in Vcpus : Won(b)' /\ Answered(w)' => job'[b].target # job'[Cpu(w)].target
      BY <2>2, <2>3 DEF SuccessOK
    <3>5. \A w, x \in Vcpus : Answered(w)' /\ Answered(x)' /\ job'[Cpu(w)].target = job'[Cpu(x)].target => w = x
      BY <2>3 DEF SuccessOK
    <3>6. \A x \in Vcpus : granted'[x] # <<>> =>
             online'[x] /\ x # BootVcpu /\ Len(granted'[x]) = 1 /\ granted'[x][1] = elr'[x]
      BY <2>1, <3>1 DEF SuccessOK
    <3> QED BY <3>2, <3>3, <3>4, <3>5, <3>6 DEF SuccessOK, G
  <2>5. CASE granted'[t] # granted[t]
    <3>1. /\ granted'[t] = Append(granted[t], job[Cpu(v)].ep)
          /\ Won(Cpu(v)) \/ (Answered(v) /\ job[Cpu(v)].pc = "reply")
      BY <2>1, <2>5
    <3>2. Promised(t, job[Cpu(v)].ep)
      BY <2>1, <3>1 DEF SuccessOK
    <3>3. /\ \A b \in Agents : Won(b)' => job[b].target # t
          /\ \A w \in Vcpus : Answered(w)' => job[Cpu(w)].target # t
      <4>1. CASE Won(Cpu(v))
        BY <1>0, <2>1, <2>2, <2>3, <4>1 DEF SuccessOK, LockOK
      <4>2. CASE Answered(v) /\ job[Cpu(v)].pc = "reply"
        BY <2>1, <2>2, <2>3, <4>2 DEF SuccessOK
      <4> QED BY <3>1, <4>1, <4>2
    <3>4. \A b \in Agents : Won(b)' => Promised(job[b].target, job[b].ep)'
      BY <1>0, <2>1, <2>2, <3>3 DEF SuccessOK, Promised
    <3>5. \A w \in Vcpus : Answered(w)' => Promised(job[Cpu(w)].target, job[Cpu(w)].ep)'
      BY <1>0, <2>1, <2>3, <3>3 DEF SuccessOK, Promised
    <3>6. \A b \in Agents, w \in Vcpus : Won(b)' /\ Answered(w)' => job'[b].target # job'[Cpu(w)].target
      BY <2>2, <2>3 DEF SuccessOK
    <3>7. \A w, x \in Vcpus : Answered(w)' /\ Answered(x)' /\ job'[Cpu(w)].target = job'[Cpu(x)].target => w = x
      BY <2>3 DEF SuccessOK
    <3>8. Len(granted'[t]) = 1 /\ granted'[t][1] = elr[t]
      <4>1. granted'[t] = <<job[Cpu(v)].ep>>
        BY <3>1, <3>2 DEF Promised
      <4> QED BY <3>2, <4>1 DEF Promised
    <3>9. \A x \in Vcpus : granted'[x] # <<>> =>
             online'[x] /\ x # BootVcpu /\ Len(granted'[x]) = 1 /\ granted'[x][1] = elr'[x]
      BY <2>1, <3>2, <3>8 DEF SuccessOK, Promised
    <3> QED BY <3>4, <3>5, <3>6, <3>7, <3>9 DEF SuccessOK, G
  <2> QED BY <2>4, <2>5
<1>5. ASSUME NEW n \in Nodes, UnlockRemote(n) PROVE G
  <2> DEFINE r == Rx(n) x == job[r].from t == job[r].target
  <2>1. /\ t \in Vcpus /\ x \in Vcpus /\ job[r].pc = "unlock" /\ r \in Agents
        /\ \A b \in Agents : b # r => job'[b] = job[b]
        /\ job'[r].pc = "idle"
        /\ ack'[x] = job[r].ret /\ \A y \in Vcpus : y # x => ack'[y] = ack[y]
        /\ UNCHANGED <<online, elr, granted>>
    BY <1>5, ReplyAt, Places
  <2>2. job[Cpu(x)].target = t /\ job[Cpu(x)].ep = job[r].ep
    BY <2>1 DEF CallsOK, HandlersOK, Awaits
  <2>3. \A w \in Vcpus : job'[Cpu(w)] = job[Cpu(w)]
    BY <2>1, Places
  <2>4. \A b \in Agents : Won(b)' => b # r /\ Won(b) /\ job'[b] = job[b]
    BY <2>1 DEF Won
  <2>5. \A w \in Vcpus : Answered(w)' => IF w = x THEN Won(r) ELSE Answered(w)
    BY <2>1 DEF Answered, Won
  <2>6. \A b \in Agents : Won(b)' => Promised(job[b].target, job[b].ep)'
    BY <1>0, <2>1, <2>4 DEF SuccessOK, Promised
  <2>7. \A w \in Vcpus : Answered(w)' => Promised(job[Cpu(w)].target, job[Cpu(w)].ep)
    BY <2>1, <2>2, <2>5 DEF SuccessOK
  <2>8. \A w \in Vcpus : Answered(w)' => Promised(job[Cpu(w)].target, job[Cpu(w)].ep)'
    BY <2>1, <2>3, <2>7 DEF Promised
  <2>9. \A b \in Agents, w \in Vcpus : Won(b)' /\ Answered(w)' => job'[b].target # job'[Cpu(w)].target
    <3> SUFFICES ASSUME NEW b \in Agents, NEW w \in Vcpus, Won(b)', Answered(w)'
                 PROVE  job[b].target # job[Cpu(w)].target
      BY <2>3, <2>4
    <3>1. CASE w = x
      BY <1>0, <2>1, <2>2, <2>4, <2>5, <3>1 DEF LockOK
    <3>2. CASE w # x
      BY <2>4, <2>5, <3>2 DEF SuccessOK
    <3> QED BY <3>1, <3>2
  <2>10. \A w, y \in Vcpus : Answered(w)' /\ Answered(y)' /\ job'[Cpu(w)].target = job'[Cpu(y)].target => w = y
    <3>1. ASSUME NEW w \in Vcpus, w # x, Answered(w)', Won(r) PROVE job[Cpu(w)].target # t
      BY <2>1, <2>5, <3>1 DEF SuccessOK
    <3> SUFFICES ASSUME NEW w \in Vcpus, NEW y \in Vcpus, Answered(w)', Answered(y)',
                        job[Cpu(w)].target = job[Cpu(y)].target
                 PROVE  w = y
      BY <2>3
    <3>2. CASE w = x \/ y = x
      BY <2>2, <2>5, <3>1, <3>2
    <3>3. CASE w # x /\ y # x
      BY <2>5, <3>3 DEF SuccessOK
    <3> QED BY <3>2, <3>3
  <2>11. \A v \in Vcpus : granted'[v] # <<>> =>
             online'[v] /\ v # BootVcpu /\ Len(granted'[v]) = 1 /\ granted'[v][1] = elr'[v]
      BY <2>1 DEF SuccessOK
  <2> QED BY <2>6, <2>8, <2>9, <2>10, <2>11 DEF SuccessOK, G
<1>6. ASSUME NEW m \in Nodes, NEW n \in Nodes, recv_boot_sig(m, n) \/ cpu_wakeup_recv(m, n)
      PROVE  G
  <2>1. /\ \A b \in Agents : b # Rx(n) => job'[b] = job[b]
        /\ job' = job \/ job'[Rx(n)].pc = "lock"
        /\ job[Rx(n)].pc = "idle"
        /\ UNCHANGED <<online, elr, ack, granted>>
    BY <1>6, FrameAt
  <2> QED BY <1>1, <2>1, Places DEF Won
<1>7. ASSUME UNCHANGED <<online, elr, ack, granted, job>> PROVE G
  BY <1>1, <1>7, Places
<1>8. G
  BY <1>2, <1>3, <1>4, <1>5, <1>6, <1>7, Steps, CoreAt DEF vars
<1> QED BY <1>8 DEF G

\* A node without its boot signal starts no vCPU: Node 0 sends the signal ahead
\* of its wake-ups, and there is no other sender.
LEMMA ClockStep ==
  ASSUME OneSubNode, Shapes, TargetsOK, CallsOK, OnlineOK, ClockOK, [Next]_vars
  PROVE  ClockOK'
<1> DEFINE G == ClockOK'
<1> HIDE DEF G
\* steps at another place than a node that waits for its boot signal
<1>1. ASSUME NEW a \in Agents, \A b \in Agents : b # a => job'[b] = job[b],
             job'[a].pc = "idle" \/ \A n \in Nodes : ~bootclk[n] =>
                a # Rx(n) /\ \A v \in Vcpus : a = Cpu(v) => NodeOf[v] # n,
             \A n \in Nodes : ~bootclk[n] => \A v \in Vcpus : NodeOf[v] = n => ~online'[v],
             \A n \in Nodes : ~bootclk[n] =>
                1 \in 1..Len(net'[Node0][n]) /\ net'[Node0][n][1] = net[Node0][n][1],
             bootclk' = bootclk, entered' = entered
      PROVE  G
  BY <1>1, Places DEF ClockOK, G
<1>2. ASSUME NEW a \in Agents, WakeupLocal(a) PROVE G
  <2> DEFINE t == job[a].target
  <2>1. /\ t \in Vcpus /\ job[a].pc # "idle" /\ job[a].pc # "reply"
        /\ \A b \in Agents : b # a => job'[b] = job[b]
        /\ \A v \in Vcpus : v # t => online'[v] = online[v]
        /\ UNCHANGED <<net, bootclk, entered>>
    BY <1>2, WakeupAt
  <2>2. \A n \in Nodes : ~bootclk[n] => a # Rx(n) /\ \A v \in Vcpus : a = Cpu(v) => NodeOf[v] # n
    BY <2>1 DEF ClockOK
  <2>3. \A n \in Nodes : ~bootclk[n] => NodeOf[t] # n
    BY <2>1, <2>2, Places DEF TargetsOK
  <2>4. \A n \in Nodes : ~bootclk[n] => \A v \in Vcpus : NodeOf[v] = n => ~online'[v]
    BY <2>1, <2>3 DEF ClockOK
  <2> QED BY <1>1, <2>1, <2>2, <2>4 DEF ClockOK
<1>3. ASSUME NEW v \in Vcpus, Call(v) PROVE G
  <2>1. PICK t \in Vcpus, f \in Frames :
           /\ core[v] = "guest"
           /\ \A b \in Agents : b # Cpu(v) => job'[b] = job[b]
           /\ UNCHANGED <<online, bootclk, entered>>
           /\ net' = net \/ Sends(NodeOf[v], NodeOf[t], f)
    BY <1>3, CallAt
  <2>2. online[v]
    BY <2>1 DEF OnlineOK
  <2>3. \A n \in Nodes : ~bootclk[n] =>
           Cpu(v) # Rx(n) /\ \A w \in Vcpus : Cpu(v) = Cpu(w) => NodeOf[w] # n
    BY <2>2, Places DEF ClockOK
  <2>4. \A n \in Nodes : ~bootclk[n] => 1 \in 1..Len(net'[Node0][n]) /\ net'[Node0][n][1] = net[Node0][n][1]
    <3>1. CASE net' = net
      BY <3>1 DEF ClockOK
    <3>2. CASE Sends(NodeOf[v], NodeOf[t], f)
      <4> DEFINE M == NodeOf[v] N == NodeOf[t]
      <4>1. /\ \A m, n \in Nodes : m # M \/ n # N => net'[m][n] = net[m][n]
            /\ Len(net[M][N]) \in Nat /\ Len(net'[M][N]) = Len(net[M][N]) + 1
            /\ \A i \in 1..Len(net[M][N]) : net'[M][N][i] = net[M][N][i]
        <5>1. M \in Nodes /\ N \in Nodes /\ Sends(M, N, f)
          BY <3>2, Places
        <5> HIDE DEF M, N
        <5> QED BY <5>1, SentAt
      <4> HIDE DEF M, N
      <4> SUFFICES ASSUME NEW n \in Nodes, ~bootclk[n]
                   PROVE  1 \in 1..Len(net'[Node0][n]) /\ net'[Node0][n][1] = net[Node0][n][1]
        OBVIOUS
      <4>2. 1 \in 1..Len(net[Node0][n])
        BY DEF ClockOK
      <4>3. CASE Node0 = M /\ n = N
        BY <4>1, <4>2, <4>3
      <4>4. CASE ~(Node0 = M /\ n = N)
        BY <4>1, <4>2, <4>4, Places
      <4> QED BY <4>3, <4>4
    <3> QED BY <2>1, <3>1, <3>2
  <2> QED BY <1>1, <2>1, <2>3, <2>4, Places DEF ClockOK
<1>4. ASSUME NEW v \in Vcpus, UnlockLocal(v) \/ recv_wakeup_reply(v) PROVE G
  <2>1. /\ \A b \in Agents : b # Cpu(v) => job'[b] = job[b]
        /\ job'[Cpu(v)].pc = "idle"
        /\ UNCHANGED <<online, net, bootclk, entered>>
    BY <1>4, ReturnAt
  <2> QED BY <1>1, <2>1, Places DEF ClockOK
<1>5. ASSUME NEW n \in Nodes, UnlockRemote(n) PROVE G
  <2>1. /\ \A b \in Agents : b # Rx(n) => job'[b] = job[b]
        /\ job'[Rx(n)].pc = "idle"
        /\ UNCHANGED <<online, net, bootclk, entered>>
    BY <1>5, ReplyAt
  <2> QED BY <1>1, <2>1, Places DEF ClockOK
<1>6. ASSUME NEW M \in Nodes, NEW N \in Nodes, recv_boot_sig(M, N) \/ cpu_wakeup_recv(M, N)
      PROVE  G
  <2> DEFINE f == net[M][N][1]
  <2>1. /\ net[M][N] # <<>> /\ Takes(M, N) /\ 1 \in 1..Len(net[M][N])
        /\ \A b \in Agents : b # Rx(N) => job'[b] = job[b]
        /\ UNCHANGED <<online, entered>>
        /\ \/ /\ job' = job
              /\ bootclk'[N] /\ \A k \in Nodes : k # N => bootclk'[k] = bootclk[k]
           \/ IsWakeup(M, N, 1) /\ bootclk' = bootclk
    BY <1>6, FrameAt
  <2>2. \A m, n \in Nodes : m # M \/ n # N => net'[m][n] = net[m][n]
    BY <2>1, TakenAt
  <2>3. IsWakeup(M, N, 1) => bootclk[N]
    <3> SUFFICES ASSUME IsWakeup(M, N, 1), ~bootclk[N] PROVE FALSE
      OBVIOUS
    <3>1. FrameOK(M, N, 1)
      BY <2>1 DEF CallsOK, FramesOK
    <3>2. /\ f.from \in Vcpus /\ job[Cpu(f.from)].pc = "reply"
          /\ job[Cpu(f.from)].target = f.vcpuid
          /\ NodeOf[f.from] = M /\ NodeOf[f.vcpuid] = N
      BY <3>1 DEF FrameOK, Awaits
    <3>3. M # N
      BY <3>2 DEF TargetsOK
    <3>4. N # Node0 /\ net[Node0][N][1].type = "BOOT_SIG"
      BY DEF ClockOK
    <3>5. M = Node0
      BY <3>3, <3>4 DEF OneSubNode
    <3> QED BY <3>4, <3>5 DEF IsWakeup
  <2>4. \A n \in Nodes : ~bootclk'[n] => n # N /\ ~bootclk[n]
    BY <2>1, <2>3
  <2>5. \A n \in Nodes : ~bootclk'[n] => job'[Rx(n)] = job[Rx(n)] /\ net'[Node0][n] = net[Node0][n]
    BY <2>1, <2>2, <2>4, Places
  <2>6. \A v \in Vcpus : job'[Cpu(v)] = job[Cpu(v)]
    BY <2>1, Places
  <2> QED BY <2>1, <2>4, <2>5, <2>6 DEF ClockOK, G
<1>7. ASSUME NEW v \in Vcpus, CoreStep(v) \/ OtherIrq(v) PROVE G
  <2>1. /\ UNCHANGED <<online, job, net, bootclk>>
        /\ \A w \in Vcpus : w # v => entered'[w] = entered[w]
        /\ \/ entered' = entered
           \/ core[v] = "enter" /\ entered'[v].clk = bootclk[NodeOf[v]]
    BY <1>7, CoreAt
  <2>2. core[v] = "enter" => bootclk[NodeOf[v]]
    BY Places DEF OnlineOK, ClockOK
  <2> QED BY <2>1, <2>2 DEF ClockOK, G
<1>8. ASSUME UNCHANGED vars PROVE G
  BY <1>8 DEF vars, ClockOK, G
<1>9. G
  BY <1>2, <1>3, <1>4, <1>5, <1>6, <1>7, <1>8, Steps
<1> QED BY <1>9 DEF G

\* The invariant holds when vCPU 0 has been entered.
LEMMA EntryInit ==
  ASSUME Init
  PROVE  EntryInv /\ ClockOK
<1>1. /\ \A a \in Agents : job[a] = NoJob /\ job[a].pc = "idle"
      /\ \A v \in Vcpus : ack[v] = None /\ granted[v] = <<>>
      /\ \A v \in Vcpus : online[v] <=> v = BootVcpu
  BY DEF Init, NoJob
<1>2. \A m, n \in Nodes : net[m][n] = IF m = Node0 /\ n # m THEN <<[type |-> "BOOT_SIG"]>> ELSE <<>>
  BY DEF Init, Node0
<1>3. \A m, n \in Nodes : /\ net[m][n] \in Seq(Frames)
                          /\ \A i \in 1..Len(net[m][n]) : net[m][n][i].type = "BOOT_SIG"
  <2>1. [type |-> "BOOT_SIG"] \in Frames /\ [type |-> "BOOT_SIG"].type = "BOOT_SIG"
    BY DEF Frames
  <2>2. /\ <<[type |-> "BOOT_SIG"]>> \in Seq(Frames) /\ Len(<<[type |-> "BOOT_SIG"]>>) = 1
        /\ <<[type |-> "BOOT_SIG"]>>[1] = [type |-> "BOOT_SIG"]
    BY <2>1
  <2>3. <<>> \in Seq(Frames) /\ Len(<<>>) = 0
    OBVIOUS
  <2> SUFFICES ASSUME NEW m \in Nodes, NEW n \in Nodes
               PROVE  /\ net[m][n] \in Seq(Frames)
                      /\ \A i \in 1..Len(net[m][n]) : net[m][n][i].type = "BOOT_SIG"
    OBVIOUS
  <2>4. CASE net[m][n] = <<>>
    BY <2>3, <2>4
  <2>5. CASE net[m][n] = <<[type |-> "BOOT_SIG"]>>
    <3>1. Len(net[m][n]) = 1 /\ net[m][n][1].type = "BOOT_SIG"
      BY <2>1, <2>2, <2>5
    <3> QED BY <2>2, <2>5, <3>1
  <2> QED BY <1>2, <2>4, <2>5
<1>4. Shapes
  <2>1. net \in [Nodes -> [Nodes -> Seq(Frames)]]
    BY <1>3 DEF Init
  <2>2. core \in [Vcpus -> Cores]
    BY DEF Init, Cores
  <2>3. entered \in [Vcpus -> [ep : Eps, clk : BOOLEAN]]
    BY Marks DEF Init
  <2>4. job \in [Agents -> Jobs] /\ elr \in [Vcpus -> Eps]
    BY Marks DEF Init
  <2>5. /\ online \in [Vcpus -> BOOLEAN] /\ lock \in [Vcpus -> BOOLEAN]
        /\ ack \in [Vcpus -> Statuses \cup {None}] /\ granted \in [Vcpus -> Seq(Eps)]
        /\ bootclk \in [Nodes -> BOOLEAN]
    BY DEF Init
  <2> QED BY <2>1, <2>2, <2>3, <2>4, <2>5 DEF Shapes
<1>5. TargetsOK /\ LockOK
  BY <1>1, Places DEF TargetsOK, LockOK, InLock
<1>6. OnlineOK
  <2>1. \A v \in Vcpus : core[v] \in {"enter", "guest"} => v = BootVcpu
    BY DEF Init
  <2>2. \A v \in Vcpus : core[v] # "guest" => entered[v] = NotEntered
    BY DEF Init
  <2>3. \A v \in Vcpus : core[v] = "guest" => entered[v].ep = elr[v]
    BY <2>1 DEF Init
  <2> QED BY <1>1, <2>1, <2>2, <2>3, Places DEF OnlineOK
<1>7. CallsOK
  <2>1. \A m, n \in Nodes : \A i : ~IsWakeup(m, n, i)
    BY <1>3 DEF IsWakeup
  <2> QED BY <1>1, <2>1, Places DEF CallsOK, FramesOK, HandlersOK, AcksOK
<1>8. SuccessOK
  BY <1>1, Places DEF SuccessOK, Won, Answered, None
<1>9. ClockOK
  <2>1. \A n \in Nodes : bootclk[n] <=> n = Node0
    BY DEF Init, Node0
  <2>2. \A n \in Nodes : n # Node0 => 1 \in 1..Len(net[Node0][n]) /\ net[Node0][n][1].type = "BOOT_SIG"
    <3>1. Len(<<[type |-> "BOOT_SIG"]>>) = 1 /\ 1 \in 1..1
      OBVIOUS
    <3>2. \A n \in Nodes : n # Node0 => 1 \in 1..Len(net[Node0][n])
      BY <1>2, <3>1, Places
    <3> QED BY <1>3, <3>2, Places
  <2>3. \A v \in Vcpus : NodeOf[v] # Node0 => v # BootVcpu
    BY DEF Node0
  <2>4. \A v \in Vcpus : entered[v] # NotEntered => entered[v].clk
    BY DEF Init
  <2> QED BY <1>1, <2>1, <2>2, <2>3, <2>4, Places DEF ClockOK
<1> QED BY <1>4, <1>5, <1>6, <1>7, <1>8, <1>9 DEF EntryInv

\* The conjuncts of the inductive invariant together.
LEMMA EntryStep ==
  ASSUME EntryInv, [Next]_vars
  PROVE  EntryInv'
BY ShapesStep, TargetsStep, LockStep, OnlineStep, CallsStep, SuccessStep DEF EntryInv

\* The inductive invariant of CPU_ON holds in every reachable state.
THEOREM EntryInvHolds == Spec => []EntryInv
<1>1. Init => EntryInv
  BY EntryInit
<1>2. EntryInv /\ [Next]_vars => EntryInv'
  BY EntryStep
<1> QED BY <1>1, <1>2, PTL DEF Spec

\* the part of EntersWhereAsked that needs no hypothesis on the cluster
EntersOnce ==
  \A v \in Vcpus :
    /\ Len(granted[v]) <= 1
    /\ granted[v] # <<>> /\ entered[v] # NotEntered => entered[v].ep = granted[v][1]
    /\ granted[v] # <<>> => v # BootVcpu

\* The inductive invariant says where a vCPU enters.
LEMMA EntryMeans == ASSUME EntryInv PROVE EntersOnce
<1> SUFFICES ASSUME NEW v \in Vcpus
             PROVE  /\ Len(granted[v]) <= 1
                    /\ granted[v] # <<>> /\ entered[v] # NotEntered => entered[v].ep = granted[v][1]
                    /\ granted[v] # <<>> => v # BootVcpu
  BY DEF EntersOnce
<1>1. CASE granted[v] = <<>>
  <2>1. Len(<<>>) = 0
    OBVIOUS
  <2> QED BY <1>1, <2>1
<1>2. CASE granted[v] # <<>>
  <2>1. /\ v # BootVcpu /\ Len(granted[v]) = 1 /\ granted[v][1] = elr[v]
    BY <1>2 DEF EntryInv, SuccessOK
  <2>2. entered[v] # NotEntered => entered[v].ep = elr[v]
    BY DEF EntryInv, OnlineOK
  <2>3. Len(granted[v]) <= 1
    BY <2>1
  <2> QED BY <2>1, <2>2, <2>3
<1> QED BY <1>1, <1>2

\* Of all the CPU_ONs for a vCPU at most one is told SUCCESS, never one for
\* the boot vCPU, and the vCPU enters at its entry point, for any cluster
\* (vpsci_vcpu_wakeup_local, cpu_wakeup_recv_intr).
THEOREM EntersOnceHolds == Spec => []EntersOnce
<1>1. EntryInv => EntersOnce
  BY EntryMeans
<1> QED BY <1>1, EntryInvHolds, PTL

\* With one sub-node the vCPU also enters with the boot clock of its node set
\* (recv_boot_sig_intr against cpu_wakeup_recv_intr).
THEOREM EntersWhereAskedHolds ==
  ASSUME OneSubNode
  PROVE  Spec => []EntersWhereAsked
<1>1. Init => ClockOK
  BY EntryInit
<1>2. EntryInv /\ ClockOK /\ [Next]_vars => ClockOK'
  BY ClockStep DEF EntryInv
<1>3. EntersOnce /\ ClockOK => EntersWhereAsked
  BY DEF EntersOnce, ClockOK, EntersWhereAsked
<1> QED BY <1>1, <1>2, <1>3, EntryInvHolds, EntersOnceHolds, PTL DEF Spec

\* vcpu->reg.elr = ep never hits a vCPU that runs the guest.
THEOREM RunningUntouchedHolds == Spec => RunningUntouched
<1>1. EntryInv /\ [Next]_vars => [\A v \in Vcpus : Running(v) => elr'[v] = elr[v]]_vars
  <2> SUFFICES ASSUME EntryInv, [Next]_vars, NEW v \in Vcpus, Running(v)
      PROVE elr'[v] = elr[v]
    OBVIOUS
  <2>0. online[v] /\ Shapes /\ TargetsOK /\ CallsOK
    BY DEF EntryInv, OnlineOK, Running
  <2>1. ASSUME NEW a \in Agents, WakeupLocal(a) PROVE elr'[v] = elr[v]
    <3>1. /\ \A w \in Vcpus : w # job[a].target => elr'[w] = elr[w]
          /\ elr' = elr \/ job[a].pc = "entry"
      BY <2>0, <2>1, WakeupAt
    <3> QED BY <2>0, <3>1 DEF EntryInv, OnlineOK
  <2>2. ASSUME elr' = elr PROVE elr'[v] = elr[v]
    BY <2>2
  <2> QED BY <2>0, <2>1, <2>2, Steps, CallAt, ReturnAt, ReplyAt, FrameAt, CoreAt DEF vars
<1> QED BY <1>1, EntryInvHolds, PTL DEF Spec, RunningUntouched
=============================================================================

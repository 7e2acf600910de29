------------------------------- MODULE CpuOn -------------------------------
(***************************************************************************)
(* Starting vCPUs: PSCI CPU_ON as core/vpsci.c emulates it, from the       *)
(* moment Node 0's vCPU 0 has been entered (module Cluster ends there).    *)
(*                                                                         *)
(* Each vCPU is bound to the physical cpu of the same index.  A CPU_ON for *)
(* a vCPU of the caller's node runs vpsci_vcpu_wakeup_local on the calling *)
(* cpu; one for another node is sent as MSG_CPU_WAKEUP, executed by that   *)
(* node's network interrupt on its cpu 0 and acknowledged.  A physical cpu *)
(* that is off is booted by firmware while the caller goes on; it waits    *)
(* for vcpu->online with `while(!current->online) wfi();` and then enters  *)
(* the guest.  BOOT_SIG, broadcast by Node 0 just before vCPU 0 enters,    *)
(* travels in the same frames as the wake-ups.                             *)
(***************************************************************************)
EXTENDS Integers, Sequences, FiniteSets

CONSTANTS
  Vcpus,       \* vCPU ids
  NodeOf,      \* the node of each vCPU
  BootVcpu,    \* vCPU 0, on node 0
  FirstVcpus,  \* the vCPUs whose physical cpu is cpu 0 of its node
  Entries,     \* Entries[v]: the entry points the guest passes on vCPU v
  MaxCalls,    \* MaxCalls[v]: how often the guest calls CPU_ON on vCPU v
  BootFails    \* TRUE: the firmware may refuse to boot a cpu

Nodes == {NodeOf[v] : v \in Vcpus}

ASSUME CpuOnAssumption ==
  /\ BootVcpu \in FirstVcpus /\ FirstVcpus \subseteq Vcpus
  /\ \A n \in Nodes : \E v \in FirstVcpus : NodeOf[v] = n
  /\ \A v, w \in FirstVcpus : NodeOf[v] = NodeOf[w] => v = w
  /\ MaxCalls \in [Vcpus -> Nat]
  /\ BootFails \in BOOLEAN

None == "none"

\* Everything that can run vpsci_vcpu_wakeup_local: a calling vCPU, or the
\* message handler of a node.
Cpu(v) == <<"cpu", v>>
Rx(n) == <<"rx", n>>
Agents == {Cpu(v) : v \in Vcpus} \cup {Rx(n) : n \in Nodes}

VARIABLES
  core,     \* core[v]: what the physical cpu of v is doing
  wakeup,   \* wakeup[v]: vcpu->pcpu->wakeup
  online,   \* vcpu->online
  elr,      \* vcpu->reg.elr, where the vCPU will enter the guest
  lock,     \* vcpu->lock is held
  job,      \* job[a]: the CPU_ON the agent is executing
  net,      \* net[m][n]: frames from node m to node n, in order
  ack,      \* ack[v]: the MSG_CPU_WAKEUP_ACK on its way to caller v
  bootclk,  \* localnode.bootclk is set
  calls,    \* calls[v]: CPU_ONs left to make
  granted,  \* history: the entry points of the calls for v told SUCCESS
  entered   \* entered[v]: where the vCPU entered, and if the clock was set

vars == <<core, wakeup, online, elr, lock, job, net, ack, bootclk, calls,
          granted, entered>>

NoJob == [pc |-> "idle", target |-> None, ep |-> None, from |-> None,
          ret |-> None]

NotEntered == [ep |-> None, clk |-> FALSE]

Running(v) == core[v] = "guest"

Init ==
  /\ core = [v \in Vcpus |-> IF v = BootVcpu THEN "guest"
                             ELSE IF v \in FirstVcpus THEN "init" ELSE "off"]
  /\ wakeup = [v \in Vcpus |-> v \in FirstVcpus]
  /\ online = [v \in Vcpus |-> v = BootVcpu]
  /\ elr = [v \in Vcpus |-> IF v = BootVcpu THEN "kernel" ELSE None]
  /\ lock = [v \in Vcpus |-> FALSE]
  /\ job = [a \in Agents |-> NoJob]
  /\ net = [m \in Nodes |-> [n \in Nodes |->
              IF m = NodeOf[BootVcpu] /\ n # m THEN <<[type |-> "BOOT_SIG"]>>
                                               ELSE <<>>]]
  /\ ack = [v \in Vcpus |-> None]
  /\ bootclk = [n \in Nodes |-> n = NodeOf[BootVcpu]]
  /\ calls = MaxCalls
  /\ granted = [v \in Vcpus |-> <<>>]
  /\ entered = [v \in Vcpus |-> IF v = BootVcpu
                                THEN [ep |-> "kernel", clk |-> TRUE]
                                ELSE NotEntered]

-----------------------------------------------------------------------------
(* The calling vCPU.                                                       *)

\* vpsci_cpu_on with a target in the caller's node.
CpuOnLocal(v, t, ep) ==
  /\ Running(v) /\ job[Cpu(v)].pc = "idle" /\ calls[v] > 0
  /\ NodeOf[t] = NodeOf[v]
  /\ calls' = [calls EXCEPT ![v] = @ - 1]
  /\ job' = [job EXCEPT ![Cpu(v)] = [NoJob EXCEPT !.pc = "lock", !.target = t, !.ep = ep]]
  /\ UNCHANGED <<core, wakeup, online, elr, lock, net, ack, bootclk, granted, entered>>

\* vpsci_remote_cpu_wakeup: the request leaves, the caller polls for the ack.
CpuOnRemote(v, t, ep) ==
  /\ Running(v) /\ job[Cpu(v)].pc = "idle" /\ calls[v] > 0
  /\ NodeOf[t] # NodeOf[v]
  /\ calls' = [calls EXCEPT ![v] = @ - 1]
  /\ job' = [job EXCEPT ![Cpu(v)] = [NoJob EXCEPT !.pc = "reply", !.target = t, !.ep = ep]]
  /\ net' = [net EXCEPT ![NodeOf[v]][NodeOf[t]] =
               Append(@, [type |-> "CPU_WAKEUP", vcpuid |-> t, ep |-> ep, from |-> v])]
  /\ UNCHANGED <<core, wakeup, online, elr, lock, ack, bootclk, granted, entered>>

recv_wakeup_reply(v) ==
  /\ job[Cpu(v)].pc = "reply" /\ ack[v] # None
  /\ job' = [job EXCEPT ![Cpu(v)] = NoJob]
  /\ ack' = [ack EXCEPT ![v] = None]
  /\ granted' = [granted EXCEPT ![job[Cpu(v)].target] =
                   IF ack[v] = "SUCCESS" THEN Append(@, job[Cpu(v)].ep) ELSE @]
  /\ UNCHANGED <<core, wakeup, online, elr, lock, net, bootclk, calls, entered>>

-----------------------------------------------------------------------------
(* The network interrupt of a node, one message at a time.                 *)

(* spin_lock_irqsave keeps the interrupt out while cpu 0 holds the lock of *)
(* a vCPU.  The mutant takes the lock with interrupts enabled.             *)
IrqMaskedNever(n) == FALSE

IrqMasked(n) ==
  \E v \in FirstVcpus : /\ NodeOf[v] = n
                        /\ job[Cpu(v)].pc \in {"check", "entry", "boot", "online", "unlock"}

\* The oldest frame from m is handed to its handler on n.
TakeFrame(m, n, t) ==
  /\ job[Rx(n)].pc = "idle" /\ ~IrqMasked(n)
  /\ net[m][n] # <<>> /\ Head(net[m][n]).type = t
  /\ net' = [net EXCEPT ![m][n] = Tail(@)]

\* An interrupt on cpu 0 of node n ends the wfi of that cpu.
WakeFirst(n) ==
  core' = [v \in Vcpus |->
             IF v \in FirstVcpus /\ NodeOf[v] = n /\ core[v] = "asleep"
             THEN "test" ELSE core[v]]

recv_boot_sig(m, n) ==
  /\ TakeFrame(m, n, "BOOT_SIG")
  /\ bootclk' = [bootclk EXCEPT ![n] = TRUE]
  /\ WakeFirst(n)
  /\ UNCHANGED <<wakeup, online, elr, lock, job, ack, calls, granted, entered>>

cpu_wakeup_recv(m, n) ==
  /\ TakeFrame(m, n, "CPU_WAKEUP")
  /\ LET f == Head(net[m][n])
     IN job' = [job EXCEPT ![Rx(n)] = [pc |-> "lock", target |-> f.vcpuid,
                                       ep |-> f.ep, from |-> f.from, ret |-> None]]
  /\ UNCHANGED <<core, wakeup, online, elr, lock, ack, bootclk, calls, granted, entered>>

-----------------------------------------------------------------------------
(* vpsci_vcpu_wakeup_local, run by agent a with the vcpu lock held from    *)
(* "check" to "unlock".                                                    *)

(* The mutant goes on without waiting for the lock. *)
LockNever(a) ==
  /\ job[a].pc = "lock"
  /\ lock' = [lock EXCEPT ![job[a].target] = TRUE]
  /\ job' = [job EXCEPT ![a].pc = "check"]
  /\ UNCHANGED <<core, wakeup, online, elr, net, ack, bootclk, calls, granted, entered>>

Lock(a) ==
  /\ job[a].pc = "lock" /\ ~lock[job[a].target]
  /\ lock' = [lock EXCEPT ![job[a].target] = TRUE]
  /\ job' = [job EXCEPT ![a].pc = "check"]
  /\ UNCHANGED <<core, wakeup, online, elr, net, ack, bootclk, calls, granted, entered>>

CheckOnline(a) ==
  /\ job[a].pc = "check"
  /\ job' = [job EXCEPT ![a] = IF online[@.target]
                               THEN [@ EXCEPT !.pc = "unlock", !.ret = "ALREADY_ON"]
                               ELSE [@ EXCEPT !.pc = "entry"]]
  /\ UNCHANGED <<core, wakeup, online, elr, lock, net, ack, bootclk, calls, granted, entered>>

(* The mutant returns early when the physical cpu is up already. *)
SetEntryOnly(a) ==
  LET t == job[a].target
  IN /\ job[a].pc = "entry"
     /\ elr' = [elr EXCEPT ![t] = job[a].ep]
     /\ job' = [job EXCEPT ![a].pc = IF wakeup[t] THEN "unlock" ELSE "boot",
                           ![a].ret = IF wakeup[t] THEN "SUCCESS" ELSE @]
     /\ UNCHANGED <<core, wakeup, online, lock, net, ack, bootclk, calls, granted, entered>>

SetEntry(a) ==
  LET t == job[a].target
  IN /\ job[a].pc = "entry"
     /\ elr' = [elr EXCEPT ![t] = job[a].ep]
     /\ job' = [job EXCEPT ![a].pc = IF wakeup[t] THEN "online" ELSE "boot"]
     /\ UNCHANGED <<core, wakeup, online, lock, net, ack, bootclk, calls, granted, entered>>

\* cpu_boot: the firmware powers the cpu on, or refuses.
CpuBoot(a) ==
  LET t == job[a].target
  IN /\ job[a].pc = "boot"
     /\ \/ /\ core[t] = "off"
           /\ core' = [core EXCEPT ![t] = "start"]
           /\ job' = [job EXCEPT ![a].pc = "online"]
        \/ /\ BootFails \/ core[t] # "off"
           /\ job' = [job EXCEPT ![a].pc = "unlock", ![a].ret = "DENIED"]
           /\ UNCHANGED core
     /\ UNCHANGED <<wakeup, online, elr, lock, net, ack, bootclk, calls, granted, entered>>

SetOnline(a) ==
  /\ job[a].pc = "online"
  /\ online' = [online EXCEPT ![job[a].target] = TRUE]
  /\ job' = [job EXCEPT ![a].pc = "unlock", ![a].ret = "SUCCESS"]
  /\ UNCHANGED <<core, wakeup, elr, lock, net, ack, bootclk, calls, granted, entered>>

\* The end of the function in the caller: it returns the status.
UnlockLocal(v) ==
  /\ job[Cpu(v)].pc = "unlock"
  /\ lock' = [lock EXCEPT ![job[Cpu(v)].target] = FALSE]
  /\ granted' = [granted EXCEPT ![job[Cpu(v)].target] =
                   IF job[Cpu(v)].ret = "SUCCESS" THEN Append(@, job[Cpu(v)].ep) ELSE @]
  /\ job' = [job EXCEPT ![Cpu(v)] = NoJob]
  /\ UNCHANGED <<core, wakeup, online, elr, net, ack, bootclk, calls, entered>>

\* The end of it in the handler: msg_reply, and the interrupt returns.
UnlockRemote(n) ==
  LET j == job[Rx(n)]
  IN /\ j.pc = "unlock"
     /\ lock' = [lock EXCEPT ![j.target] = FALSE]
     /\ ack' = [ack EXCEPT ![j.from] = j.ret]
     /\ job' = [job EXCEPT ![Rx(n)] = NoJob]
     /\ WakeFirst(n)
     /\ UNCHANGED <<wakeup, online, elr, net, bootclk, calls, granted, entered>>

-----------------------------------------------------------------------------
(* The physical cpu of v.  While its node's handler runs on it, it stands. *)

Runs(v) == v \notin FirstVcpus \/ job[Rx(NodeOf[v])].pc = "idle"

\* _start .. pcpu_init_core: the cpu announces itself in pcpu->wakeup.
PcpuInit(v) ==
  /\ core[v] = "start"
  /\ wakeup' = [wakeup EXCEPT ![v] = TRUE]
  /\ core' = [core EXCEPT ![v] = "init"]
  /\ UNCHANGED <<online, elr, lock, job, net, ack, bootclk, calls, granted, entered>>

\* localvm_initcore: vcpu_init_core sets the registers but elr.
VcpuInit(v) ==
  /\ core[v] = "init" /\ Runs(v)
  /\ core' = [core EXCEPT ![v] = "test"]
  /\ UNCHANGED <<wakeup, online, elr, lock, job, net, ack, bootclk, calls, granted, entered>>

wait_for_current_vcpu_online(v) ==
  /\ core[v] = "test" /\ Runs(v)
  /\ core' = [core EXCEPT ![v] = IF online[v] THEN "enter" ELSE "about"]
  /\ UNCHANGED <<wakeup, online, elr, lock, job, net, ack, bootclk, calls, granted, entered>>

Wfi(v) ==
  /\ core[v] = "about" /\ Runs(v)
  /\ core' = [core EXCEPT ![v] = "asleep"]
  /\ UNCHANGED <<wakeup, online, elr, lock, job, net, ack, bootclk, calls, granted, entered>>

\* Some other interrupt may end the wfi; nothing makes one happen.
OtherIrq(v) ==
  /\ core[v] = "asleep" /\ Runs(v)
  /\ core' = [core EXCEPT ![v] = "test"]
  /\ UNCHANGED <<wakeup, online, elr, lock, job, net, ack, bootclk, calls, granted, entered>>

vcpu_entry(v) ==
  /\ core[v] = "enter" /\ Runs(v)
  /\ core' = [core EXCEPT ![v] = "guest"]
  /\ entered' = [entered EXCEPT ![v] = [ep |-> elr[v], clk |-> bootclk[NodeOf[v]]]]
  /\ UNCHANGED <<wakeup, online, elr, lock, job, net, ack, bootclk, calls, granted>>

-----------------------------------------------------------------------------
Call(v) == \E t \in Vcpus, ep \in Entries[v] : CpuOnLocal(v, t, ep) \/ CpuOnRemote(v, t, ep)

WakeupLocal(a) == Lock(a) \/ CheckOnline(a) \/ SetEntry(a) \/ CpuBoot(a) \/ SetOnline(a)

CallerStep(v) == Runs(v) /\ (WakeupLocal(Cpu(v)) \/ UnlockLocal(v) \/ recv_wakeup_reply(v))

RxStep(n) ==
  \/ WakeupLocal(Rx(n)) \/ UnlockRemote(n)
  \/ \E m \in Nodes : recv_boot_sig(m, n) \/ cpu_wakeup_recv(m, n)

CoreStep(v) ==
  \/ PcpuInit(v) \/ VcpuInit(v) \/ wait_for_current_vcpu_online(v)
  \/ Wfi(v) \/ vcpu_entry(v)

Next ==
  \/ \E v \in Vcpus : Call(v) \/ CallerStep(v) \/ CoreStep(v) \/ OtherIrq(v)
  \/ \E n \in Nodes : RxStep(n)

Spec == Init /\ [][Next]_vars

(* Cpus make progress and take the messages that arrive.  The guest need   *)
(* not call CPU_ON, and no other interrupt need come.                      *)
FairSpec ==
  /\ Spec
  /\ \A v \in Vcpus : WF_vars(CallerStep(v)) /\ WF_vars(CoreStep(v))
  /\ \A n \in Nodes : WF_vars(RxStep(n))

-----------------------------------------------------------------------------
Statuses == {"SUCCESS", "ALREADY_ON", "DENIED"}

TypeOK ==
  /\ core \in [Vcpus -> {"off", "start", "init", "test", "about", "asleep",
                         "enter", "guest"}]
  /\ wakeup \in [Vcpus -> BOOLEAN] /\ online \in [Vcpus -> BOOLEAN]
  /\ elr \in [Vcpus -> UNION {Entries[v] : v \in Vcpus} \cup {"kernel", None}]
  /\ lock \in [Vcpus -> BOOLEAN]
  /\ \A a \in Agents : job[a].ret \in Statuses \cup {None}
  /\ ack \in [Vcpus -> Statuses \cup {None}]
  /\ \A v \in Vcpus : (core[v] = "guest") = (entered[v] # NotEntered)
  /\ \A v \in Vcpus : online[v] => core[v] # "off" /\ elr[v] # None

(* Of all the CPU_ONs made for a vCPU, from any nodes at once, at most one *)
(* is told SUCCESS, and the vCPU enters the guest exactly at that call's   *)
(* entry point (vpsci_vcpu_wakeup_local against vcpu_init_core), with the  *)
(* node's boot clock in cntvoff_el2, so all vCPUs see one virtual time     *)
(* (recv_boot_sig_intr against cpu_wakeup_recv_intr).                      *)
EntersWhereAsked ==
  \A v \in Vcpus :
    /\ Len(granted[v]) <= 1
    /\ granted[v] # <<>> /\ entered[v] # NotEntered => entered[v].ep = granted[v][1]
    /\ granted[v] # <<>> => v # BootVcpu
    /\ entered[v] # NotEntered => entered[v].clk

(* The saved program counter of a vCPU that runs the guest is never        *)
(* overwritten by a late CPU_ON (vcpu->reg.elr = ep under vcpu->lock).     *)
RunningUntouched == [][\A v \in Vcpus : Running(v) => elr'[v] = elr[v]]_vars

(* Every CPU_ON returns to the guest: neither the vcpu lock nor the wait   *)
(* for the acknowledgement holds a caller for ever.                        *)
CallsReturn == \A v \in Vcpus : job[Cpu(v)].pc # "idle" ~> job[Cpu(v)].pc = "idle"

(* main/node.c: "waiting wakeup signal from vpsci".  A vCPU whose CPU_ON   *)
(* was told SUCCESS is entered.                                            *)
SuccessMeansEntry == \A v \in Vcpus : granted[v] # <<>> ~> Running(v)

\* The cpu of v is in wfi although vcpu->online is set.
Overslept(v) == core[v] = "asleep" /\ online[v]

(* What the caller of CPU_ON set while the booted cpu initialised itself,  *)
(* entry point and online, is not lost: after SUCCESS the vCPU is entered, *)
(* unless online came between its cpu's test and wfi and no interrupt      *)
(* follows (vpsci_vcpu_wakeup_local against vcpu_init_core and             *)
(* wait_for_current_vcpu_online).                                          *)
EntersUnlessOverslept ==
  \A v \in Vcpus : granted[v] # <<>> ~> (Running(v) \/ []Overslept(v))
=============================================================================

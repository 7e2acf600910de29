------------------------------ MODULE Cluster ------------------------------
(***************************************************************************)
(* The node discovery protocol of core/node.c, run once while the machines *)
(* of a cluster start: Node 0 (Main) broadcasts MSG_INIT, the sub-nodes    *)
(* answer MSG_INIT_ACK, Node 0 gives every answer a node id, vCPU ids and  *)
(* a slice of guest memory, broadcasts the table (MSG_CLUSTER_INFO), waits *)
(* for every MSG_SETUP_DONE and finally starts the guest and broadcasts    *)
(* MSG_BOOT_SIG.                                                           *)
(*                                                                         *)
(* Each machine runs one thread here (cpu 0, from vmm_init_cpu0 on) and    *)
(* takes network interrupts on the same cpu.  The thread waits with        *)
(* `while(!condition) wfi();` and interrupts enabled: the test and the     *)
(* wfi are two steps, and an interrupt between them does not wake the wfi. *)
(* A message sent to a machine whose NIC is not initialised yet is lost;   *)
(* otherwise the network delivers the frames of each pair in order.        *)
(***************************************************************************)
EXTENDS Integers, Sequences, FiniteSets

CONSTANTS
  Main,       \* the machine running main/node.c
  Subs,       \* the machines running sub/node.c
  NrNode,     \* NR_NODE: the number of nodes Node 0 waits for
  NVcpu       \* localvm.nvcpu, the same in every image (init.c)

ASSUME ClusterAssumption ==
  /\ Main \notin Subs
  /\ IsFiniteSet(Subs)
  /\ NrNode \in Nat \ {0} /\ NVcpu \in Nat \ {0}

Machines == {Main} \cup Subs

None == -1

VARIABLES
  at,        \* where the thread of each machine is
  doze,      \* inside a wait loop: "test", "about" to wfi, "asleep" in wfi
  down,      \* down[s]: the frames on their way from Main to s
  up,        \* up[s]: the frames on their way from s to Main
  cluster,   \* struct cluster_node cluster[]: entry i + 1 describes node i
  nnodes,    \* nr_cluster_nodes
  nvcpus,    \* nr_cluster_vcpus
  online,    \* node_online_map, as a set of node ids
  active,    \* node_active_map
  me,        \* localnode.nodeid; None until the node is acked
  hdr,       \* the cluster_info_hdr Main is filling in
  ready,     \* vsm_node_init and vcpuid_init have run
  bootclk,   \* localnode.bootclk is set
  missed     \* history: sub-nodes that were not listening to MSG_INIT

vars == <<at, doze, down, up, cluster, nnodes, nvcpus, online, active, me,
          hdr, ready, bootclk, missed>>

tables == <<cluster, nnodes, nvcpus, online, active, me>>

-----------------------------------------------------------------------------
(* The table.  Memory is counted in units of MEM_PER_NODE: localvm_init    *)
(* refuses any other size.                                                 *)

Entry(mac, start, first) ==
  [mac |-> mac, start |-> start, size |-> 1,
   vcpus |-> [i \in 1..NVcpu |-> first + i - 1]]

\* What a frame of type t carries; only the cluster information has data.
Frame(t) == [type |-> t]
InfoFrame == [type |-> "CLUSTER_INFO", nnodes |-> hdr.nnodes,
              nvcpus |-> hdr.nvcpus, table |-> cluster[Main]]

Listening(s) == at[s] \notin {"off", "panic"}

\* send_msg_bcast: every machine with a working NIC receives a copy.
Broadcast(f) ==
  down' = [s \in Subs |-> IF Listening(s) THEN Append(down[s], f) ELSE down[s]]

\* An interrupt handled on m also ends the wfi its thread may be in.
Wake(m) == doze' = [doze EXCEPT ![m] = IF @ = "asleep" THEN "test" ELSE @]

Goto(m, l) == at' = [at EXCEPT ![m] = l]

IrqsOn(m) == at[m] \notin {"off", "nic", "init", "panic"}

(* The first mutant waits for any sub-node, the second for the same map    *)
(* twice.                                                                  *)
any_node_is_online == nnodes[Main] > 1

all_node_is_online == 0..(NrNode - 1) \subseteq online[Main]

still_online == all_node_is_online

all_node_is_active == 0..(nnodes[Main] - 1) \subseteq active[Main]

Init ==
  /\ at = [m \in Machines |-> IF m = Main THEN "init" ELSE "off"]
  /\ doze = [m \in Machines |-> "test"]
  /\ down = [s \in Subs |-> <<>>]
  /\ up = [s \in Subs |-> <<>>]
  /\ cluster = [m \in Machines |-> <<>>]
  /\ nnodes = [m \in Machines |-> 0]
  /\ nvcpus = [m \in Machines |-> 0]
  /\ online = [m \in Machines |-> {}]
  /\ active = [m \in Machines |-> {}]
  /\ me = [m \in Machines |-> IF m = Main THEN 0 ELSE None]
  /\ hdr = [nnodes |-> 0, nvcpus |-> 0]
  /\ ready = [m \in Machines |-> FALSE]
  /\ bootclk = [m \in Machines |-> FALSE]
  /\ missed = {}

\* One test of `while(!cond) wfi();`, and its wfi.
WaitFor(m, place, cond, next) ==
  /\ at[m] = place /\ doze[m] = "test"
  /\ IF cond
     THEN Goto(m, next) /\ UNCHANGED doze
     ELSE doze' = [doze EXCEPT ![m] = "about"] /\ UNCHANGED at
  /\ UNCHANGED <<down, up, tables, hdr, ready, bootclk, missed>>

Wfi(m) ==
  /\ doze[m] = "about"
  /\ doze' = [doze EXCEPT ![m] = "asleep"]
  /\ UNCHANGED <<at, down, up, tables, hdr, ready, bootclk, missed>>

-----------------------------------------------------------------------------
(* Node 0: the entry of one machine.                                       *)

node0_ack_node(mac) ==
  /\ cluster' = [cluster EXCEPT ![Main] =
                   Append(@, Entry(mac, nnodes[Main], nvcpus[Main]))]
  /\ nnodes' = [nnodes EXCEPT ![Main] = @ + 1]
  /\ nvcpus' = [nvcpus EXCEPT ![Main] = @ + NVcpu]
  /\ online' = [online EXCEPT ![Main] = @ \cup {nnodes[Main]}]

cluster_node0_init ==
  /\ at[Main] = "init"
  /\ node0_ack_node(Main)
  /\ Goto(Main, "request")
  /\ UNCHANGED <<doze, down, up, active, me, hdr, ready, bootclk, missed>>

broadcast_init_request ==
  /\ at[Main] = "request"
  /\ Broadcast(Frame("INIT"))
  /\ missed' = {s \in Subs : ~Listening(s)}
  /\ Goto(Main, "online?")
  /\ UNCHANGED <<doze, up, tables, hdr, ready, bootclk>>

wait_for_all_node_online == WaitFor(Main, "online?", all_node_is_online, "info.nnodes")

(* broadcast_cluster_info reads the two counters and then copies the table *)
(* with interrupts enabled: an INIT_ACK may be taken in between.           *)

InfoNnodes ==
  /\ at[Main] = "info.nnodes"
  /\ hdr' = [hdr EXCEPT !.nnodes = nnodes[Main]]
  /\ Goto(Main, "info.nvcpus")
  /\ UNCHANGED <<doze, down, up, tables, ready, bootclk, missed>>

InfoNvcpus ==
  /\ at[Main] = "info.nvcpus"
  /\ hdr' = [hdr EXCEPT !.nvcpus = nvcpus[Main]]
  /\ Goto(Main, "info.send")
  /\ UNCHANGED <<doze, down, up, tables, ready, bootclk, missed>>

broadcast_cluster_info ==
  /\ at[Main] = "info.send"
  /\ Broadcast(InfoFrame)
  /\ Goto(Main, "setup")
  /\ UNCHANGED <<doze, up, tables, hdr, ready, bootclk, missed>>

\* cluster_node_me_setup, on Node 0 and on the sub-nodes.
cluster_node_me_setup(m, next) ==
  /\ at[m] = "setup"
  /\ ready' = [ready EXCEPT ![m] = TRUE]
  /\ active' = [active EXCEPT ![m] = @ \cup {me[m]}]
  /\ Goto(m, next)
  /\ UNCHANGED <<doze, down, up, cluster, nnodes, nvcpus, online, me, hdr,
                 bootclk, missed>>

wait_for_all_node_ready == WaitFor(Main, "ready?", all_node_is_active, "start")

\* node0_start on cpu 0: boot clock, boot signal, vcpu_entry.
node0_start ==
  /\ at[Main] = "start"
  /\ bootclk' = [bootclk EXCEPT ![Main] = TRUE]
  /\ Broadcast(Frame("BOOT_SIG"))
  /\ Goto(Main, "guest")
  /\ UNCHANGED <<doze, up, tables, hdr, ready, missed>>

-----------------------------------------------------------------------------
(* A sub-node's thread.                                                    *)

\* peripheral_device_init: the NIC receives, interrupts are still masked.
NicInit(s) ==
  /\ at[s] = "off"
  /\ Goto(s, "nic")
  /\ UNCHANGED <<doze, down, up, tables, hdr, ready, bootclk, missed>>

subnode_cluster_init(s) ==
  /\ at[s] = "nic"
  /\ Goto(s, "acked?")
  /\ UNCHANGED <<doze, down, up, tables, hdr, ready, bootclk, missed>>

wait_for_acked_me(s) == WaitFor(s, "acked?", me[s] # None, "setup")

send_setup_done_notify(s) ==
  /\ at[s] = "notify"
  /\ up' = [up EXCEPT ![s] = Append(@, [type |-> "SETUP_DONE", src_id |-> me[s]])]
  /\ Goto(s, "vcpu?")
  /\ UNCHANGED <<doze, down, tables, hdr, ready, bootclk, missed>>

-----------------------------------------------------------------------------
(* Interrupt handlers.                                                     *)

RecvDown(s, t) ==
  /\ IrqsOn(s)
  /\ down[s] # <<>> /\ Head(down[s]).type = t
  /\ down' = [down EXCEPT ![s] = Tail(@)]

RecvUp(s, t) ==
  /\ IrqsOn(Main)
  /\ up[s] # <<>> /\ Head(up[s]).type = t
  /\ up' = [up EXCEPT ![s] = Tail(@)]
  /\ Wake(Main)

recv_init_request(s) ==
  /\ RecvDown(s, "INIT")
  /\ up' = [up EXCEPT ![s] = Append(@, Frame("INIT_ACK"))]
  /\ Wake(s)
  /\ UNCHANGED <<at, tables, hdr, ready, bootclk, missed>>

recv_init_ack(s) ==
  /\ RecvUp(s, "INIT_ACK")
  /\ node0_ack_node(s)
  /\ UNCHANGED <<at, down, active, me, hdr, ready, bootclk, missed>>

(* The mutant takes any entry but Node 0's for its own. *)
MyIds_first(s, f) == {i \in 0..(f.nnodes - 1) : f.table[i + 1].mac # Main}

\* The ids update_cluster_info recognises as its own: the last one stands.
MyIds(s, f) == {i \in 0..(f.nnodes - 1) : f.table[i + 1].mac = s}

update_cluster_info(s) ==
  /\ RecvDown(s, "CLUSTER_INFO")
  /\ LET f == Head(down[s])
         mine == MyIds(s, f)
         ids == 0..(f.nnodes - 1)
     IN /\ nnodes' = [nnodes EXCEPT ![s] = f.nnodes]
        /\ nvcpus' = [nvcpus EXCEPT ![s] = f.nvcpus]
        /\ cluster' = [cluster EXCEPT ![s] = f.table]
        /\ online' = [online EXCEPT ![s] = @ \cup ids]
        /\ active' = [active EXCEPT ![s] = @ \cup ids]
        /\ IF mine = {}
           THEN at' = [at EXCEPT ![s] = "panic"] /\ UNCHANGED <<me, doze>>
           ELSE /\ me' = [me EXCEPT ![s] = CHOOSE i \in mine :
                                             \A j \in mine : j <= i]
                /\ Wake(s)
                /\ UNCHANGED at
  /\ UNCHANGED <<up, hdr, ready, bootclk, missed>>

(* The mutant numbers the nodes from 1. *)
recv_sub_setup_done_from1(s) ==
  /\ RecvUp(s, "SETUP_DONE")
  /\ active' = [active EXCEPT ![Main] = @ \cup {Head(up[s]).src_id + 1}]
  /\ UNCHANGED <<at, down, cluster, nnodes, nvcpus, online, me, hdr, ready,
                 bootclk, missed>>

recv_sub_setup_done(s) ==
  /\ RecvUp(s, "SETUP_DONE")
  /\ active' = [active EXCEPT ![Main] = @ \cup {Head(up[s]).src_id}]
  /\ UNCHANGED <<at, down, cluster, nnodes, nvcpus, online, me, hdr, ready,
                 bootclk, missed>>

\* assert(!localnode.bootclk) stops the machine.
recv_boot_sig(s) ==
  /\ RecvDown(s, "BOOT_SIG")
  /\ IF bootclk[s]
     THEN Goto(s, "panic") /\ UNCHANGED <<bootclk, doze>>
     ELSE /\ bootclk' = [bootclk EXCEPT ![s] = TRUE]
          /\ Wake(s)
          /\ UNCHANGED at
  /\ UNCHANGED <<up, tables, hdr, ready, missed>>

\* Some other interrupt may end a wfi; nothing in the code makes one happen:
\* the hypervisor's timer is masked (arch_timer_init_core).
OtherIrq(m) ==
  /\ doze[m] = "asleep" /\ IrqsOn(m)
  /\ Wake(m)
  /\ UNCHANGED <<at, down, up, tables, hdr, ready, bootclk, missed>>

-----------------------------------------------------------------------------
MainThread ==
  \/ cluster_node0_init \/ broadcast_init_request
  \/ wait_for_all_node_online
  \/ InfoNnodes \/ InfoNvcpus \/ broadcast_cluster_info
  \/ cluster_node_me_setup(Main, "ready?")
  \/ wait_for_all_node_ready
  \/ node0_start
  \/ Wfi(Main)

SubThread(s) ==
  \/ subnode_cluster_init(s) \/ wait_for_acked_me(s)
  \/ cluster_node_me_setup(s, "notify") \/ send_setup_done_notify(s)
  \/ Wfi(s)

SubIrq(s) == recv_init_request(s) \/ update_cluster_info(s) \/ recv_boot_sig(s)

MainIrq(s) == recv_init_ack(s) \/ recv_sub_setup_done(s)

Next ==
  \/ MainThread
  \/ \E s \in Subs : NicInit(s) \/ SubThread(s) \/ SubIrq(s) \/ MainIrq(s)
  \/ \E m \in Machines : OtherIrq(m)

Spec == Init /\ [][Next]_vars

(* A machine that runs keeps executing its thread and takes its pending    *)
(* interrupts; nothing promises that a machine is ever switched on, or     *)
(* that an interrupt comes which is not a message.                         *)
FairSpec ==
  /\ Spec
  /\ WF_vars(MainThread)
  /\ \A s \in Subs : WF_vars(SubThread(s)) /\ WF_vars(SubIrq(s)) /\ WF_vars(MainIrq(s))

-----------------------------------------------------------------------------
Places == {"off", "nic", "init", "request", "online?", "info.nnodes",
           "info.nvcpus", "info.send", "setup", "ready?", "start", "guest",
           "acked?", "notify", "vcpu?", "panic"}

Booted == at[Main] = "guest"

\* Two entries of Node 0's table share a machine, memory or a vCPU id.
Overlap(e, f) ==
  \/ e.mac = f.mac
  \/ e.start < f.start + f.size /\ f.start < e.start + e.size
  \/ \E i, j \in 1..NVcpu : e.vcpus[i] = f.vcpus[j]

\* vcpuid_init: the i-th vCPU of machine m has the last id of the cluster.
TakesItselfForLast(m, i) ==
  me[m] # None /\ cluster[m][me[m] + 1].vcpus[i] = nvcpus[m] - 1

(* A recognised sub-node sees Node 0's table: for every id it may address *)
(* its entry is the one Node 0 has, and its own id names its own machine, *)
(* although Node 0 may go on registering nodes (update_cluster_info); in   *)
(* that table no memory and no vCPU id is given to two nodes and no        *)
(* machine is registered twice, whatever the order of the INIT_ACKs        *)
(* (alloc_nodeid, alloc_vcpuid, setup_vsm_memrange); and once the guest    *)
(* runs exactly one vCPU takes itself for the last one (vcpuid_init).      *)
TablesAgree ==
  /\ \A s \in Subs : me[s] # None =>
       /\ nnodes[s] <= Len(cluster[Main])
       /\ \A i \in 1..nnodes[s] : cluster[s][i] = cluster[Main][i]
       /\ cluster[s][me[s] + 1].mac = s
  /\ \A i, j \in 1..Len(cluster[Main]) : i # j => ~Overlap(cluster[Main][i], cluster[Main][j])
  /\ Booted =>
       Cardinality({v \in Machines \X (1..NVcpu) : TakesItselfForLast(v[1], v[2])}) = 1

(* When the guest starts, every node of the cluster has set up its memory *)
(* and its vCPU ids and holds the complete table: vCPU 0 can fetch a page *)
(* from any of them (wait_for_all_node_ready).                             *)
BootAfterSetup ==
  Booted => \A i \in 1..NrNode :
              LET m == cluster[Main][i].mac
              IN ready[m] /\ me[m] = i - 1 /\ NrNode <= nnodes[m]

\* Node 0 has sent the cluster information without machine m ...
LeftOut(m) ==
  hdr.nnodes >= NrNode /\ \A i \in 1..hdr.nnodes : cluster[Main][i].mac # m

\* ... and registers a machine after that.
LateComer == hdr.nnodes \in 1..(Len(cluster[Main]) - 1)

(* No sub-node stops on the second boot signal, and none stops in          *)
(* "whoami????" unless Node 0 broadcast its table without it because       *)
(* NR_NODE others had answered (update_cluster_info, recv_boot_sig_intr).  *)
NoPanic == \A m \in Machines : at[m] = "panic" => LeftOut(m)

TypeOK ==
  /\ at \in [Machines -> Places]
  /\ doze \in [Machines -> {"test", "about", "asleep"}]
  /\ \A m \in Machines :
       /\ nnodes[m] \in 0..Cardinality(Machines)
       /\ nvcpus[m] \in 0..(NVcpu * Cardinality(Machines))
       /\ nnodes[m] <= Len(cluster[m])
       /\ online[m] \subseteq 0..(nnodes[m] - 1)
       /\ active[m] \subseteq online[m]
       /\ me[m] \in {None} \cup 0..(Cardinality(Machines) - 1)
  /\ ready \in [Machines -> BOOLEAN] /\ bootclk \in [Machines -> BOOLEAN]

\* Enough machines were up to hear the only MSG_INIT and none registers after
\* the table was broadcast: then every one of them has got the boot signal.
VmIsUp ==
  \/ Cardinality(Subs \ missed) < NrNode - 1
  \/ LateComer
  \/ \A m \in Machines \ missed : bootclk[m]

(* "Node discover protocol ... 5: VM is booted! signal": the guest starts  *)
(* and the boot signal reaches the nodes.                                  *)
VmBoots == <>VmIsUp

\* The thread of m is in wfi although what it waits for has happened.
Overslept(m) ==
  /\ doze[m] = "asleep"
  /\ \/ at[m] = "online?" /\ all_node_is_online
     \/ at[m] = "ready?" /\ all_node_is_active
     \/ at[m] = "acked?" /\ me[m] # None

(* The wake-up lost between a test and its wfi is the only thing that      *)
(* keeps the cluster from booting: either every node gets the boot signal, *)
(* or some machine sleeps for ever in a wait loop whose condition is true  *)
(* (wait_for_all_node_online, wait_for_all_node_ready, wait_for_acked_me). *)
(* No answer is lost, counted for another node or waited for in vain.      *)
BootsUnlessOverslept == <>VmIsUp \/ <>[](\E m \in Machines : Overslept(m))
=============================================================================

-------------------------------- MODULE Vgic --------------------------------
(***************************************************************************)
(* Injecting interrupts into vCPUs (core/vgic.c, drivers/gicv3.c) on one   *)
(* node: software generated interrupts (SGIs) of its own vCPUs and, as     *)
(* MSG_SGI, of other nodes' vCPUs, and the timer interrupt of each cpu,    *)
(* which is passed on to the guest and stays active in the physical GIC    *)
(* until the guest ends it.                                                *)
(*                                                                         *)
(* vCPU c runs on physical cpu c.  An interrupt for the current vCPU goes  *)
(* into a free list register; one for another vCPU of the node goes into   *)
(* that vCPU's pending ring, and the physical SGI_INJECT makes its cpu     *)
(* move the ring to the list registers.  The hypervisor's handlers run     *)
(* with interrupts enabled, except in the SGI_INJECT handler and while a   *)
(* ring is locked, so handlers nest: stack[c] holds the unfinished ones of *)
(* cpu c, the innermost first, and the guest runs when it is empty.        *)
(***************************************************************************)
EXTENDS Integers, Sequences, FiniteSets

CONSTANTS
  Cpus,      \* cpus of the node, and the vCPUs they run (numbers)
  Remote,    \* vCPUs of other nodes
  NicCpu,    \* the cpu that takes the network interrupt
  Sgis,      \* SGI numbers the guest uses; not 2, on which the code panics
  Lrs,       \* list registers that inject_guest_irq looks at (numbers)
  RingSize,  \* length of pending.irqs
  MaxSgis,   \* MaxSgis[c]: bound on the SGIs vCPU c sends
  MaxMsgs,   \* bound on the MSG_SGI that arrive
  MsgVcpus,  \* vCPUs they are for
  Targets,   \* Targets[c]: the sets of vCPUs it sends them to
  Timers,    \* cpus whose timer is used
  Late       \* cpus that have not run vgic_cpu_init yet

Timer == 27
None == -1

ASSUME VgicAssumption ==
  /\ Cpus \subseteq Nat /\ IsFiniteSet(Cpus)
  /\ Remote \subseteq Nat /\ IsFiniteSet(Remote) /\ Cpus \cap Remote = {}
  /\ NicCpu \in Cpus
  /\ Sgis \subseteq 0..15 \ {2}
  /\ Lrs \subseteq Nat /\ IsFiniteSet(Lrs)
  /\ RingSize \in Nat \ {0}
  /\ MaxSgis \in [Cpus -> Nat] /\ MaxMsgs \in Nat /\ MsgVcpus \subseteq Cpus
  /\ \A c \in Cpus : \A T \in Targets[c] : T # {} /\ T \subseteq Cpus \cup Remote
  /\ Timers \subseteq Cpus /\ Late \subseteq Cpus

VARIABLES
  stack,   \* stack[c]: the unfinished handlers of cpu c, innermost first
  lr,      \* lr[c]: the list registers of cpu c
  ring,    \* vcpu->pending: irqs, head and tail
  locked,  \* vcpu->pending.lock is held
  inject,  \* inject[c]: SGI_INJECT is pending at cpu c
  timer,   \* the timer interrupt in the physical GIC of cpu c
  msgs,    \* number of MSG_SGI that have arrived
  live,    \* the struct gic_pending_irq that are allocated
  enabled, \* enabled[c]: vgic_cpu_init has enabled the SGIs of vCPU c
  sent,    \* sent[c]: SGI writes made by vCPU c
  dead     \* the node has panicked

vars == <<stack, lr, ring, locked, inject, timer, msgs, live, enabled,
          sent, dead>>

NoPend == [id |-> None, virq |-> None]

Empty == [virq |-> None, state |-> "inactive"]

Init ==
  /\ stack = [c \in Cpus |-> <<>>]
  /\ lr = [c \in Cpus |-> [i \in Lrs |-> Empty]]
  /\ ring = [c \in Cpus |-> [irqs |-> [i \in 0..(RingSize - 1) |-> NoPend],
                             head |-> 0, tail |-> 0]]
  /\ locked = [c \in Cpus |-> FALSE]
  /\ inject = [c \in Cpus |-> FALSE]
  /\ timer = [c \in Cpus |-> "idle"]
  /\ msgs = 0
  /\ live = {}
  /\ enabled = [c \in Cpus |-> c \notin Late]
  /\ sent = [c \in Cpus |-> 0]
  /\ dead = FALSE

-----------------------------------------------------------------------------
(* Handlers.  A frame is one handler: what it injects (virq) into          *)
(* which vCPU (to), the targets an SGI has left, the pendirq it holds and  *)
(* what it has read: a list register or a position of the ring (seen).     *)

Frame(kind, pc, virq) ==
  [kind |-> kind, pc |-> pc, virq |-> virq, to |-> None, targets |-> {},
   pend |-> NoPend, seen |-> None]

InGuest(c) == stack[c] = <<>>
Top(c) == Head(stack[c])
At(c, pc) == ~dead /\ ~InGuest(c) /\ Top(c).pc = pc

\* The innermost handler becomes f.
Set(c, f) == stack' = [stack EXCEPT ![c] = <<f>> \o Tail(@)]

SgiFrame(virq, targets) ==
  LET t == CHOOSE d \in targets : \A e \in targets : d <= e
  IN [Frame("sgi", "virq", virq) EXCEPT !.to = t, !.targets = targets \ {t}]

\* One target is served: vgic_emulate_sgi goes on to the next, if any.
Done(c) ==
  IF Top(c).targets # {} THEN Set(c, SgiFrame(Top(c).virq, Top(c).targets))
  ELSE stack' = [stack EXCEPT ![c] = Tail(@)]

Panic ==
  /\ dead' = TRUE
  /\ UNCHANGED <<stack, lr, ring, locked, inject, live>>

(* The mutant takes the ring's lock with interrupts enabled. *)
MaskedNever(c) == ~InGuest(c) /\ Top(c).kind = "inject"

\* spin_lock_irqsave, and the handlers of physical SGIs.
Masked(c) == ~InGuest(c) /\ (Top(c).kind = "inject" \/ Top(c).pc = "store")

\* An interrupt is taken: its handler runs first.
Interrupt(c, f) ==
  /\ ~dead /\ ~Masked(c)
  /\ stack' = [stack EXCEPT ![c] = <<f>> \o @]

-----------------------------------------------------------------------------
(* gicv3_inject_guest_irq.                                                 *)

\* The interrupt is in a list register already.
Busy(c, virq) == \E i \in Lrs : lr[c][i].virq = virq

FreeLrs(c) == {i \in Lrs : lr[c][i] = Empty}
FreeLr(c) == CHOOSE i \in FreeLrs(c) : \A j \in FreeLrs(c) : i <= j

\* gicv3_pending_lr.
PendingLr(p) == [virq |-> p.virq, state |-> "pending"]

-----------------------------------------------------------------------------
(* vgic_inject_virq, run by the innermost handler of cpu c for the vCPU it *)
(* is about.  The handlers of another cpu do not see the malloc, so it is  *)
(* part of the step that follows it.                                       *)

NewPendirq(c) ==
  [id |-> CHOOSE i \in 0..Cardinality(live) : i \notin live, virq |-> Top(c).virq]

FreePendirq(p) == live' = live \ {p.id}

Usable(c) == Top(c).virq = Timer \/ enabled[Top(c).to]

\* An SGI for a vCPU that has not run vgic_cpu_init: "sgi failed".
SgiFailed(c) ==
  /\ At(c, "virq") /\ Top(c).to \in Cpus /\ ~Usable(c)
  /\ Panic
  /\ UNCHANGED <<timer, msgs, enabled, sent>>

\* vgic_inject_virq_local for the current vCPU: which register is free ...
ScanLrs(c) ==
  /\ At(c, "virq") /\ Top(c).to = c /\ Usable(c)
  /\ IF Busy(c, Top(c).virq)
     THEN Done(c) /\ UNCHANGED <<lr, ring, locked, inject, live, dead>>
     ELSE IF FreeLrs(c) = {}
     THEN Panic
     ELSE /\ Set(c, [Top(c) EXCEPT !.pc = "write", !.seen = FreeLr(c), !.pend = NewPendirq(c)])
          /\ live' = live \cup {NewPendirq(c).id}
          /\ UNCHANGED <<lr, ring, locked, inject, dead>>
  /\ UNCHANGED <<timer, msgs, enabled, sent>>

\* ... is written, and the pending interrupt is freed.
WriteLr(c) ==
  /\ At(c, "write")
  /\ lr' = [lr EXCEPT ![c][Top(c).seen] = PendingLr(Top(c).pend)]
  /\ FreePendirq(Top(c).pend)
  /\ Done(c)
  /\ UNCHANGED <<ring, locked, inject, timer, msgs, enabled, sent, dead>>

NextSlot(i) == (i + 1) % RingSize

(* The mutant does not wait for the lock. *)
LockRingNever(c) ==
  LET t == Top(c).to
  IN /\ At(c, "virq") /\ t \in Cpus \ {c} /\ Usable(c)
     /\ locked' = [locked EXCEPT ![t] = TRUE]
     /\ Set(c, [Top(c) EXCEPT !.pc = "store", !.seen = ring[t].tail, !.pend = NewPendirq(c)])
     /\ live' = live \cup {NewPendirq(c).id}
     /\ UNCHANGED <<lr, ring, inject, timer, msgs, enabled, sent, dead>>

\* vgic_inject_virq_local for another vCPU of the node: lock its ring and
\* read the position ...
LockRing(c) ==
  LET t == Top(c).to
  IN /\ At(c, "virq") /\ t \in Cpus \ {c} /\ Usable(c) /\ ~locked[t]
     /\ locked' = [locked EXCEPT ![t] = TRUE]
     /\ Set(c, [Top(c) EXCEPT !.pc = "store", !.seen = ring[t].tail, !.pend = NewPendirq(c)])
     /\ live' = live \cup {NewPendirq(c).id}
     /\ UNCHANGED <<lr, ring, inject, timer, msgs, enabled, sent, dead>>

\* ... store the pending interrupt and unlock; a full ring is a panic ...
StorePendirq(c) ==
  LET t == Top(c).to
      next == NextSlot(Top(c).seen)
  IN /\ At(c, "store")
     /\ IF next # ring[t].head
        THEN /\ ring' = [ring EXCEPT ![t].irqs[Top(c).seen] = Top(c).pend,
                                     ![t].tail = next]
             /\ locked' = [locked EXCEPT ![t] = FALSE]
             /\ Set(c, [Top(c) EXCEPT !.pc = "kick", !.pend = NoPend, !.seen = None])
             /\ UNCHANGED <<lr, inject, live, dead>>
        ELSE Panic
     /\ UNCHANGED <<timer, msgs, enabled, sent>>

\* ... and cpu_send_inject_sgi.
SendInjectSgi(c) ==
  /\ At(c, "kick")
  /\ inject' = [inject EXCEPT ![Top(c).to] = TRUE]
  /\ Done(c)
  /\ UNCHANGED <<lr, ring, locked, timer, msgs, live, enabled, sent, dead>>

-----------------------------------------------------------------------------
(* The handler of SGI_INJECT: vgic_inject_pending_irqs.                    *)

\* gicv3_irq_handler acknowledges the SGI before it calls the handler.
InjectIrq(c) ==
  /\ inject[c]
  /\ Interrupt(c, Frame("inject", "drainlock", None))
  /\ inject' = [inject EXCEPT ![c] = FALSE]
  /\ UNCHANGED <<lr, ring, locked, timer, msgs, live, enabled, sent, dead>>

DrainLock(c) ==
  /\ At(c, "drainlock") /\ ~locked[c]
  /\ locked' = [locked EXCEPT ![c] = TRUE]
  /\ Set(c, [Top(c) EXCEPT !.pc = "drain", !.seen = ring[c].head])
  /\ UNCHANGED <<lr, ring, inject, timer, msgs, live, enabled, sent, dead>>

\* One turn of the loop: the list register, the next position, the free.
\* The dangling pointer left in the slot is not modelled: a slot outside
\* head..tail is written before it is read.
DrainOne(c) ==
  LET p == ring[c].irqs[Top(c).seen]
  IN /\ At(c, "drain") /\ Top(c).seen # ring[c].tail
     /\ IF ~Busy(c, p.virq) /\ FreeLrs(c) = {}
        THEN Panic
        ELSE /\ lr' = IF Busy(c, p.virq) THEN lr
                      ELSE [lr EXCEPT ![c][FreeLr(c)] = PendingLr(p)]
             /\ Set(c, [Top(c) EXCEPT !.seen = NextSlot(@)])
             /\ FreePendirq(p)
             /\ ring' = [ring EXCEPT ![c].irqs[Top(c).seen] = NoPend]
             /\ UNCHANGED <<locked, inject, dead>>
     /\ UNCHANGED <<timer, msgs, enabled, sent>>

(* The mutant leaves the head where it was. *)
DrainEndKeeps(c) ==
  /\ At(c, "drain") /\ Top(c).seen = ring[c].tail
  /\ locked' = [locked EXCEPT ![c] = FALSE]
  /\ Done(c)
  /\ UNCHANGED <<lr, ring, inject, timer, msgs, live, enabled, sent, dead>>

DrainEnd(c) ==
  /\ At(c, "drain") /\ Top(c).seen = ring[c].tail
  /\ ring' = [ring EXCEPT ![c].head = Top(c).seen]
  /\ locked' = [locked EXCEPT ![c] = FALSE]
  /\ Done(c)
  /\ UNCHANGED <<lr, inject, timer, msgs, live, enabled, sent, dead>>

-----------------------------------------------------------------------------
(* The other handlers.                                                     *)

\* handle_irq: priority drop, then vgic_inject_virq for the current vCPU;
\* the physical interrupt is left active.
TimerIrq(c) ==
  /\ timer[c] = "pending"
  /\ Interrupt(c, [Frame("timer", "virq", Timer) EXCEPT !.to = c])
  /\ timer' = [timer EXCEPT ![c] = "active"]
  /\ UNCHANGED <<lr, ring, locked, inject, msgs, live, enabled, sent, dead>>

\* recv_sgi_msg_intr, from do_recv_waitqueue: not inside another interrupt
\* and not inside itself.
RecvSgiMsg(c, to, virq) ==
  /\ c = NicCpu /\ msgs < MaxMsgs
  /\ \A i \in 1..Len(stack[c]) : stack[c][i].kind = "sgi"
  /\ Interrupt(c, [Frame("msg", "virq", virq) EXCEPT !.to = to])
  /\ msgs' = msgs + 1
  /\ UNCHANGED <<lr, ring, locked, inject, timer, live, enabled, sent, dead>>

\* The guest writes ICC_SGI1R_EL1 (vgic_emulate_sgi1r).
EmulateSgi(c, virq, targets) ==
  /\ ~dead /\ InGuest(c) /\ enabled[c]
  /\ sent[c] < MaxSgis[c]
  /\ sent' = [sent EXCEPT ![c] = @ + 1]
  /\ stack' = [stack EXCEPT ![c] = <<SgiFrame(virq, targets)>>]
  /\ UNCHANGED <<lr, ring, locked, inject, timer, msgs, live, enabled, dead>>

\* vgic_emulate_sgi: a vCPU of another node is sent MSG_SGI.
SendSgiMsg(c) ==
  /\ At(c, "virq") /\ Top(c).to \in Remote
  /\ Done(c)
  /\ UNCHANGED <<lr, ring, locked, inject, timer, msgs, live, enabled, sent, dead>>

vgic_cpu_init(c) ==
  /\ ~dead /\ ~enabled[c]
  /\ enabled' = [enabled EXCEPT ![c] = TRUE]
  /\ UNCHANGED <<stack, lr, ring, locked, inject, timer, msgs, live, sent, dead>>

-----------------------------------------------------------------------------
(* The guest and the hardware.                                             *)

TimerFires(c) ==
  /\ ~dead /\ enabled[c] /\ c \in Timers /\ timer[c] = "idle"
  /\ timer' = [timer EXCEPT ![c] = "pending"]
  /\ UNCHANGED <<stack, lr, ring, locked, inject, msgs, live, enabled, sent, dead>>

GuestAck(c, i) ==
  /\ ~dead /\ InGuest(c) /\ lr[c][i].state = "pending"
  /\ lr' = [lr EXCEPT ![c][i].state = "active"]
  /\ UNCHANGED <<stack, ring, locked, inject, timer, msgs, live, enabled, sent, dead>>

\* The end of a hardware interrupt also deactivates the physical one.
GuestEoi(c, i) ==
  /\ ~dead /\ InGuest(c) /\ lr[c][i].state = "active"
  /\ lr' = [lr EXCEPT ![c][i] = Empty]
  /\ timer' = IF lr[c][i].virq = Timer THEN [timer EXCEPT ![c] = "idle"] ELSE timer
  /\ UNCHANGED <<stack, ring, locked, inject, msgs, live, enabled, sent, dead>>

-----------------------------------------------------------------------------
Handler(c) ==
  \/ SgiFailed(c) \/ ScanLrs(c) \/ WriteLr(c)
  \/ LockRing(c) \/ StorePendirq(c) \/ SendInjectSgi(c) \/ SendSgiMsg(c)
  \/ DrainLock(c) \/ DrainOne(c) \/ DrainEnd(c)

Irq(c) ==
  \/ InjectIrq(c) \/ TimerIrq(c)
  \/ \E t \in MsgVcpus, v \in Sgis : RecvSgiMsg(c, t, v)

Guest(c) ==
  \/ \E v \in Sgis : \E T \in Targets[c] : EmulateSgi(c, v, T)
  \/ \E i \in Lrs : GuestAck(c, i) \/ GuestEoi(c, i)

Next == \E c \in Cpus : Handler(c) \/ Irq(c) \/ Guest(c) \/ vgic_cpu_init(c) \/ TimerFires(c)

Spec == Init /\ [][Next]_vars

(* Cpus go on and take their pending interrupts.                           *)
FairSpec ==
  /\ Spec
  /\ \A c \in Cpus :
       /\ WF_vars(Handler(c)) /\ SF_vars(InjectIrq(c))

-----------------------------------------------------------------------------
(* Where the pending interrupts are: held by a handler, or in a  *)
(* ring between its head, as far as a running drain has come, and tail.    *)

HoldsPendirq(f) == f.pc \in {"write", "store"}

Draining(c) == ~InGuest(c) /\ Top(c).pc = "drain"

RingHead(c) == IF Draining(c) THEN Top(c).seen ELSE ring[c].head

Distance(from, to) == (to - from) % RingSize

InRing(c) ==
  {i \in 0..(RingSize - 1) :
     Distance(RingHead(c), i) < Distance(RingHead(c), ring[c].tail)}

Holders ==
  UNION {{<<c, "handler", i>> : i \in {k \in 1..Len(stack[c]) : HoldsPendirq(stack[c][k])}}
           \cup {<<c, "ring", i>> : i \in InRing(c)} : c \in Cpus}

PendirqOf(h) == IF h[2] = "ring" THEN ring[h[1]].irqs[h[3]] ELSE stack[h[1]][h[3]].pend

TypeOK ==
  /\ \A c \in Cpus : \A i \in 1..Len(stack[c]) :
       /\ stack[c][i].kind \in {"sgi", "msg", "timer", "inject"}
       /\ stack[c][i].virq \in Sgis \cup {Timer, None}
       /\ i > 1 => stack[c][i].kind # "inject"
  /\ \A c \in Cpus : ring[c].head \in 0..(RingSize - 1) /\ ring[c].tail \in 0..(RingSize - 1)
  /\ locked \in [Cpus -> BOOLEAN] /\ inject \in [Cpus -> BOOLEAN]
  /\ timer \in [Cpus -> {"idle", "pending", "active"}]
  /\ dead \in BOOLEAN

(* Every struct gic_pending_irq has exactly one owner, a handler or a slot *)
(* of a ring, from malloc in vgic_inject_virq to the one free: none is     *)
(* leaked, freed twice or overwritten in a ring, however the senders and   *)
(* the drains of a node interleave.                                        *)
PendirqOnce ==
  /\ {PendirqOf(h).id : h \in Holders} = live
  /\ \A g, h \in Holders : g # h => PendirqOf(g).id # PendirqOf(h).id

(* An interrupt in a vCPU's ring is never forgotten: SGI_INJECT is pending *)
(* at its cpu, or about to be sent, or its handler runs (the SGI is sent   *)
(* after the unlock in vgic_inject_virq_local).                            *)
Kicked ==
  \A c \in Cpus : ring[c].head # ring[c].tail /\ ~dead =>
    \/ inject[c]
    \/ ~InGuest(c) /\ Top(c).kind = "inject"
    \/ \E d \in Cpus : \E i \in 1..Len(stack[d]) :
         stack[d][i].pc = "kick" /\ stack[d][i].to = c

Quiet(c) == InGuest(c) /\ ring[c].head = ring[c].tail

(* Every handler returns to the guest and every ring is emptied: no cpu    *)
(* waits for ever for the lock of a ring (spin_lock_irqsave against the    *)
(* SGI_INJECT handlers of cpus that send to each other), and no interrupt  *)
(* waits for ever in one.                                                  *)
Delivered == \A c \in Cpus : ~Quiet(c) ~> Quiet(c) \/ dead

(* "inject irq to guest" (handle_irq): a timer interrupt that is active in *)
(* the physical GIC is on its way into a list register or in one, where    *)
(* the guest can end it; otherwise the timer never fires again.            *)
TimerInjected ==
  \A c \in Cpus : timer[c] = "active" /\ ~dead =>
    \/ Busy(c, Timer)
    \/ \E i \in 1..Len(stack[c]) : stack[c][i].kind = "timer"
=============================================================================

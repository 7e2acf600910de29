------------------------------ MODULE PageLock ------------------------------
(***************************************************************************)
(* The lock and the waitqueue of one page descriptor (core/vsm.c), at the  *)
(* grain of its exclusive loads and stores.  lock and wqlock are the two   *)
(* bytes of the halfword ll.  Faulting cpus take the lock with             *)
(* page_spinlock; the message context Rx tries with page_trylock and       *)
(* otherwise enqueues its proc with vsm_enqueue_proc.  Whoever holds the   *)
(* lock runs vsm_process_waitqueue before it unlocks.  Rx runs on the core *)
(* of NicCpu, on top of whatever that cpu was doing with interrupts        *)
(* enabled.                                                                *)
(*                                                                         *)
(* External: the exclusive monitor.  A load-exclusive marks the halfword   *)
(* for its cpu; any store to the halfword clears the marks of the others   *)
(* and sets their event registers, which end a WFE.  A store-exclusive     *)
(* needs the mark and may also fail without a reason.                      *)
(***************************************************************************)
EXTENDS Naturals, Sequences, FiniteSets

CONSTANTS
  Cpus,       \* cpus that fault on the page
  NicCpu,     \* the one of them that the message context interrupts
  Rx,         \* the message context
  MaxProcs    \* bound: number of messages received

Free == "free"

ASSUME PageLockAssumption ==
  /\ NicCpu \in Cpus
  /\ Rx \notin Cpus
  /\ Free \notin Cpus \cup {Rx}
  /\ MaxProcs \in Nat

VARIABLES
  lock, wqlock,   \* the two bytes: zero or not
  mon,            \* actors whose exclusive mark is valid
  wake,           \* actors whose event register is set
  pc,             \* actor -> where it is
  ret,            \* actor -> where vwq_lock returns to
  saw,            \* actor -> page->lock as vwq_lock loaded it
  wq,             \* procs in the waitqueue
  batch,          \* actor -> procs it took off the waitqueue
  arrived,        \* number of messages received; a proc is its number
  served          \* procs processed, in order (history)

vars == <<lock, wqlock, mon, wake, pc, ret, saw, wq, batch, arrived, served>>
words == <<lock, wqlock, mon, wake>>
procs == <<wq, batch, arrived, served>>

Actors == Cpus \cup {Rx}

Init ==
  /\ lock = FALSE /\ wqlock = FALSE
  /\ mon = {} /\ wake = {}
  /\ pc = [a \in Actors |-> "idle"]
  /\ ret = [a \in Actors |-> "wq"]
  /\ saw = [a \in Actors |-> FALSE]
  /\ wq = <<>>
  /\ batch = [a \in Actors |-> <<>>]
  /\ arrived = 0
  /\ served = <<>>

\* the interrupted cpu goes on when the message context is done
Runs(a) == a = NicCpu => pc[Rx] = "idle"

At(a, l) == pc[a] = l /\ Runs(a)

Goto(a, l) == pc' = [pc EXCEPT ![a] = l]

\* ldaxrb, ldaxrh
LoadExclusive(a) == mon' = mon \cup {a}

\* a store by a to the halfword
StoreWord(a, l, w) ==
  /\ lock' = l /\ wqlock' = w
  /\ mon' = {}
  /\ wake' = wake \cup (mon \ {a})

\* a store-exclusive that does not write
StoreFails(a) ==
  /\ mon' = mon \ {a}
  /\ UNCHANGED <<lock, wqlock, wake>>

\* sevl; wfe falls through once and leaves the event register clear
Sevl(a) == wake' = wake \ {a}

-----------------------------------------------------------------------------
(* page_spinlock                                                           *)

PageSpinlock(c) ==
  /\ At(c, "idle")
  /\ Goto(c, "spin_load")
  /\ Sevl(c)
  /\ UNCHANGED <<lock, wqlock, mon, ret, saw, procs>>

\* mutant: a plain load, which sets no exclusive mark
SpinLoadPlain(c) ==
  /\ At(c, "spin_load")
  /\ Goto(c, IF lock THEN "spin_wfe" ELSE "spin_store")
  /\ UNCHANGED <<words, ret, saw, procs>>

SpinLoad(c) ==
  /\ At(c, "spin_load")
  /\ LoadExclusive(c)
  /\ Goto(c, IF lock THEN "spin_wfe" ELSE "spin_store")
  /\ UNCHANGED <<lock, wqlock, wake, ret, saw, procs>>

SpinStore(c) ==
  /\ At(c, "spin_store")
  /\ \/ c \in mon /\ StoreWord(c, TRUE, wqlock) /\ Goto(c, "work")
     \/ StoreFails(c) /\ Goto(c, "spin_load")
  /\ UNCHANGED <<ret, saw, procs>>

\* wfe in page_spinlock and in vwq_lock
Wfe(a) ==
  /\ At(a, "spin_wfe") \/ At(a, "vwq_wfe")
  /\ a \in wake
  /\ wake' = wake \ {a}
  /\ Goto(a, IF pc[a] = "spin_wfe" THEN "spin_load" ELSE "vwq_load")
  /\ UNCHANGED <<lock, wqlock, mon, ret, saw, procs>>

-----------------------------------------------------------------------------
(* recv_fetch_request_intr, recv_invalidate_intr and page_trylock          *)

InVwqLock(a) == pc[a] \in {"vwq_load", "vwq_store", "vwq_wfe"}

\* mutant: the waitqueue is locked with interrupts enabled
MaskedNever(c) == FALSE

\* irqsave in vsm_process_waitqueue, local_irq_disable in vsm_process_wq_core
Masked(c) == InVwqLock(c) \/ pc[c] = "wq"

Receive ==
  /\ At(Rx, "idle") /\ ~Masked(NicCpu)
  /\ arrived < MaxProcs
  /\ arrived' = arrived + 1
  /\ Goto(Rx, "try_load")
  /\ UNCHANGED <<words, ret, saw, wq, batch, served>>

\* a vwq_lock that returns to l
VwqLock(a, l) ==
  /\ Goto(a, "vwq_load")
  /\ ret' = [ret EXCEPT ![a] = l]

TryLoad ==
  /\ At(Rx, "try_load")
  /\ LoadExclusive(Rx)
  /\ IF lock THEN VwqLock(Rx, "enqueue") /\ Sevl(Rx)
             ELSE Goto(Rx, "try_store") /\ UNCHANGED <<ret, wake>>
  /\ UNCHANGED <<lock, wqlock, saw, procs>>

TryStore ==
  /\ At(Rx, "try_store")
  /\ \/ /\ Rx \in mon
        /\ StoreWord(Rx, TRUE, wqlock)
        /\ Goto(Rx, "direct")
        /\ UNCHANGED ret
     \/ /\ mon' = mon \ {Rx}
        /\ VwqLock(Rx, "enqueue") /\ Sevl(Rx)
        /\ UNCHANGED <<lock, wqlock>>
  /\ UNCHANGED <<saw, procs>>

\* p->do_process(p) of the message just received
ProcessDirect ==
  /\ At(Rx, "direct")
  /\ served' = Append(served, arrived)
  /\ VwqLock(Rx, "wq") /\ Sevl(Rx)
  /\ UNCHANGED <<lock, wqlock, mon, saw, wq, batch, arrived>>

-----------------------------------------------------------------------------
(* vwq_lock                                                                *)

VwqLoad(a) ==
  /\ At(a, "vwq_load")
  /\ LoadExclusive(a)
  /\ saw' = [saw EXCEPT ![a] = lock]
  /\ Goto(a, IF wqlock THEN "vwq_wfe" ELSE "vwq_store")
  /\ UNCHANGED <<lock, wqlock, wake, ret, procs>>

\* mutant: the store is not conditional on the exclusive mark
VwqStorePlain(a) ==
  /\ At(a, "vwq_store")
  /\ StoreWord(a, TRUE, TRUE) /\ Goto(a, ret[a])
  /\ UNCHANGED <<ret, saw, procs>>

\* 0x0101 is stored: a page found unlocked is locked as well
VwqStore(a) ==
  /\ At(a, "vwq_store")
  /\ \/ a \in mon /\ StoreWord(a, TRUE, TRUE) /\ Goto(a, ret[a])
     \/ StoreFails(a) /\ Goto(a, "vwq_load")
  /\ UNCHANGED <<ret, saw, procs>>

-----------------------------------------------------------------------------
(* vsm_enqueue_proc                                                        *)

\* link the proc, vwq_unlock; the caller serves the queue if it got the page
Enqueue ==
  /\ At(Rx, "enqueue")
  /\ wq' = Append(wq, arrived)
  /\ lock' = lock /\ wqlock' = FALSE
  /\ mon' = {}
  /\ IF saw[Rx]
       THEN /\ wake' = wake \cup (mon \ {Rx})
            /\ Goto(Rx, "idle")
            /\ UNCHANGED ret
       ELSE /\ wake' = (wake \cup mon) \ {Rx}
            /\ VwqLock(Rx, "wq")
  /\ UNCHANGED <<saw, batch, arrived, served>>

-----------------------------------------------------------------------------
(* vsm_process_waitqueue                                                   *)

\* the cpu has done what it locked the page for
WorkDone(c) ==
  /\ At(c, "work")
  /\ VwqLock(c, "wq") /\ Sevl(c)
  /\ UNCHANGED <<lock, wqlock, mon, saw, procs>>

\* mutant: head and tail are not reset
WqTakeKeep(a) ==
  /\ At(a, "wq")
  /\ wq # <<>>
  /\ batch' = [batch EXCEPT ![a] = wq]
  /\ StoreWord(a, lock, FALSE)
  /\ Goto(a, "serve")
  /\ UNCHANGED <<ret, saw, wq, arrived, served>>

\* head and tail are reset, vwq_unlock
WqTake(a) ==
  /\ At(a, "wq")
  /\ wq # <<>>
  /\ batch' = [batch EXCEPT ![a] = wq]
  /\ wq' = <<>>
  /\ StoreWord(a, lock, FALSE)
  /\ Goto(a, "serve")
  /\ UNCHANGED <<ret, saw, arrived, served>>

WqServe(a) ==
  /\ At(a, "serve")
  /\ batch[a] # <<>>
  /\ served' = Append(served, Head(batch[a]))
  /\ batch' = [batch EXCEPT ![a] = Tail(@)]
  /\ UNCHANGED <<words, pc, ret, saw, wq, arrived>>

\* the queue is looked at again under vwq_lock: reprocess
WqAgain(a) ==
  /\ At(a, "serve")
  /\ batch[a] = <<>>
  /\ VwqLock(a, "wq") /\ Sevl(a)
  /\ UNCHANGED <<lock, wqlock, mon, saw, procs>>

\* one store clears both bytes
PageUnlock(a) ==
  /\ At(a, "wq")
  /\ wq = <<>>
  /\ StoreWord(a, FALSE, FALSE)
  /\ Goto(a, "idle")
  /\ UNCHANGED <<ret, saw, procs>>

-----------------------------------------------------------------------------
CpuStep(c) == SpinLoad(c) \/ SpinStore(c) \/ WorkDone(c)

RxStep == TryLoad \/ TryStore \/ ProcessDirect \/ Enqueue

WqStep(a) ==
  \/ Wfe(a) \/ VwqLoad(a) \/ VwqStore(a)
  \/ WqTake(a) \/ WqServe(a) \/ WqAgain(a) \/ PageUnlock(a)

Next ==
  \/ \E c \in Cpus : PageSpinlock(c) \/ CpuStep(c)
  \/ Receive \/ RxStep
  \/ \E a \in Actors : WqStep(a)

Spec == Init /\ [][Next]_vars

(***************************************************************************)
(* Fairness: every cpu keeps executing, and a store-exclusive that is      *)
(* retried for ever is not refused for ever (the architecture's guarantee  *)
(* for exclusive loops).  Faults and messages need not come.               *)
(***************************************************************************)
FairSpec ==
  /\ Spec
  /\ WF_vars(RxStep)
  /\ \A c \in Cpus : WF_vars(CpuStep(c))
  /\ \A a \in Actors :
       /\ WF_vars(WqStep(a))
       /\ SF_vars(VwqStore(a) /\ pc'[a] = ret[a])

-----------------------------------------------------------------------------
(* Properties.                                                             *)

\* a holds page->lock: as a cpu, after a successful page_trylock, or because
\* vwq_lock found the page unlocked
Holds(a) ==
  \/ pc[a] \in {"work", "direct", "serve", "wq"}
  \/ InVwqLock(a) /\ ret[a] = "wq"
  \/ pc[a] = "enqueue" /\ ~saw[a]

\* a holds page->wqlock
HoldsWq(a) == pc[a] \in {"wq", "enqueue"}

\* Type invariant of the lock words, the waitqueue and the actors.
TypeOK ==
  /\ lock \in BOOLEAN /\ wqlock \in BOOLEAN
  /\ mon \subseteq Actors /\ wake \subseteq Actors
  /\ pc \in [Actors -> {"idle", "spin_load", "spin_wfe", "spin_store", "work",
                        "try_load", "try_store", "direct", "vwq_load",
                        "vwq_wfe", "vwq_store", "enqueue", "wq", "serve"}]
  /\ ret \in [Actors -> {"enqueue", "wq"}]
  /\ saw \in [Actors -> BOOLEAN]
  /\ wq \in Seq(Nat)
  /\ batch \in [Actors -> Seq(Nat)]
  /\ arrived \in 0..MaxProcs
  /\ served \in Seq(Nat)

\* At most one actor works on the page and at most one on its waitqueue, and
\* the two bytes say exactly whether somebody does - although vwq_lock stores
\* 0x0101 over a lock somebody else may hold.
MutualExclusion ==
  /\ \A a, b \in Actors : Holds(a) /\ Holds(b) => a = b
  /\ \A a, b \in Actors : HoldsWq(a) /\ HoldsWq(b) => a = b
  /\ lock <=> \E a \in Actors : Holds(a)
  /\ wqlock <=> \E a \in Actors : HoldsWq(a)

\* A cpu sleeping in wfe has its exclusive mark set and the byte it waits for
\* is still taken, so the store that releases it will wake the cpu.
NoLostWakeup ==
  \A a \in Actors : a \notin wake =>
    /\ pc[a] = "spin_wfe" => lock /\ a \in mon
    /\ pc[a] = "vwq_wfe" => wqlock /\ a \in mon

\* an exclusive mark is still set only if what was loaded is still there
MarkIsFresh ==
  \A a \in mon :
    /\ pc[a] \in {"spin_store", "try_store"} => ~lock
    /\ pc[a] = "vwq_store" => ~wqlock /\ (saw[a] <=> lock)

\* The lock words and the marks agree with what every actor is doing: the
\* inductive invariant behind MutualExclusion and NoLostWakeup.  A
\* store-exclusive of page_spinlock, page_trylock or vwq_lock can only succeed
\* on the very value that was loaded.
LockInv == TypeOK /\ MutualExclusion /\ NoLostWakeup /\ MarkIsFresh

\* the guests of the node stop faulting on the page
FaultsCease == <>[][\A c \in Cpus : ~PageSpinlock(c)]_vars

\* Every message received is processed, whoever holds the page when it comes,
\* provided the cpus do not fault on the page for ever: page_spinlock and
\* vwq_lock are not fair, and a stream of faults could starve the message.
AllServed ==
  FaultsCease => \A i \in 1..MaxProcs : arrived >= i ~> Len(served) >= i

\* Rx has received a proc that has not reached the page or its waitqueue yet
BeforeArrival ==
  \/ pc[Rx] \in {"try_load", "try_store"}
  \/ InVwqLock(Rx) /\ ret[Rx] = "enqueue"

Monitor == INSTANCE PageMonitor WITH
  holder  <- IF \E a \in Actors : Holds(a)
               THEN CHOOSE a \in Actors : Holds(a) ELSE Free,
  queue   <- (IF pc[Rx] = "direct" THEN <<arrived>> ELSE <<>>)
             \o (IF \E a \in Actors : batch[a] # <<>>
                   THEN batch[CHOOSE a \in Actors : batch[a] # <<>>] ELSE <<>>)
             \o wq
             \o (IF pc[Rx] = "enqueue" THEN <<arrived>> ELSE <<>>),
  arrived <- IF BeforeArrival THEN arrived - 1 ELSE arrived,
  served  <- Len(served)

\* The lock and the waitqueue implement the page monitor: no proc is lost,
\* served twice or overtaken, and nobody leaves while one is waiting.
ImplementsPageMonitor == Monitor!Spec
=============================================================================

--------------------------- MODULE PageLockProofs ---------------------------
(***************************************************************************)
(* PageLock for any number of faulting cpus and of messages: the lock      *)
(* words protect the page and its waitqueue, no sleeping cpu misses its    *)
(* wake-up, and lock and waitqueue together implement PageMonitor.         *)
(***************************************************************************)
EXTENDS PageLock, SequenceTheorems, TLAPS

Pcs == {"idle", "spin_load", "spin_wfe", "spin_store", "work", "try_load",
        "try_store", "direct", "vwq_load", "vwq_wfe", "vwq_store", "enqueue",
        "wq", "serve"}

\* The part of TypeOK about the lock words and the control of the actors.
ControlOK ==
  /\ lock \in BOOLEAN /\ wqlock \in BOOLEAN
  /\ mon \subseteq Actors /\ wake \subseteq Actors
  /\ pc \in [Actors -> Pcs]
  /\ ret \in [Actors -> {"enqueue", "wq"}]
  /\ saw \in [Actors -> BOOLEAN]

ProcsOK ==
  /\ wq \in Seq(Nat)
  /\ batch \in [Actors -> Seq(Nat)]
  /\ arrived \in 0..MaxProcs
  /\ served \in Seq(Nat)

\* The two parts of the type invariant.
LEMMA TypeSplit == TypeOK <=> ControlOK /\ ProcsOK
  BY DEF TypeOK, ControlOK, ProcsOK, Pcs

\* Every step keeps the types of the lock words, of the exclusive marks and
\* of the control state.
LEMMA ControlStep ==
  ASSUME ControlOK, [Next]_vars
  PROVE  ControlOK'
<1> USE PageLockAssumption DEF ControlOK, Pcs, Actors, At
<1>1. ASSUME NEW c \in Cpus, PageSpinlock(c) PROVE ControlOK'
  BY <1>1 DEF PageSpinlock, Goto, Sevl
<1>2. ASSUME NEW c \in Cpus, SpinLoad(c) PROVE ControlOK'
  BY <1>2 DEF SpinLoad, Goto, LoadExclusive
<1>3. ASSUME NEW c \in Cpus, SpinStore(c) PROVE ControlOK'
  BY <1>3 DEF SpinStore, Goto, StoreWord, StoreFails
<1>4. ASSUME NEW c \in Cpus, WorkDone(c) PROVE ControlOK'
  BY <1>4 DEF WorkDone, VwqLock, Goto, Sevl
<1>5. CASE Receive
  BY <1>5 DEF Receive, Goto, words
<1>6. CASE TryLoad
  BY <1>6 DEF TryLoad, VwqLock, Goto, Sevl, LoadExclusive
<1>7. CASE TryStore
  <2>1. CASE Rx \in mon /\ StoreWord(Rx, TRUE, wqlock) /\ Goto(Rx, "direct")
             /\ UNCHANGED ret
    BY <1>7, <2>1 DEF TryStore, Goto, StoreWord
  <2>2. CASE mon' = mon \ {Rx} /\ VwqLock(Rx, "enqueue") /\ Sevl(Rx)
             /\ UNCHANGED <<lock, wqlock>>
    BY <1>7, <2>2 DEF TryStore, VwqLock, Goto, Sevl
  <2> QED
    BY <1>7, <2>1, <2>2 DEF TryStore
<1>8. CASE ProcessDirect
  BY <1>8 DEF ProcessDirect, VwqLock, Goto, Sevl
<1>9. CASE Enqueue
  BY <1>9 DEF Enqueue, VwqLock, Goto
<1>10. ASSUME NEW a \in Actors, Wfe(a) PROVE ControlOK'
  BY <1>10 DEF Wfe, Goto
<1>11. ASSUME NEW a \in Actors, VwqLoad(a) PROVE ControlOK'
  BY <1>11 DEF VwqLoad, Goto, LoadExclusive
<1>12. ASSUME NEW a \in Actors, VwqStore(a) PROVE ControlOK'
  <2>1. CASE a \in mon /\ StoreWord(a, TRUE, TRUE) /\ Goto(a, ret[a])
    BY <1>12, <2>1 DEF VwqStore, Goto, StoreWord
  <2>2. CASE StoreFails(a) /\ Goto(a, "vwq_load")
    BY <1>12, <2>2 DEF VwqStore, Goto, StoreFails
  <2> QED
    BY <1>12, <2>1, <2>2 DEF VwqStore
<1>13. ASSUME NEW a \in Actors, WqTake(a) PROVE ControlOK'
  BY <1>13 DEF WqTake, Goto, StoreWord
<1>14. ASSUME NEW a \in Actors, WqServe(a) PROVE ControlOK'
  BY <1>14 DEF WqServe, words
<1>15. ASSUME NEW a \in Actors, WqAgain(a) PROVE ControlOK'
  BY <1>15 DEF WqAgain, VwqLock, Goto, Sevl
<1>16. ASSUME NEW a \in Actors, PageUnlock(a) PROVE ControlOK'
  BY <1>16 DEF PageUnlock, Goto, StoreWord
<1>17. CASE UNCHANGED vars
  BY <1>17 DEF vars
<1> QED
  BY <1>1, <1>2, <1>3, <1>4, <1>5, <1>6, <1>7, <1>8, <1>9, <1>10, <1>11,
     <1>12, <1>13, <1>14, <1>15, <1>16, <1>17
     DEF Next, CpuStep, RxStep, WqStep

\* Every step keeps the types of the waitqueue and of the procs.
LEMMA ProcsStep ==
  ASSUME ControlOK, ProcsOK, [Next]_vars
  PROVE  ProcsOK'
<1> USE PageLockAssumption DEF ProcsOK, At
<1>1. CASE UNCHANGED procs
  BY <1>1 DEF procs
<1>2. CASE Receive
  BY <1>2 DEF Receive
<1>3. CASE ProcessDirect
  BY <1>3 DEF ProcessDirect
<1>4. CASE Enqueue
  BY <1>4 DEF Enqueue
<1>5. ASSUME NEW a \in Actors, WqTake(a) PROVE ProcsOK'
  BY <1>5 DEF WqTake
<1>6. ASSUME NEW a \in Actors, WqServe(a) PROVE ProcsOK'
  BY <1>6 DEF WqServe
<1>7. CASE UNCHANGED vars
  BY <1>7 DEF vars
<1> QED
  BY <1>1, <1>2, <1>3, <1>4, <1>5, <1>6, <1>7
     DEF Next, CpuStep, RxStep, WqStep, PageSpinlock, SpinLoad, SpinStore,
         WorkDone, TryLoad, TryStore, Wfe, VwqLoad, VwqStore, WqAgain,
         PageUnlock

LockParts == MutualExclusion /\ NoLostWakeup /\ MarkIsFresh

\* Every step keeps the lock words, the marks and the actors in agreement.
LEMMA LockStep ==
  ASSUME ControlOK, LockParts, [Next]_vars
  PROVE  LockParts'
<1> USE PageLockAssumption
    DEF ControlOK, Pcs, Actors, LockParts, MutualExclusion, NoLostWakeup,
        MarkIsFresh, Holds, HoldsWq, InVwqLock, At
<1>1. ASSUME NEW c \in Cpus, PageSpinlock(c) PROVE LockParts'
  BY <1>1 DEF PageSpinlock, Goto, Sevl
<1>2. ASSUME NEW c \in Cpus, SpinLoad(c) PROVE LockParts'
  BY <1>2 DEF SpinLoad, Goto, LoadExclusive
<1>3. ASSUME NEW c \in Cpus, SpinStore(c) PROVE LockParts'
  <2>1. CASE c \in mon /\ StoreWord(c, TRUE, wqlock) /\ Goto(c, "work")
    BY <1>3, <2>1 DEF SpinStore, Goto, StoreWord
  <2>2. CASE StoreFails(c) /\ Goto(c, "spin_load")
    BY <1>3, <2>2 DEF SpinStore, Goto, StoreFails
  <2> QED
    BY <1>3, <2>1, <2>2 DEF SpinStore
<1>4. ASSUME NEW c \in Cpus, WorkDone(c) PROVE LockParts'
  BY <1>4 DEF WorkDone, VwqLock, Goto, Sevl
<1>5. CASE Receive
  BY <1>5 DEF Receive, Goto, words
<1>6. CASE TryLoad
  BY <1>6 DEF TryLoad, VwqLock, Goto, Sevl, LoadExclusive
<1>7. CASE TryStore
  <2>1. CASE Rx \in mon /\ StoreWord(Rx, TRUE, wqlock) /\ Goto(Rx, "direct")
             /\ UNCHANGED ret
    BY <1>7, <2>1 DEF TryStore, Goto, StoreWord
  <2>2. CASE mon' = mon \ {Rx} /\ VwqLock(Rx, "enqueue") /\ Sevl(Rx)
             /\ UNCHANGED <<lock, wqlock>>
    BY <1>7, <2>2 DEF TryStore, VwqLock, Goto, Sevl
  <2> QED
    BY <1>7, <2>1, <2>2 DEF TryStore
<1>8. CASE ProcessDirect
  BY <1>8 DEF ProcessDirect, VwqLock, Goto, Sevl
<1>9. CASE Enqueue
  BY <1>9 DEF Enqueue, VwqLock, Goto
<1>10. ASSUME NEW a \in Actors, Wfe(a) PROVE LockParts'
  BY <1>10 DEF Wfe, Goto
<1>11. ASSUME NEW a \in Actors, VwqLoad(a) PROVE LockParts'
  BY <1>11 DEF VwqLoad, Goto, LoadExclusive
<1>12. ASSUME NEW a \in Actors, VwqStore(a) PROVE LockParts'
  <2>1. CASE a \in mon /\ StoreWord(a, TRUE, TRUE) /\ Goto(a, ret[a])
    BY <1>12, <2>1 DEF VwqStore, Goto, StoreWord
  <2>2. CASE StoreFails(a) /\ Goto(a, "vwq_load")
    BY <1>12, <2>2 DEF VwqStore, Goto, StoreFails
  <2> QED
    BY <1>12, <2>1, <2>2 DEF VwqStore
<1>13. ASSUME NEW a \in Actors, WqTake(a) PROVE LockParts'
  BY <1>13 DEF WqTake, Goto, StoreWord
<1>14. ASSUME NEW a \in Actors, WqServe(a) PROVE LockParts'
  BY <1>14 DEF WqServe, words
<1>15. ASSUME NEW a \in Actors, WqAgain(a) PROVE LockParts'
  BY <1>15 DEF WqAgain, VwqLock, Goto, Sevl
<1>16. ASSUME NEW a \in Actors, PageUnlock(a) PROVE LockParts'
  BY <1>16 DEF PageUnlock, Goto, StoreWord
<1>17. CASE UNCHANGED vars
  BY <1>17 DEF vars
<1> QED
  BY <1>1, <1>2, <1>3, <1>4, <1>5, <1>6, <1>7, <1>8, <1>9, <1>10, <1>11,
     <1>12, <1>13, <1>14, <1>15, <1>16, <1>17
     DEF Next, CpuStep, RxStep, WqStep

\* The inductive invariant holds in every reachable state, for any number of
\* cpus: exclusive loads and stores, vwq_lock's store of 0x0101 and the
\* unlocks keep lock words, marks and actors in agreement.
THEOREM LockInvHolds == Spec => []LockInv
<1>1. Init => LockInv
  <2> SUFFICES ASSUME Init PROVE LockInv
    OBVIOUS
  <2>1. ControlOK
    BY DEF Init, ControlOK, Pcs
  <2>2. ProcsOK
    BY PageLockAssumption DEF Init, ProcsOK
  <2>3. LockParts
    BY DEF Init, LockParts, MutualExclusion, NoLostWakeup, MarkIsFresh,
           Holds, HoldsWq, InVwqLock
  <2> QED
    BY <2>1, <2>2, <2>3, TypeSplit DEF LockInv, LockParts
<1>2. LockInv /\ [Next]_vars => LockInv'
  <2> SUFFICES ASSUME LockInv, [Next]_vars PROVE LockInv'
    OBVIOUS
  <2>1. ControlOK /\ ProcsOK /\ LockParts
    BY TypeSplit DEF LockInv, LockParts
  <2>2. ControlOK' /\ ProcsOK' /\ LockParts'
    BY <2>1, ControlStep, ProcsStep, LockStep
  <2>3. TypeOK'
    BY <2>2 DEF TypeOK, ControlOK, ProcsOK, Pcs
  <2> QED
    BY <2>2, <2>3 DEF LockInv, LockParts
<1> QED
  BY <1>1, <1>2, PTL DEF Spec

\* At most one actor works on the page (page_spinlock, page_trylock, vwq_lock)
\* and at most one on its waitqueue, for any number of cpus.
THEOREM MutualExclusionHolds == Spec => []MutualExclusion
<1>1. LockInv => MutualExclusion
  BY DEF LockInv
<1> QED
  BY <1>1, LockInvHolds, PTL

\* No cpu that sleeps in wfe misses the store that releases what it waits for.
THEOREM NoLostWakeupHolds == Spec => []NoLostWakeup
<1>1. LockInv => NoLostWakeup
  BY DEF LockInv
<1> QED
  BY <1>1, LockInvHolds, PTL

-----------------------------------------------------------------------------
(* The waitqueue: who can be where, and which procs are in it.             *)

\* which actor can be where
RolesOK ==
  /\ \A c \in Cpus : /\ pc[c] \notin {"try_load", "try_store", "direct", "enqueue"}
                     /\ ret[c] = "wq"
  /\ pc[Rx] \notin {"spin_load", "spin_wfe", "spin_store", "work"}
BatchOK == \A a \in Actors : batch[a] # <<>> => pc[a] = "serve"
\* an unlocked page has nobody waiting
NoneLeft == /\ ~lock => wq = <<>>
            /\ pc[Rx] = "direct" => wq = <<>>
            /\ pc[Rx] = "enqueue" => lock
\* the number of the last proc that reached the waitqueue or was served directly
LastIn == IF BeforeArrival \/ pc[Rx] \in {"direct", "enqueue"} THEN arrived - 1 ELSE arrived
\* procs taken off the waitqueue and not served yet
Taken == LastIn - Len(wq) - Len(served)
Numbered ==
  /\ \A i \in 1..Len(wq) : wq[i] = LastIn - Len(wq) + i
  /\ \A a \in Actors : batch[a] # <<>> =>
        /\ Len(batch[a]) = Taken
        /\ \A i \in 1..Len(batch[a]) : batch[a][i] = Len(served) + i
  /\ (\A a \in Actors : batch[a] = <<>>) => Taken = 0
  /\ LastIn \in Nat

\* A faulting cpu never runs the code of the message handler, nor the other
\* way round.
LEMMA RolesStep ==
  ASSUME ControlOK, RolesOK, [Next]_vars
  PROVE  RolesOK'
<1> USE PageLockAssumption DEF ControlOK, Pcs, Actors, RolesOK, At
<1>1. ASSUME NEW c \in Cpus, PageSpinlock(c) \/ SpinLoad(c) \/ SpinStore(c) PROVE RolesOK'
  BY <1>1 DEF PageSpinlock, SpinLoad, SpinStore, Goto
<1>2. ASSUME NEW c \in Cpus, WorkDone(c) PROVE RolesOK'
  BY <1>2 DEF WorkDone, VwqLock, Goto
<1>3. CASE Receive
  BY <1>3 DEF Receive, Goto
<1>4. CASE TryLoad \/ TryStore \/ ProcessDirect \/ Enqueue
  BY <1>4 DEF TryLoad, TryStore, ProcessDirect, Enqueue, VwqLock, Goto
<1>5. ASSUME NEW a \in Actors, Wfe(a) \/ VwqLoad(a) \/ VwqStore(a) PROVE RolesOK'
  BY <1>5 DEF Wfe, VwqLoad, VwqStore, Goto
<1>6. ASSUME NEW a \in Actors, WqTake(a) \/ WqServe(a) \/ PageUnlock(a) PROVE RolesOK'
  BY <1>6 DEF WqTake, WqServe, PageUnlock, Goto
<1>7. ASSUME NEW a \in Actors, WqAgain(a) PROVE RolesOK'
  BY <1>7 DEF WqAgain, VwqLock, Goto
<1>8. CASE UNCHANGED vars
  BY <1>8 DEF vars
<1> QED
  BY <1>1, <1>2, <1>3, <1>4, <1>5, <1>6, <1>7, <1>8
     DEF Next, CpuStep, RxStep, WqStep

\* procs sit in the batch of an actor only while it serves them, nobody waits
\* for an unlocked page, and the numbers have no gap
QueueParts == BatchOK /\ NoneLeft /\ Numbered

\* Steps that touch neither the procs nor the position of the last one.
LEMMA QueueKept ==
  ASSUME QueueParts, UNCHANGED <<wq, batch, served>>, LastIn' = LastIn,
         \A a \in Actors : batch[a] # <<>> => pc'[a] = pc[a],
         ~lock' => ~lock \/ wq = <<>>,
         pc'[Rx] = "direct" => wq = <<>>,
         pc'[Rx] = "enqueue" => lock'
  PROVE  QueueParts'
<1>1. BatchOK'
  BY DEF QueueParts, BatchOK
<1>2. NoneLeft'
  BY DEF QueueParts, NoneLeft
<1>3. Taken' = Taken
  BY DEF Taken
<1>4. Numbered'
  BY <1>3 DEF QueueParts, Numbered
<1> QED BY <1>1, <1>2, <1>4 DEF QueueParts

\* The holder of the page is the only one that can have taken procs.
LEMMA OthersEmpty ==
  ASSUME MutualExclusion, BatchOK, NEW a \in Actors, Holds(a)
  PROVE  \A b \in Actors : b # a => batch[b] = <<>>
BY DEF MutualExclusion, BatchOK, Holds

\* Every step keeps the numbering of the procs: vsm_enqueue_proc appends the
\* next number, vsm_process_waitqueue serves the numbers in order.
LEMMA QueueStep ==
  ASSUME ControlOK, ProcsOK, LockParts, RolesOK, QueueParts, [Next]_vars
  PROVE  QueueParts'
<1>0. /\ pc \in [Actors -> Pcs] /\ Rx \in Actors /\ Cpus \subseteq Actors
      /\ ret \in [Actors -> {"enqueue", "wq"}]
      /\ \A c \in Cpus : c # Rx
      /\ arrived \in Nat /\ Len(served) \in Nat /\ Len(wq) \in Nat
      /\ LastIn \in Nat /\ lock \in BOOLEAN
  BY PageLockAssumption DEF ControlOK, ProcsOK, Actors, QueueParts, Numbered
<1>1. ASSUME NEW c \in Cpus, PageSpinlock(c) \/ SpinLoad(c) \/ SpinStore(c) \/ WorkDone(c)
      PROVE  QueueParts'
  <2>1. /\ pc[c] \in {"idle", "spin_load", "spin_store", "work"} /\ UNCHANGED procs
        /\ pc'[Rx] = pc[Rx] /\ ret'[Rx] = ret[Rx] /\ (~lock' => ~lock)
        /\ \A a \in Actors : a # c => pc'[a] = pc[a]
    BY <1>0, <1>1 DEF PageSpinlock, SpinLoad, SpinStore, WorkDone, At, Goto, StoreWord, StoreFails, VwqLock
  <2>2. LastIn' = LastIn
    BY <2>1 DEF LastIn, BeforeArrival, InVwqLock, procs
  <2> QED BY <2>1, <2>2, QueueKept DEF QueueParts, BatchOK, NoneLeft, procs
<1>2. CASE Receive
  <2>1. /\ pc[Rx] = "idle" /\ pc'[Rx] = "try_load" /\ arrived' = arrived + 1
        /\ UNCHANGED <<lock, wq, batch, served>>
        /\ \A a \in Actors : a # Rx => pc'[a] = pc[a]
    BY <1>0, <1>2 DEF Receive, At, Goto, words
  <2>2. LastIn' = LastIn
    BY <1>0, <2>1 DEF LastIn, BeforeArrival, InVwqLock
  <2> QED BY <2>1, <2>2, QueueKept DEF QueueParts, BatchOK
<1>3. CASE TryLoad
  <2>1. /\ pc[Rx] = "try_load" /\ UNCHANGED <<lock, procs>>
        /\ \/ pc'[Rx] = "try_store"
           \/ pc'[Rx] = "vwq_load" /\ ret'[Rx] = "enqueue"
        /\ \A a \in Actors : a # Rx => pc'[a] = pc[a]
    BY <1>0, <1>3 DEF TryLoad, At, Goto, VwqLock
  <2>2. LastIn' = LastIn
    BY <2>1 DEF LastIn, BeforeArrival, InVwqLock, procs
  <2> QED BY <2>1, <2>2, QueueKept DEF QueueParts, BatchOK, procs
<1>4. CASE TryStore
  <2>1. /\ pc[Rx] = "try_store" /\ UNCHANGED procs
        /\ \/ pc'[Rx] = "direct" /\ Rx \in mon /\ lock'
           \/ pc'[Rx] = "vwq_load" /\ ret'[Rx] = "enqueue" /\ lock' = lock
        /\ \A a \in Actors : a # Rx => pc'[a] = pc[a]
    BY <1>0, <1>4 DEF TryStore, At, Goto, VwqLock, StoreWord
  <2>2. LastIn' = LastIn
    BY <2>1 DEF LastIn, BeforeArrival, InVwqLock, procs
  <2>3. pc'[Rx] = "direct" => wq = <<>>
    BY <2>1 DEF LockParts, MarkIsFresh, QueueParts, NoneLeft
  <2> QED BY <2>1, <2>2, <2>3, QueueKept DEF QueueParts, BatchOK, procs
<1>5. ASSUME NEW a \in Actors, Wfe(a) \/ VwqLoad(a) \/ VwqStore(a) PROVE QueueParts'
  <2>1. /\ pc[a] \in {"spin_wfe", "vwq_wfe", "vwq_load", "vwq_store"}
        /\ UNCHANGED <<procs, ret>>
        /\ (~lock' => ~lock)
        /\ \A b \in Actors : b # a => pc'[b] = pc[b]
    BY <1>0, <1>5 DEF Wfe, VwqLoad, VwqStore, At, Goto, StoreWord, StoreFails
  <2>2. CASE a # Rx
    <3>1. pc'[Rx] = pc[Rx] /\ LastIn' = LastIn
      BY <1>0, <2>1, <2>2 DEF LastIn, BeforeArrival, InVwqLock, procs
    <3> QED BY <2>1, <2>2, <3>1, QueueKept DEF QueueParts, BatchOK, NoneLeft, procs
  <2>3. CASE a = Rx
    <3>1. /\ InVwqLock(Rx)
          /\ \/ pc'[Rx] \in {"vwq_load", "vwq_wfe", "vwq_store"}
             \/ pc'[Rx] = ret[Rx] /\ lock'
      BY <1>0, <1>5, <2>3 DEF Wfe, VwqLoad, VwqStore, At, Goto, StoreWord, RolesOK, InVwqLock
    <3>2. LastIn' = LastIn
      BY <1>0, <2>1, <3>1 DEF LastIn, BeforeArrival, InVwqLock, procs
    <3>3. pc'[Rx] # "direct" /\ (pc'[Rx] = "enqueue" => lock')
      BY <1>0, <3>1
    <3> QED BY <2>1, <2>3, <3>2, <3>3, QueueKept DEF QueueParts, BatchOK, procs
  <2> QED BY <2>2, <2>3
<1>6. ASSUME NEW a \in Actors, WqAgain(a) PROVE QueueParts'
  <2>1. /\ pc[a] = "serve" /\ batch[a] = <<>> /\ UNCHANGED <<procs, lock>>
        /\ pc'[a] = "vwq_load" /\ ret'[a] = "wq"
        /\ \A b \in Actors : b # a => pc'[b] = pc[b] /\ ret'[b] = ret[b]
    BY <1>0, <1>6 DEF WqAgain, At, Goto, VwqLock
  <2>2. LastIn' = LastIn
    BY <1>0, <2>1 DEF LastIn, BeforeArrival, InVwqLock, procs
  <2> QED BY <1>0, <2>1, <2>2, QueueKept DEF QueueParts, BatchOK, NoneLeft, procs
<1>7. ASSUME NEW a \in Actors, PageUnlock(a) PROVE QueueParts'
  <2>1. /\ pc[a] = "wq" /\ wq = <<>> /\ UNCHANGED <<procs, ret>>
        /\ pc'[a] = "idle"
        /\ \A b \in Actors : b # a => pc'[b] = pc[b]
    BY <1>0, <1>7 DEF PageUnlock, At, Goto
  <2>2. LastIn' = LastIn
    BY <1>0, <2>1 DEF LastIn, BeforeArrival, InVwqLock, procs
  <2>3. pc[Rx] # "enqueue"
    BY <1>0, <2>1 DEF LockParts, MutualExclusion, HoldsWq
  <2> QED BY <1>0, <2>1, <2>2, <2>3, QueueKept DEF QueueParts, BatchOK, procs
<1>8. CASE ProcessDirect
  <2>1. /\ pc[Rx] = "direct" /\ pc'[Rx] = "vwq_load" /\ ret'[Rx] = "wq"
        /\ UNCHANGED <<lock, wq, batch, arrived>>
        /\ served' = Append(served, arrived)
        /\ \A b \in Actors : b # Rx => pc'[b] = pc[b]
    BY <1>0, <1>8 DEF ProcessDirect, At, Goto, VwqLock
  <2>2. \A b \in Actors : batch[b] = <<>>
    BY <1>0, <2>1, OthersEmpty DEF Holds, LockParts, QueueParts, BatchOK
  <2>3. LastIn = arrived - 1 /\ LastIn' = arrived /\ wq = <<>>
    BY <2>1 DEF LastIn, BeforeArrival, InVwqLock, QueueParts, NoneLeft
  <2>4. Taken = 0 /\ Len(served') = Len(served) + 1
    BY <2>1, <2>2 DEF QueueParts, Numbered, ProcsOK
  <2>5. Taken' = 0
    BY <1>0, <2>1, <2>3, <2>4 DEF Taken
  <2>6. Numbered'
    BY <1>0, <2>1, <2>2, <2>3, <2>5 DEF Numbered
  <2> QED BY <2>1, <2>2, <2>3, <2>6 DEF QueueParts, BatchOK, NoneLeft
<1>9. CASE Enqueue
  <2>1. /\ pc[Rx] = "enqueue" /\ wq' = Append(wq, arrived)
        /\ \/ pc'[Rx] = "idle"
           \/ pc'[Rx] = "vwq_load" /\ ret'[Rx] = "wq"
        /\ UNCHANGED <<lock, batch, arrived, served>>
        /\ \A b \in Actors : b # Rx => pc'[b] = pc[b]
    BY <1>0, <1>9 DEF Enqueue, At, Goto, VwqLock, ControlOK
  <2>2. LastIn = arrived - 1 /\ LastIn' = arrived /\ lock
    BY <2>1 DEF LastIn, BeforeArrival, InVwqLock, QueueParts, NoneLeft
  <2>3. /\ Len(wq') = Len(wq) + 1
        /\ \A i \in 1..Len(wq') : wq'[i] = IF i = Len(wq) + 1 THEN arrived ELSE wq[i]
    BY <2>1 DEF ProcsOK
  <2>4. Taken' = Taken
    BY <1>0, <2>1, <2>2, <2>3 DEF Taken
  <2>5. \A i \in 1..Len(wq') : wq'[i] = LastIn' - Len(wq') + i
    <3> SUFFICES ASSUME NEW i \in 1..Len(wq') PROVE wq'[i] = LastIn' - Len(wq') + i
      OBVIOUS
    <3>1. CASE i = Len(wq) + 1
      BY <1>0, <2>2, <2>3, <3>1
    <3>2. CASE i # Len(wq) + 1
      <4>1. i \in 1..Len(wq)
        BY <1>0, <2>3, <3>2
      <4>2. wq[i] = LastIn - Len(wq) + i
        BY <4>1 DEF QueueParts, Numbered
      <4> QED BY <1>0, <2>2, <2>3, <3>2, <4>2
    <3> QED BY <3>1, <3>2
  <2>6. Numbered'
    BY <1>0, <2>1, <2>2, <2>4, <2>5 DEF Numbered, QueueParts
  <2> QED BY <1>0, <2>1, <2>2, <2>6 DEF QueueParts, BatchOK, NoneLeft
<1>10. ASSUME NEW a \in Actors, WqTake(a) PROVE QueueParts'
  <2>1. /\ pc[a] = "wq" /\ pc'[a] = "serve" /\ wq # <<>> /\ wq' = <<>>
        /\ UNCHANGED <<lock, ret, arrived, served>>
        /\ batch' = [batch EXCEPT ![a] = wq]
        /\ \A b \in Actors : b # a => pc'[b] = pc[b]
    BY <1>0, <1>10 DEF WqTake, At, Goto, StoreWord
  <2>2. \A b \in Actors : batch[b] = <<>>
    BY <1>0, <2>1, OthersEmpty DEF Holds, LockParts, QueueParts, BatchOK
  <2>3. batch'[a] = wq /\ \A b \in Actors : b # a => batch'[b] = <<>>
    BY <2>1, <2>2 DEF ProcsOK
  <2>4. LastIn' = LastIn
    BY <1>0, <2>1 DEF LastIn, BeforeArrival, InVwqLock
  <2>5. Taken = 0 /\ Len(wq') = 0
    BY <2>1, <2>2 DEF QueueParts, Numbered
  <2>6. Taken' = Len(wq) /\ LastIn - Len(wq) = Len(served)
    BY <1>0, <2>1, <2>4, <2>5 DEF Taken
  <2>7. \A i \in 1..Len(wq) : wq[i] = Len(served) + i
    BY <1>0, <2>6 DEF QueueParts, Numbered
  <2>8. Numbered'
    BY <1>0, <2>1, <2>3, <2>4, <2>5, <2>6, <2>7 DEF Numbered
  <2>9. NoneLeft' /\ BatchOK'
    BY <1>0, <2>1, <2>3 DEF QueueParts, BatchOK, NoneLeft
  <2> QED BY <2>8, <2>9 DEF QueueParts
<1>11. ASSUME NEW a \in Actors, WqServe(a) PROVE QueueParts'
  <2>1. /\ pc[a] = "serve" /\ batch[a] # <<>>
        /\ UNCHANGED <<lock, pc, ret, arrived, wq>>
        /\ served' = Append(served, Head(batch[a]))
        /\ batch' = [batch EXCEPT ![a] = Tail(@)]
    BY <1>0, <1>11 DEF WqServe, At, words
  <2>2. \A b \in Actors : b # a => batch[b] = <<>>
    BY <1>0, <2>1, OthersEmpty DEF Holds, LockParts, QueueParts
  <2>3. batch'[a] = Tail(batch[a]) /\ \A b \in Actors : b # a => batch'[b] = <<>>
    BY <2>1, <2>2 DEF ProcsOK
  <2>4. LastIn' = LastIn
    BY <2>1 DEF LastIn, BeforeArrival, InVwqLock
  <2>5. batch[a] \in Seq(Nat) /\ served \in Seq(Nat)
    BY DEF ProcsOK
  <2>6. /\ Len(served') = Len(served) + 1
        /\ Len(batch[a]) \in Nat \ {0}
        /\ Len(batch'[a]) = Len(batch[a]) - 1
        /\ \A i \in 1..Len(batch'[a]) : batch'[a][i] = batch[a][i + 1]
    <3>1. Len(batch[a]) \in Nat \ {0} /\ Head(batch[a]) \in Nat
      BY <2>1, <2>5
    <3>2. Len(served') = Len(served) + 1
      BY <2>1, <2>5, <3>1
    <3>3. /\ Len(Tail(batch[a])) = Len(batch[a]) - 1
          /\ \A i \in 1..Len(Tail(batch[a])) : Tail(batch[a])[i] = batch[a][i + 1]
      BY <2>1, <2>5
    <3> QED BY <2>3, <3>1, <3>2, <3>3
  <2>7. Len(batch[a]) = Taken /\ \A i \in 1..Len(batch[a]) : batch[a][i] = Len(served) + i
    BY <2>1 DEF QueueParts, Numbered
  <2>8. Taken' = Taken - 1
    BY <1>0, <2>1, <2>4, <2>6 DEF Taken
  <2>9. \A i \in 1..Len(batch'[a]) : batch'[a][i] = Len(served') + i
    <3> SUFFICES ASSUME NEW i \in 1..Len(batch'[a]) PROVE batch'[a][i] = Len(served') + i
      OBVIOUS
    <3>1. i + 1 \in 1..Len(batch[a])
      BY <2>6
    <3> QED BY <1>0, <2>6, <2>7, <3>1
  <2>10. batch'[a] = <<>> => Taken' = 0
    BY <2>6, <2>7, <2>8
  <2>11. /\ \A b \in Actors : batch'[b] # <<>> =>
              Len(batch'[b]) = Taken' /\ \A i \in 1..Len(batch'[b]) : batch'[b][i] = Len(served') + i
    BY <2>3, <2>6, <2>7, <2>8, <2>9
  <2>12. Numbered'
    BY <1>0, <2>1, <2>4, <2>10, <2>11 DEF Numbered, QueueParts
  <2>13. NoneLeft' /\ BatchOK'
    BY <1>0, <2>1, <2>3 DEF QueueParts, BatchOK, NoneLeft
  <2> QED BY <2>12, <2>13 DEF QueueParts
<1>12. CASE UNCHANGED vars
  <2>1. UNCHANGED <<wq, batch, served, pc, lock>> /\ LastIn' = LastIn
    BY <1>12 DEF vars, LastIn, BeforeArrival, InVwqLock
  <2> QED BY <2>1, QueueKept DEF QueueParts, NoneLeft
<1> QED
  BY <1>1, <1>2, <1>3, <1>4, <1>5, <1>6, <1>7, <1>8, <1>9, <1>10, <1>11, <1>12
     DEF Next, CpuStep, RxStep, WqStep

-----------------------------------------------------------------------------
(* The procs waiting are always an interval of arrival numbers.            *)

AbsHolder ==
  IF \E a \in Actors : Holds(a) THEN CHOOSE a \in Actors : Holds(a) ELSE Free
InHand == IF pc[Rx] = "direct" THEN <<arrived>> ELSE <<>>
InBatch == IF \E a \in Actors : batch[a] # <<>>
             THEN batch[CHOOSE a \in Actors : batch[a] # <<>>] ELSE <<>>
Linking == IF pc[Rx] = "enqueue" THEN <<arrived>> ELSE <<>>
AbsQueue == InHand \o InBatch \o wq \o Linking
AbsArrived == IF BeforeArrival THEN arrived - 1 ELSE arrived
AbsVars == <<AbsHolder, AbsQueue, AbsArrived, Len(served)>>

Interval(k, n) == [i \in 1..(n - k) |-> k + i]

\* A sequence of consecutive numbers is an interval.
LEMMA IntervalIs ==
  ASSUME NEW k \in Nat, NEW n \in Nat, NEW s \in Seq(Nat), Len(s) = n - k,
         \A i \in 1..Len(s) : s[i] = k + i
  PROVE  s = Interval(k, n)
<1>1. s = [i \in 1..Len(s) |-> s[i]]
  BY LenProperties
<1> QED BY <1>1 DEF Interval

\* Length and elements of an interval.
LEMMA IntervalFacts ==
  ASSUME NEW k \in Nat, NEW n \in Nat, k =< n
  PROVE  /\ Interval(k, n) \in Seq(Nat)
         /\ Len(Interval(k, n)) = n - k
         /\ \A i \in 1..(n - k) : Interval(k, n)[i] = k + i
<1>1. n - k \in Nat
  OBVIOUS
<1>2. \A i \in 1..(n - k) : k + i \in Nat
  OBVIOUS
<1> QED BY <1>1, <1>2 DEF Interval

\* Adjacent intervals concatenate.
LEMMA IntervalCat ==
  ASSUME NEW k \in Nat, NEW m \in Nat, NEW n \in Nat, k =< m, m =< n
  PROVE  Interval(k, m) \o Interval(m, n) = Interval(k, n)
<1> DEFINE r == Interval(k, m) s == Interval(m, n)
<1>1. /\ r \in Seq(Nat) /\ Len(r) = m - k /\ \A i \in 1..(m - k) : r[i] = k + i
  BY IntervalFacts
<1>2. /\ s \in Seq(Nat) /\ Len(s) = n - m /\ \A i \in 1..(n - m) : s[i] = m + i
  BY IntervalFacts
<1> HIDE DEF r, s
<1>3. r \o s \in Seq(Nat) /\ Len(r \o s) = n - k
  <2>1. r \o s \in Seq(Nat) /\ Len(r \o s) = Len(r) + Len(s)
    BY <1>1, <1>2, ConcatProperties
  <2> QED BY <1>1, <1>2, <2>1
<1>4. ASSUME NEW i \in 1..Len(r \o s) PROVE (r \o s)[i] = k + i
  <2>1. CASE i =< m - k
    BY <1>1, <1>2, <1>3, <2>1
  <2>2. CASE i > m - k
    <3>1. (r \o s)[i] = s[i - (m - k)] /\ i - (m - k) \in 1..(n - m)
      BY <1>1, <1>2, <1>3, <2>2
    <3> QED BY <1>2, <1>3, <3>1
  <2> QED BY <1>3, <2>1, <2>2
<1>5. r \o s = Interval(k, n)
  BY <1>3, <1>4, IntervalIs
<1> QED BY <1>5 DEF r, s

\* Adding a proc at the end of an interval and taking one off its front.
LEMMA IntervalEnds ==
  ASSUME NEW k \in Nat, NEW n \in Nat, k =< n
  PROVE  /\ Interval(n, n) = <<>>
         /\ Interval(n, n + 1) = <<n + 1>>
         /\ Append(Interval(k, n), n + 1) = Interval(k, n + 1)
         /\ k < n => /\ Interval(k, n) # <<>>
                     /\ Head(Interval(k, n)) = k + 1
                     /\ Tail(Interval(k, n)) = Interval(k + 1, n)
<1>1. Interval(n, n) = <<>>
  <2>1. <<>> \in Seq(Nat) /\ Len(<<>>) = 0
    OBVIOUS
  <2>2. \A i \in 1..Len(<<>>) : <<>>[i] = n + i
    BY <2>1
  <2>3. Len(<<>>) = n - n
    BY <2>1
  <2> QED BY <2>1, <2>2, <2>3, IntervalIs
<1>2. Interval(n, n + 1) = <<n + 1>>
  <2>1. <<n + 1>> \in Seq(Nat) /\ Len(<<n + 1>>) = 1 /\ <<n + 1>>[1] = n + 1
    OBVIOUS
  <2>2. \A i \in 1..Len(<<n + 1>>) : <<n + 1>>[i] = n + i
    BY <2>1
  <2>3. n + 1 \in Nat /\ (n + 1) - n = 1
    OBVIOUS
  <2> QED BY <2>1, <2>2, <2>3, IntervalIs
<1>3. Append(Interval(k, n), n + 1) = Interval(k, n + 1)
  <2> DEFINE r == Interval(k, n) s == Append(r, n + 1)
  <2>1. /\ r \in Seq(Nat) /\ Len(r) = n - k /\ \A i \in 1..(n - k) : r[i] = k + i
    BY IntervalFacts
  <2> HIDE DEF r
  <2>2. s \in Seq(Nat) /\ Len(s) = (n + 1) - k
    BY <2>1
  <2>3. ASSUME NEW i \in 1..Len(s) PROVE s[i] = k + i
    BY <2>1, <2>2
  <2> HIDE DEF s
  <2>4. s = Interval(k, n + 1)
    BY <2>2, <2>3, IntervalIs
  <2> QED BY <2>4 DEF s, r
<1>4. ASSUME k < n
      PROVE  /\ Interval(k, n) # <<>>
             /\ Head(Interval(k, n)) = k + 1
             /\ Tail(Interval(k, n)) = Interval(k + 1, n)
  <2> DEFINE r == Interval(k, n) s == Tail(r)
  <2>1. /\ r \in Seq(Nat) /\ Len(r) = n - k /\ \A i \in 1..(n - k) : r[i] = k + i
    BY IntervalFacts
  <2> HIDE DEF r
  <2>2. r # <<>> /\ Head(r) = k + 1
    BY <1>4, <2>1
  <2>3. s \in Seq(Nat) /\ Len(s) = n - (k + 1) /\ \A i \in 1..Len(s) : s[i] = r[i + 1]
    BY <1>4, <2>1, <2>2
  <2>4. ASSUME NEW i \in 1..Len(s) PROVE s[i] = (k + 1) + i
    <3>1. i + 1 \in 1..(n - k)
      BY <2>3
    <3> QED BY <2>1, <2>3, <3>1
  <2> HIDE DEF s
  <2>5. s = Interval(k + 1, n)
    BY <2>3, <2>4, IntervalIs
  <2> QED BY <2>2, <2>5 DEF s, r
<1> QED BY <1>1, <1>2, <1>3, <1>4

-----------------------------------------------------------------------------
(* The refinement of PageMonitor.                                          *)

\* What the abstract state is, in terms of who holds the page and of the counters.
HolderIs ==
  /\ \A a \in Actors : Holds(a) => AbsHolder = a
  /\ (\A a \in Actors : ~Holds(a)) => AbsHolder = Free

QueueIs ==
  /\ AbsQueue = Interval(Len(served), AbsArrived)
  /\ AbsArrived \in Nat /\ Len(served) \in Nat /\ Len(served) =< AbsArrived

\* The abstract holder is the actor that holds the page.
LEMMA HolderKnown == MutualExclusion => HolderIs
BY DEF MutualExclusion, HolderIs, AbsHolder

\* The batch is the interval of the procs that were taken and not served.
LEMMA BatchKnown ==
  ASSUME ProcsOK, MutualExclusion, BatchOK, Numbered
  PROVE  /\ Taken \in Nat /\ LastIn \in Nat /\ Len(served) \in Nat /\ Len(wq) \in Nat
         /\ InBatch = Interval(Len(served), Len(served) + Taken)
         /\ (InBatch = <<>>) <=> (\A a \in Actors : batch[a] = <<>>)
<1>1. LastIn \in Nat /\ Len(served) \in Nat /\ Len(wq) \in Nat
  BY DEF ProcsOK, Numbered
<1>2. CASE \A a \in Actors : batch[a] = <<>>
  <2>1. InBatch = <<>> /\ Taken = 0
    BY <1>2 DEF InBatch, Numbered
  <2> QED BY <1>1, <1>2, <2>1, IntervalEnds
<1>3. CASE \E a \in Actors : batch[a] # <<>>
  <2> DEFINE a == CHOOSE a \in Actors : batch[a] # <<>>
  <2>1. a \in Actors /\ batch[a] # <<>> /\ InBatch = batch[a]
    BY <1>3 DEF InBatch
  <2> HIDE DEF a
  <2>2. batch[a] \in Seq(Nat) /\ Len(batch[a]) = Taken
        /\ \A i \in 1..Len(batch[a]) : batch[a][i] = Len(served) + i
    BY <2>1 DEF ProcsOK, Numbered
  <2>3. Taken \in Nat
    BY <2>2
  <2>4. Len(served) + Taken \in Nat /\ Taken = (Len(served) + Taken) - Len(served)
    BY <1>1, <2>3
  <2>5. batch[a] = Interval(Len(served), Len(served) + Taken)
    BY <1>1, <2>2, <2>4, IntervalIs
  <2> QED BY <1>1, <1>3, <2>1, <2>3, <2>5
<1> QED BY <1>2, <1>3

\* The abstract queue (proc in hand, batch, waitqueue, proc being linked) is
\* the interval of the procs that arrived and were not served.
LEMMA QueueKnown ==
  ASSUME ControlOK, ProcsOK, MutualExclusion, QueueParts
  PROVE  QueueIs
<1> DEFINE s == Len(served) L == LastIn
<1>1. /\ Taken \in Nat /\ L \in Nat /\ s \in Nat /\ Len(wq) \in Nat
      /\ InBatch = Interval(s, s + Taken)
      /\ (InBatch = <<>>) <=> (\A a \in Actors : batch[a] = <<>>)
  BY BatchKnown DEF QueueParts
<1>2. L = s + Taken + Len(wq) /\ L - Len(wq) = s + Taken
  BY <1>1 DEF Taken
<1>3. wq = Interval(s + Taken, L)
  <2>1. wq \in Seq(Nat) /\ \A i \in 1..Len(wq) : wq[i] = (s + Taken) + i
    BY <1>1, <1>2 DEF ProcsOK, QueueParts, Numbered
  <2>2. s + Taken \in Nat /\ Len(wq) = L - (s + Taken)
    BY <1>1, <1>2
  <2> QED BY <1>1, <2>1, <2>2, IntervalIs
<1>4. s =< s + Taken /\ s + Taken =< L /\ s =< L /\ s + Taken \in Nat
  BY <1>1, <1>2
<1>5. arrived \in Nat /\ Rx \in Actors
  BY PageLockAssumption DEF ProcsOK, Actors
<1>6. CASE pc[Rx] = "direct"
  <2>1. \A a \in Actors : batch[a] = <<>>
    BY <1>5, <1>6, OthersEmpty DEF QueueParts, BatchOK, Holds
  <2>2. InBatch = <<>> /\ wq = <<>> /\ Taken = 0
    BY <1>1, <1>6, <2>1 DEF QueueParts, NoneLeft, Numbered
  <2>3. L = arrived - 1 /\ AbsArrived = arrived /\ Len(wq) = 0
    BY <1>6, <2>2 DEF LastIn, AbsArrived, BeforeArrival, InVwqLock
  <2>4. s + 1 = arrived
    BY <1>1, <1>2, <1>5, <2>2, <2>3
  <2>5. InHand = <<arrived>> /\ Linking = <<>>
    BY <1>6 DEF InHand, Linking
  <2>6. <<arrived>> \in Seq(Nat)
    BY <1>5
  <2>7. AbsQueue = <<arrived>>
    BY <2>2, <2>5, <2>6, ConcatEmptySeq DEF AbsQueue
  <2>8. Interval(s, s + 1) = <<s + 1>> /\ s =< s + 1
    BY <1>1, IntervalEnds
  <2> QED BY <1>1, <1>5, <2>3, <2>4, <2>7, <2>8 DEF QueueIs
<1>7. CASE pc[Rx] # "direct"
  <2>1. InHand = <<>>
    BY <1>7 DEF InHand
  <2>2. <<>> \o InBatch = InBatch
    <3>1. InBatch \in Seq(Nat)
      BY <1>1, <1>4, IntervalFacts
    <3> QED BY <3>1, ConcatEmptySeq
  <2>3. InBatch \o wq = Interval(s, L)
    BY <1>1, <1>3, <1>4, IntervalCat
  <2>4. AbsQueue = Interval(s, L) \o Linking
    BY <2>1, <2>2, <2>3 DEF AbsQueue
  <2>5. CASE pc[Rx] = "enqueue"
    <3>1. L = arrived - 1 /\ AbsArrived = arrived /\ Linking = <<arrived>>
      BY <2>5 DEF LastIn, AbsArrived, BeforeArrival, InVwqLock, Linking
    <3>2. L + 1 = arrived
      BY <1>1, <1>5, <3>1
    <3>3. Linking = Interval(L, arrived)
      BY <1>1, <3>1, <3>2, IntervalEnds
    <3>4. L =< arrived
      BY <1>1, <3>2
    <3>5. AbsQueue = Interval(s, arrived)
      BY <1>1, <1>4, <1>5, <2>4, <3>3, <3>4, IntervalCat
    <3>6. s =< arrived
      BY <1>1, <1>4, <3>2
    <3> QED BY <1>1, <1>5, <3>1, <3>5, <3>6 DEF QueueIs
  <2>6. CASE pc[Rx] # "enqueue"
    <3>1. L = AbsArrived /\ Linking = <<>>
      BY <1>7, <2>6 DEF LastIn, AbsArrived, BeforeArrival, InVwqLock, Linking
    <3>2. Interval(s, L) \in Seq(Nat)
      BY <1>1, <1>4, IntervalFacts
    <3>3. AbsQueue = Interval(s, L)
      BY <2>4, <3>1, <3>2, ConcatEmptySeq
    <3> QED BY <1>1, <1>4, <3>1, <3>3 DEF QueueIs
  <2> QED BY <2>5, <2>6
<1> QED BY <1>6, <1>7

\* Steps that change neither holder nor counters are stuttering steps.
LEMMA StutterIs ==
  ASSUME HolderIs, HolderIs', QueueIs, QueueIs',
         \A a \in Actors : Holds(a)' <=> Holds(a),
         Len(served)' = Len(served), AbsArrived' = AbsArrived
  PROVE  UNCHANGED AbsVars
<1>1. AbsQueue' = AbsQueue
  BY DEF QueueIs
<1>2. AbsHolder' = AbsHolder
  BY DEF HolderIs
<1> QED BY <1>1, <1>2 DEF AbsVars

\* A cpu that starts to hold a free page: Acquire.
LEMMA AcquireIs ==
  ASSUME HolderIs, HolderIs', QueueIs, QueueIs',
         NEW c \in Cpus, \A a \in Actors : ~Holds(a), Holds(c)',
         Len(served)' = Len(served), AbsArrived' = AbsArrived
  PROVE  Monitor!Next
<1>1. AbsQueue' = AbsQueue
  BY DEF QueueIs
<1>2. AbsHolder = Free /\ AbsHolder' = c
  BY DEF HolderIs, Actors
<1> QED
  BY <1>1, <1>2 DEF Monitor!Next, Monitor!Acquire, AbsHolder, AbsQueue, InHand,
     InBatch, Linking, AbsArrived

\* A proc that reaches the page or its waitqueue: Arrive.
LEMMA ArriveIs ==
  ASSUME HolderIs, HolderIs', QueueIs, QueueIs', AbsArrived < MaxProcs,
         \/ (\A a \in Actors : ~Holds(a)) /\ Holds(Rx)'
         \/ \E a \in Actors : Holds(a) /\ Holds(a)',
         Len(served)' = Len(served), AbsArrived' = AbsArrived + 1
  PROVE  Monitor!Next
<1>1. AbsQueue' = Append(AbsQueue, AbsArrived + 1)
  <2>1. PICK k \in Nat, n \in Nat : k = Len(served) /\ n = AbsArrived /\ k =< n
    BY DEF QueueIs
  <2>2. AbsQueue = Interval(k, n) /\ AbsQueue' = Interval(k, n + 1)
    BY <2>1 DEF QueueIs
  <2>3. Append(Interval(k, n), n + 1) = Interval(k, n + 1)
    BY <2>1, IntervalEnds
  <2> QED BY <2>1, <2>2, <2>3
<1>2. AbsHolder' = IF AbsHolder = Free THEN Rx ELSE AbsHolder
  BY PageLockAssumption DEF HolderIs, Actors
<1> QED
  BY <1>1, <1>2 DEF Monitor!Next, Monitor!Arrive, AbsHolder, AbsQueue, InHand,
     InBatch, Linking, AbsArrived

\* do_process of the next proc by the holder: Serve.
LEMMA ServeIs ==
  ASSUME HolderIs, HolderIs', QueueIs, QueueIs',
         NEW a \in Actors, Holds(a), Holds(a)',
         Len(served)' = Len(served) + 1, AbsArrived' = AbsArrived
  PROVE  Monitor!Next
<1>1. Len(served) < AbsArrived
  BY DEF QueueIs
<1>2. /\ AbsQueue # <<>> /\ Head(AbsQueue) = Len(served) + 1
      /\ AbsQueue' = Tail(AbsQueue)
  <2>1. PICK k \in Nat, n \in Nat : k = Len(served) /\ n = AbsArrived /\ k < n
    BY <1>1 DEF QueueIs
  <2>2. AbsQueue = Interval(k, n) /\ AbsQueue' = Interval(k + 1, n)
    BY <2>1 DEF QueueIs
  <2>3. /\ Interval(k, n) # <<>> /\ Head(Interval(k, n)) = k + 1
        /\ Tail(Interval(k, n)) = Interval(k + 1, n)
    BY <2>1, IntervalEnds
  <2> QED BY <2>1, <2>2, <2>3
<1>3. AbsHolder' = AbsHolder /\ AbsHolder # Free
  BY PageLockAssumption DEF HolderIs, Actors
<1> QED
  BY <1>2, <1>3 DEF Monitor!Next, Monitor!Serve, AbsHolder, AbsQueue, InHand,
     InBatch, Linking, AbsArrived

\* Unlocking with every proc served: Release.
LEMMA ReleaseIs ==
  ASSUME HolderIs, HolderIs', QueueIs, QueueIs',
         NEW a \in Actors, Holds(a), \A b \in Actors : ~Holds(b)',
         Len(served) = AbsArrived,
         Len(served)' = Len(served), AbsArrived' = AbsArrived
  PROVE  Monitor!Next
<1>1. AbsQueue' = AbsQueue /\ AbsQueue = <<>>
  BY IntervalEnds DEF QueueIs
<1>2. AbsHolder' = Free /\ AbsHolder # Free
  BY PageLockAssumption DEF HolderIs, Actors
<1> QED
  BY <1>1, <1>2 DEF Monitor!Next, Monitor!Release, AbsHolder, AbsQueue, InHand,
     InBatch, Linking, AbsArrived

\* Every step of the lock and of the waitqueue is a step of the page monitor.
LEMMA MonitorStep ==
  ASSUME ControlOK, ProcsOK, LockParts, RolesOK, QueueParts,
         HolderIs, HolderIs', QueueIs, QueueIs', [Next]_vars
  PROVE  Monitor!Next \/ UNCHANGED AbsVars
<1> DEFINE G == Monitor!Next \/ UNCHANGED AbsVars
<1> HIDE DEF G
<1>0. /\ pc \in [Actors -> Pcs] /\ Rx \in Actors /\ Cpus \subseteq Actors
      /\ ret \in [Actors -> {"enqueue", "wq"}] /\ saw \in [Actors -> BOOLEAN]
      /\ \A c \in Cpus : c # Rx
      /\ arrived \in 0..MaxProcs /\ MaxProcs \in Nat /\ Len(served) \in Nat
      /\ lock \in BOOLEAN
  BY PageLockAssumption DEF ControlOK, ProcsOK, Actors
<1>01. ASSUME \A a \in Actors : Holds(a)' <=> Holds(a), served' = served,
              AbsArrived' = AbsArrived
       PROVE  G
  BY <1>01, StutterIs DEF G
<1>02. ASSUME ~lock PROVE \A a \in Actors : ~Holds(a)
  BY <1>02 DEF LockParts, MutualExclusion
<1>1. ASSUME NEW c \in Cpus, PageSpinlock(c) \/ SpinLoad(c) \/ WorkDone(c) PROVE G
  <2>1. /\ c \in Actors /\ c # Rx
        /\ \/ pc[c] \in {"idle", "spin_load"} /\ pc'[c] \in {"spin_load", "spin_wfe", "spin_store"} /\ ret' = ret
           \/ pc[c] = "work" /\ pc'[c] = "vwq_load" /\ ret'[c] = "wq"
        /\ UNCHANGED <<saw, procs>>
        /\ \A a \in Actors : a # c => pc'[a] = pc[a] /\ ret'[a] = ret[a]
    BY <1>0, <1>1 DEF PageSpinlock, SpinLoad, WorkDone, At, Goto, VwqLock
  <2>2. \A a \in Actors : Holds(a)' <=> Holds(a)
    BY <1>0, <2>1 DEF Holds, InVwqLock
  <2>3. AbsArrived' = AbsArrived
    BY <1>0, <2>1 DEF AbsArrived, BeforeArrival, InVwqLock, procs
  <2> QED BY <1>01, <2>1, <2>2, <2>3 DEF procs
<1>2. ASSUME NEW c \in Cpus, SpinStore(c) PROVE G
  <2>1. /\ c \in Actors /\ c # Rx /\ pc[c] = "spin_store" /\ UNCHANGED <<ret, saw, procs>>
        /\ \A a \in Actors : a # c => pc'[a] = pc[a]
        /\ \/ c \in mon /\ pc'[c] = "work"
           \/ pc'[c] = "spin_load"
    BY <1>0, <1>2 DEF SpinStore, At, Goto
  <2>2. AbsArrived' = AbsArrived /\ served' = served
    BY <1>0, <2>1 DEF AbsArrived, BeforeArrival, InVwqLock, procs
  <2>3. CASE c \in mon /\ pc'[c] = "work"
    <3>1. ~lock
      BY <2>1, <2>3 DEF LockParts, MarkIsFresh
    <3>2. Holds(c)'
      BY <2>3 DEF Holds
    <3> QED BY <1>02, <2>2, <3>1, <3>2, AcquireIs DEF G
  <2>4. CASE pc'[c] = "spin_load"
    <3>1. \A a \in Actors : Holds(a)' <=> Holds(a)
      BY <1>0, <2>1, <2>4 DEF Holds, InVwqLock
    <3> QED BY <1>01, <2>2, <3>1
  <2> QED BY <2>1, <2>3, <2>4
<1>3. ASSUME Receive PROVE G
  <2>1. /\ pc[Rx] = "idle" /\ pc'[Rx] = "try_load" /\ arrived' = arrived + 1
        /\ UNCHANGED <<ret, saw, served>>
        /\ \A a \in Actors : a # Rx => pc'[a] = pc[a]
    BY <1>0, <1>3 DEF Receive, At, Goto
  <2>2. AbsArrived' = AbsArrived
    BY <1>0, <2>1 DEF AbsArrived, BeforeArrival, InVwqLock
  <2>3. \A a \in Actors : Holds(a)' <=> Holds(a)
    BY <1>0, <2>1 DEF Holds, InVwqLock
  <2> QED BY <1>01, <2>1, <2>2, <2>3
<1>4. ASSUME TryLoad PROVE G
  <2>1. /\ pc[Rx] = "try_load" /\ UNCHANGED <<saw, procs>>
        /\ \/ pc'[Rx] = "try_store"
           \/ pc'[Rx] = "vwq_load" /\ ret'[Rx] = "enqueue"
        /\ \A a \in Actors : a # Rx => pc'[a] = pc[a] /\ ret'[a] = ret[a]
    BY <1>0, <1>4 DEF TryLoad, At, Goto, VwqLock
  <2>2. AbsArrived' = AbsArrived
    BY <1>0, <2>1 DEF AbsArrived, BeforeArrival, InVwqLock, procs
  <2>3. \A a \in Actors : Holds(a)' <=> Holds(a)
    BY <1>0, <2>1 DEF Holds, InVwqLock
  <2> QED BY <1>01, <2>1, <2>2, <2>3 DEF procs
<1>5. ASSUME TryStore PROVE G
  <2>1. /\ pc[Rx] = "try_store" /\ UNCHANGED <<saw, procs>>
        /\ \/ pc'[Rx] = "direct" /\ Rx \in mon
           \/ pc'[Rx] = "vwq_load" /\ ret'[Rx] = "enqueue"
        /\ \A a \in Actors : a # Rx => pc'[a] = pc[a] /\ ret'[a] = ret[a]
    BY <1>0, <1>5 DEF TryStore, At, Goto, VwqLock
  <2>2. CASE pc'[Rx] = "direct" /\ Rx \in mon
    <3>1. ~lock
      BY <2>1, <2>2 DEF LockParts, MarkIsFresh
    <3>2. Holds(Rx)'
      BY <2>2 DEF Holds
    <3>3. AbsArrived = arrived - 1 /\ AbsArrived' = arrived /\ served' = served
      BY <2>1, <2>2 DEF AbsArrived, BeforeArrival, InVwqLock, procs
    <3>4. AbsArrived < MaxProcs /\ AbsArrived' = AbsArrived + 1
      BY <1>0, <3>3
    <3> QED BY <1>02, <3>1, <3>2, <3>3, <3>4, ArriveIs DEF G
  <2>3. CASE pc'[Rx] = "vwq_load" /\ ret'[Rx] = "enqueue"
    <3>1. AbsArrived' = AbsArrived
      BY <1>0, <2>1, <2>3 DEF AbsArrived, BeforeArrival, InVwqLock, procs
    <3>2. \A a \in Actors : Holds(a)' <=> Holds(a)
      BY <1>0, <2>1, <2>3 DEF Holds, InVwqLock
    <3> QED BY <1>01, <2>1, <3>1, <3>2 DEF procs
  <2> QED BY <2>1, <2>2, <2>3
<1>6. ASSUME ProcessDirect PROVE G
  <2>1. /\ pc[Rx] = "direct" /\ pc'[Rx] = "vwq_load" /\ ret'[Rx] = "wq"
        /\ arrived' = arrived /\ served' = Append(served, arrived)
    BY <1>0, <1>6 DEF ProcessDirect, At, Goto, VwqLock
  <2>2. Len(served') = Len(served) + 1
    BY <2>1 DEF ProcsOK
  <2>3. AbsArrived' = AbsArrived
    BY <2>1 DEF AbsArrived, BeforeArrival, InVwqLock
  <2>4. Holds(Rx) /\ Holds(Rx)'
    BY <2>1 DEF Holds, InVwqLock
  <2> QED BY <1>0, <2>2, <2>3, <2>4, ServeIs DEF G
<1>7. ASSUME Enqueue PROVE G
  <2>1. /\ pc[Rx] = "enqueue"
        /\ \/ saw[Rx] /\ pc'[Rx] = "idle"
           \/ ~saw[Rx] /\ pc'[Rx] = "vwq_load" /\ ret'[Rx] = "wq"
        /\ UNCHANGED <<saw, arrived, served>>
        /\ \A a \in Actors : a # Rx => pc'[a] = pc[a] /\ ret'[a] = ret[a]
    BY <1>0, <1>7 DEF Enqueue, At, Goto, VwqLock
  <2>2. AbsArrived' = AbsArrived
    BY <1>0, <2>1 DEF AbsArrived, BeforeArrival, InVwqLock
  <2>3. \A a \in Actors : Holds(a)' <=> Holds(a)
    BY <1>0, <2>1 DEF Holds, InVwqLock
  <2> QED BY <1>01, <2>1, <2>2, <2>3
<1>8. ASSUME NEW a \in Actors, Wfe(a) PROVE G
  <2>1. /\ \/ pc[a] = "spin_wfe" /\ pc'[a] = "spin_load"
           \/ pc[a] = "vwq_wfe" /\ pc'[a] = "vwq_load"
        /\ UNCHANGED <<ret, saw, procs>>
        /\ \A b \in Actors : b # a => pc'[b] = pc[b]
    BY <1>0, <1>8 DEF Wfe, At, Goto
  <2>2. AbsArrived' = AbsArrived
    BY <1>0, <2>1 DEF AbsArrived, BeforeArrival, InVwqLock, procs
  <2>3. \A b \in Actors : Holds(b)' <=> Holds(b)
    BY <1>0, <2>1 DEF Holds, InVwqLock
  <2> QED BY <1>01, <2>1, <2>2, <2>3 DEF procs
<1>9. ASSUME NEW a \in Actors, VwqLoad(a) PROVE G
  <2>1. /\ pc[a] = "vwq_load" /\ pc'[a] \in {"vwq_wfe", "vwq_store"}
        /\ UNCHANGED <<ret, procs>>
        /\ \A b \in Actors : b # a => pc'[b] = pc[b] /\ saw'[b] = saw[b]
    BY <1>0, <1>9 DEF VwqLoad, At, Goto
  <2>2. AbsArrived' = AbsArrived
    BY <1>0, <2>1 DEF AbsArrived, BeforeArrival, InVwqLock, procs
  <2>3. \A b \in Actors : Holds(b)' <=> Holds(b)
    BY <1>0, <2>1 DEF Holds, InVwqLock
  <2> QED BY <1>01, <2>1, <2>2, <2>3 DEF procs
<1>10. ASSUME NEW a \in Actors, VwqStore(a) PROVE G
  <2>1. /\ pc[a] = "vwq_store"
        /\ \/ a \in mon /\ pc'[a] = ret[a]
           \/ pc'[a] = "vwq_load"
        /\ UNCHANGED <<ret, saw, procs>>
        /\ \A b \in Actors : b # a => pc'[b] = pc[b]
    BY <1>0, <1>10 DEF VwqStore, At, Goto
  <2>2. CASE pc'[a] = "vwq_load" \/ ret[a] = "wq"
    <3>1. AbsArrived' = AbsArrived
      BY <1>0, <2>1, <2>2 DEF AbsArrived, BeforeArrival, InVwqLock, procs
    <3>2. \A b \in Actors : Holds(b)' <=> Holds(b)
      BY <1>0, <2>1, <2>2 DEF Holds, InVwqLock
    <3> QED BY <1>01, <2>1, <3>1, <3>2 DEF procs
  <2>3. CASE a \in mon /\ pc'[a] = ret[a] /\ ret[a] = "enqueue"
    <3>1. a = Rx
      BY <1>0, <2>3 DEF RolesOK, Actors
    <3>2. saw[a] <=> lock
      BY <2>1, <2>3 DEF LockParts, MarkIsFresh
    <3>3. AbsArrived = arrived - 1 /\ AbsArrived' = arrived /\ served' = served
      BY <2>1, <2>3, <3>1 DEF AbsArrived, BeforeArrival, InVwqLock, procs
    <3>4. AbsArrived < MaxProcs /\ AbsArrived' = AbsArrived + 1
      BY <1>0, <3>3
    <3>5. CASE ~lock
      <4>1. Holds(Rx)'
        BY <2>1, <2>3, <3>1, <3>2, <3>5 DEF Holds
      <4> QED BY <1>02, <3>3, <3>4, <3>5, <4>1, ArriveIs DEF G
    <3>6. CASE lock
      <4>1. PICK b \in Actors : Holds(b)
        BY <3>6 DEF LockParts, MutualExclusion
      <4>2. b # a
        BY <2>1, <2>3, <4>1 DEF Holds, InVwqLock
      <4>3. Holds(b)'
        BY <2>1, <4>1, <4>2 DEF Holds, InVwqLock
      <4> QED BY <3>3, <3>4, <4>1, <4>3, ArriveIs DEF G
    <3> QED BY <1>0, <3>5, <3>6
  <2> QED BY <1>0, <2>1, <2>2, <2>3
<1>11. ASSUME NEW a \in Actors, WqTake(a) PROVE G
  <2>1. /\ pc[a] = "wq" /\ pc'[a] = "serve" /\ UNCHANGED <<ret, saw, arrived, served>>
        /\ \A b \in Actors : b # a => pc'[b] = pc[b]
    BY <1>0, <1>11 DEF WqTake, At, Goto
  <2>2. AbsArrived' = AbsArrived
    BY <1>0, <2>1 DEF AbsArrived, BeforeArrival, InVwqLock
  <2>3. \A b \in Actors : Holds(b)' <=> Holds(b)
    BY <1>0, <2>1 DEF Holds, InVwqLock
  <2> QED BY <1>01, <2>1, <2>2, <2>3
<1>12. ASSUME NEW a \in Actors, WqServe(a) PROVE G
  <2>1. /\ pc[a] = "serve" /\ batch[a] # <<>> /\ UNCHANGED <<pc, ret, saw, arrived>>
        /\ served' = Append(served, Head(batch[a]))
    BY <1>0, <1>12 DEF WqServe, At
  <2>2. Len(served') = Len(served) + 1
    <3>1. batch[a] \in Seq(Nat) /\ served \in Seq(Nat)
      BY DEF ProcsOK
    <3>2. Head(batch[a]) \in Nat
      BY <2>1, <3>1
    <3> QED BY <2>1, <3>1, <3>2
  <2>3. AbsArrived' = AbsArrived
    BY <2>1 DEF AbsArrived, BeforeArrival, InVwqLock
  <2>4. Holds(a) /\ Holds(a)'
    BY <2>1 DEF Holds, InVwqLock
  <2> QED BY <1>0, <2>2, <2>3, <2>4, ServeIs DEF G
<1>13. ASSUME NEW a \in Actors, WqAgain(a) PROVE G
  <2>1. /\ pc[a] = "serve" /\ pc'[a] = "vwq_load" /\ ret'[a] = "wq" /\ UNCHANGED <<saw, procs>>
        /\ \A b \in Actors : b # a => pc'[b] = pc[b] /\ ret'[b] = ret[b]
    BY <1>0, <1>13 DEF WqAgain, At, Goto, VwqLock
  <2>2. AbsArrived' = AbsArrived
    BY <1>0, <2>1 DEF AbsArrived, BeforeArrival, InVwqLock, procs
  <2>3. \A b \in Actors : Holds(b)' <=> Holds(b)
    BY <1>0, <2>1 DEF Holds, InVwqLock
  <2> QED BY <1>01, <2>1, <2>2, <2>3 DEF procs
<1>14. ASSUME NEW a \in Actors, PageUnlock(a) PROVE G
  <2>1. /\ pc[a] = "wq" /\ pc'[a] = "idle" /\ wq = <<>> /\ UNCHANGED <<ret, saw, procs>>
        /\ \A b \in Actors : b # a => pc'[b] = pc[b]
    BY <1>0, <1>14 DEF PageUnlock, At, Goto
  <2>2. AbsArrived' = AbsArrived /\ served' = served
    BY <1>0, <2>1 DEF AbsArrived, BeforeArrival, InVwqLock, procs
  <2>3. Holds(a)
    BY <2>1 DEF Holds
  <2>4. \A b \in Actors : b # a => ~Holds(b)
    BY <2>3 DEF LockParts, MutualExclusion
  <2>5. \A b \in Actors : ~Holds(b)'
    BY <2>1, <2>4 DEF Holds, InVwqLock
  <2>6. \A b \in Actors : batch[b] = <<>>
    BY <2>1, <2>3, OthersEmpty DEF LockParts, QueueParts, BatchOK
  <2>7. pc[Rx] # "direct" /\ pc[Rx] # "enqueue"
    <3>1. HoldsWq(a) /\ (HoldsWq(Rx) => a = Rx)
      BY <1>0, <2>1 DEF HoldsWq, LockParts, MutualExclusion
    <3> QED BY <1>0, <2>1, <2>4, <3>1 DEF Holds, HoldsWq
  <2>8. Taken = 0 /\ Len(wq) = 0 /\ LastIn \in Nat
    BY <2>1, <2>6 DEF QueueParts, Numbered
  <2>9. LastIn = AbsArrived
    BY <2>7 DEF LastIn, AbsArrived
  <2>10. Len(served) = AbsArrived
    BY <1>0, <2>8, <2>9 DEF Taken
  <2> QED BY <2>2, <2>3, <2>5, <2>10, ReleaseIs DEF G
<1>15. ASSUME UNCHANGED vars PROVE G
  <2>1. UNCHANGED <<pc, ret, saw, arrived, served>>
    BY <1>15 DEF vars
  <2>2. AbsArrived' = AbsArrived /\ \A b \in Actors : Holds(b)' <=> Holds(b)
    BY <2>1 DEF AbsArrived, BeforeArrival, InVwqLock, Holds
  <2> QED BY <1>01, <2>1, <2>2
<1>16. G
  BY <1>1, <1>2, <1>3, <1>4, <1>5, <1>6, <1>7, <1>8, <1>9, <1>10, <1>11, <1>12,
     <1>13, <1>14, <1>15 DEF Next, CpuStep, RxStep, WqStep
<1> QED BY <1>16 DEF G

\* The inductive invariant of the waitqueue holds.
THEOREM QueueInvHolds == Spec => [](RolesOK /\ QueueParts)
<1>1. Init => RolesOK /\ QueueParts
  <2> SUFFICES ASSUME Init PROVE RolesOK /\ QueueParts
    OBVIOUS
  <2>1. Rx \in Actors /\ \A c \in Cpus : c \in Actors
    BY DEF Actors
  <2>2. RolesOK
    BY <2>1 DEF Init, RolesOK
  <2>3. LastIn = 0
    BY <2>1 DEF Init, LastIn, BeforeArrival, InVwqLock
  <2>4. Taken = 0
    <3>1. Len(wq) = 0 /\ Len(served) = 0
      BY DEF Init
    <3> QED BY <2>3, <3>1 DEF Taken
  <2>5. Numbered
    BY <2>3, <2>4 DEF Init, Numbered
  <2> QED BY <2>1, <2>2, <2>5 DEF Init, QueueParts, BatchOK, NoneLeft
<1>2. LockInv /\ RolesOK /\ QueueParts /\ [Next]_vars => (RolesOK /\ QueueParts)'
  <2> SUFFICES ASSUME LockInv, RolesOK, QueueParts, [Next]_vars PROVE (RolesOK /\ QueueParts)'
    OBVIOUS
  <2>1. ControlOK /\ ProcsOK /\ LockParts
    BY TypeSplit DEF LockInv, LockParts
  <2> QED BY <2>1, RolesStep, QueueStep
<1> QED BY <1>1, <1>2, LockInvHolds, PTL DEF Spec

\* The page lock and its waitqueue implement PageMonitor for any number of
\* cpus and messages: no proc is lost, served twice or overtaken, and the page
\* is never unlocked while one waits.
THEOREM PageMonitorImplemented == Spec => ImplementsPageMonitor
<1> DEFINE Inv == LockInv /\ RolesOK /\ QueueParts
           Map == HolderIs /\ QueueIs
<1>1. Inv => Map
  <2> SUFFICES ASSUME Inv PROVE Map
    OBVIOUS
  <2>1. ControlOK /\ ProcsOK /\ MutualExclusion
    BY TypeSplit DEF LockInv
  <2> QED BY <2>1, HolderKnown, QueueKnown
<1>2. Init => Monitor!Init
  <2> SUFFICES ASSUME Init PROVE Monitor!Init
    OBVIOUS
  <2>1. Rx \in Actors
    BY DEF Actors
  <2>2. AbsHolder = Free /\ AbsArrived = 0 /\ Len(served) = 0
    BY <2>1 DEF Init, AbsHolder, Holds, AbsArrived, BeforeArrival, InVwqLock
  <2>3. InHand = <<>> /\ InBatch = <<>> /\ wq = <<>> /\ Linking = <<>>
    BY <2>1 DEF Init, InHand, InBatch, Linking
  <2>4. <<>> \o <<>> = <<>>
    <3>1. <<>> \in Seq(Nat)
      OBVIOUS
    <3> QED BY <3>1, ConcatEmptySeq
  <2>5. AbsQueue = <<>>
    BY <2>3, <2>4 DEF AbsQueue
  <2> QED BY <2>2, <2>5 DEF Monitor!Init, AbsHolder, AbsQueue, InHand, InBatch,
          Linking, AbsArrived
<1>3. Inv /\ Map /\ Map' /\ [Next]_vars => [Monitor!Next]_AbsVars
  <2> SUFFICES ASSUME Inv, Map, Map', [Next]_vars PROVE [Monitor!Next]_AbsVars
    OBVIOUS
  <2>1. ControlOK /\ ProcsOK /\ LockParts
    BY TypeSplit DEF LockInv, LockParts
  <2> QED BY <2>1, MonitorStep
<1>4. ImplementsPageMonitor <=> Monitor!Init /\ [][Monitor!Next]_AbsVars
  BY DEF ImplementsPageMonitor, Monitor!Spec, AbsVars, AbsHolder, AbsQueue, InHand, InBatch,
     Linking, AbsArrived
<1> HIDE DEF Map
<1> QED BY <1>1, <1>2, <1>3, <1>4, LockInvHolds, QueueInvHolds, PTL DEF Spec
=============================================================================

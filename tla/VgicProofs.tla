----------------------------- MODULE VgicProofs -----------------------------
(***************************************************************************)
(* Vgic for any number of cpus, list registers, ring slots, SGIs and       *)
(* messages: every struct gic_pending_irq has exactly one owner until it   *)
(* is freed, and an interrupt waiting in a ring is announced to its cpu.   *)
(***************************************************************************)
EXTENDS Vgic, FiniteSetTheorems, TLAPS

(* The inductive invariant.                                                *)

Slots == 0..(RingSize - 1)
Pendirqs == [id : Int, virq : Int]
Pcs == {"virq", "write", "store", "kick", "drainlock", "drain"}

Frames ==
  [kind : {"sgi", "msg", "timer", "inject"}, pc : Pcs,
   virq : Sgis \cup {Timer, None}, to : Int, targets : SUBSET Nat,
   pend : Pendirqs, seen : Int]

Shapes ==
  /\ stack \in [Cpus -> Seq(Frames)]
  /\ ring \in [Cpus -> [irqs : [Slots -> Pendirqs], head : Slots, tail : Slots]]
  /\ locked \in [Cpus -> BOOLEAN] /\ inject \in [Cpus -> BOOLEAN]
  /\ timer \in [Cpus -> {"idle", "pending", "active"}]
  /\ live \subseteq Nat /\ IsFiniteSet(live)
  /\ dead \in BOOLEAN

\* The handler of SGI_INJECT is one that empties a ring, and who stores into a
\* ring or announces it works for another cpu.
FrameOK(c, f) ==
  /\ f.kind = "inject" <=> f.pc \in {"drainlock", "drain"}
  /\ f.kind = "inject" => f.targets = {}
  /\ f.pc \in {"store", "kick"} => f.to \in Cpus \ {c}
  /\ f.pc = "drain" => f.seen \in Slots

\* A handler that has been interrupted had its interrupts enabled.
BelowOK(c, s) ==
  \A i \in 1..Len(s) : FrameOK(c, s[i]) /\ s[i].kind # "inject" /\ s[i].pc # "store"

StackOK(c, s) == s # <<>> => FrameOK(c, Head(s)) /\ BelowOK(c, Tail(s))

\* Cpu c is between lock and unlock of the ring of vCPU t.
Inside(c, t) ==
  /\ ~InGuest(c)
  /\ (Top(c).pc = "store" /\ Top(c).to = t) \/ (Top(c).pc = "drain" /\ c = t)

LockOK ==
  /\ \A c, t \in Cpus : Inside(c, t) => locked[t]
  /\ \A c, d, t \in Cpus : Inside(c, t) /\ Inside(d, t) => c = d
  /\ \A c, t \in Cpus : Inside(c, t) /\ Top(c).pc = "store" => Top(c).seen = ring[t].tail

\* The handler f, or one of those in s, is about to announce the ring of t.
Kicks(f, t) == f.pc = "kick" /\ f.to = t
KickIn(s, t) == \E i \in 1..Len(s) : Kicks(s[i], t)

\* The handler f, or one of those in s, holds the pending interrupt x; no two
\* handlers of s hold the same.
Has(f, x) == HoldsPendirq(f) /\ f.pend.id = x
HeldIn(s, x) == \E i \in 1..Len(s) : Has(s[i], x)
HeldOnce(s) ==
  \A i, j \in 1..Len(s) :
    HoldsPendirq(s[i]) /\ HoldsPendirq(s[j]) /\ s[i].pend.id = s[j].pend.id => i = j

\* The same for the slots of a ring that are in use.
Stored(c, x) == \E i \in InRing(c) : ring[c].irqs[i].id = x
StoredOnce(c) ==
  \A i, j \in InRing(c) : ring[c].irqs[i].id = ring[c].irqs[j].id => i = j

OwnersOK ==
  /\ \A c \in Cpus : HeldOnce(stack[c]) /\ StoredOnce(c)
  /\ \A c \in Cpus, x \in Int : HeldIn(stack[c], x) \/ Stored(c, x) => x \in live
  /\ \A x \in live : \E c \in Cpus : HeldIn(stack[c], x) \/ Stored(c, x)
  /\ \A c, d \in Cpus, x \in Int : HeldIn(stack[c], x) /\ HeldIn(stack[d], x) => c = d
  /\ \A c, d \in Cpus, x \in Int : Stored(c, x) /\ Stored(d, x) => c = d
  /\ \A c, d \in Cpus, x \in Int : ~(HeldIn(stack[c], x) /\ Stored(d, x))

HandlersOK == \A c \in Cpus : StackOK(c, stack[c])

VgicInv == Shapes /\ HandlersOK /\ LockOK /\ Kicked /\ OwnersOK

-----------------------------------------------------------------------------
(* Sequences, minima and fresh numbers.                                    *)

\* A handler is pushed on a stack.
LEMMA PushFacts ==
  ASSUME NEW F, NEW f \in F, NEW s \in Seq(F)
  PROVE  /\ <<f>> \o s \in Seq(F)
         /\ <<f>> \o s # <<>>
         /\ Head(<<f>> \o s) = f
         /\ Tail(<<f>> \o s) = s
         /\ Len(<<f>> \o s) = Len(s) + 1
         /\ \A i \in 1..(Len(s) + 1) : (<<f>> \o s)[i] = IF i = 1 THEN f ELSE s[i - 1]
<1>1. <<f>> \in Seq(F) /\ Len(<<f>>) = 1 /\ <<f>>[1] = f
  OBVIOUS
<1>2. /\ <<f>> \o s \in Seq(F) /\ Len(<<f>> \o s) = Len(s) + 1
      /\ \A i \in 1..(Len(s) + 1) : (<<f>> \o s)[i] = IF i = 1 THEN f ELSE s[i - 1]
  BY <1>1
<1>3. /\ <<f>> \o s # <<>> /\ Head(<<f>> \o s) = f
  BY <1>2
<1>4. Tail(<<f>> \o s) = s
  <2>1. Tail(<<f>> \o s) \in Seq(F) /\ Len(Tail(<<f>> \o s)) = Len(s)
    BY <1>2, <1>3
  <2>2. \A i \in 1..Len(s) : Tail(<<f>> \o s)[i] = s[i]
    BY <1>2, <1>3
  <2> QED BY <2>1, <2>2
<1> QED BY <1>2, <1>3, <1>4

\* A stack that is not empty is its innermost handler on top of the others.
LEMMA TopFacts ==
  ASSUME NEW F, NEW s \in Seq(F), s # <<>>
  PROVE  /\ Head(s) \in F /\ Tail(s) \in Seq(F)
         /\ Head(s) = s[1]
         /\ Len(s) \in Nat /\ Len(s) >= 1 /\ Len(Tail(s)) = Len(s) - 1
         /\ \A i \in 1..(Len(s) - 1) : Tail(s)[i] = s[i + 1]
OBVIOUS

\* Every set of numbers that is not empty has a least one.
LEMMA LeastExists ==
  ASSUME NEW T, T \subseteq Nat, T # {}
  PROVE  \E t \in T : \A e \in T : t <= e
<1>1. PICK n \in T : TRUE
  OBVIOUS
<1> DEFINE S == 0..n
           U == {A \in SUBSET S : \E t \in T : A = 0..t}
<1>2. IsFiniteSet(S)
  BY <1>1, FS_Interval
<1>3. IsWellFoundedOn(StrictSubsetOrdering(S), FiniteSubsetsOf(S))
  BY FS_StrictSubsetOrderingWellFounded
<1>4. U \subseteq FiniteSubsetsOf(S) /\ U # {}
  BY <1>1, <1>2, FS_FiniteSubsetsOfFinite
<1>5. PICK A \in U : \A B \in U : ~(<<B, A>> \in StrictSubsetOrdering(S))
  <2> HIDE DEF U, S
  <2> QED BY <1>3, <1>4, WFMin
<1>6. PICK t \in T : A = 0..t
  BY <1>5
<1>7. ASSUME NEW e \in T, ~(t <= e) PROVE FALSE
  <2>1. e < t /\ e \in Nat /\ t \in Nat
    BY <1>7
  <2>2. 0..e \subseteq A /\ t \in A /\ t \notin 0..e
    BY <2>1, <1>6
  <2>3. 0..e \in U
    BY <2>2, <1>5
  <2>4. <<0..e, A>> \in StrictSubsetOrdering(S)
    BY <2>2, <2>3, <1>5 DEF StrictSubsetOrdering
  <2> QED BY <1>5, <2>3, <2>4
<1> QED BY <1>7

\* malloc finds memory that is not in use.
LEMMA FreshExists ==
  ASSUME NEW L, L \subseteq Nat, IsFiniteSet(L)
  PROVE  \E i \in 0..Cardinality(L) : i \notin L
<1> SUFFICES ASSUME \A i \in 0..Cardinality(L) : i \in L PROVE FALSE
  OBVIOUS
<1>1. Cardinality(L) \in Nat
  BY FS_CardinalityType
<1>2. Cardinality(0..Cardinality(L)) = Cardinality(L) + 1
  BY <1>1, FS_Interval
<1>3. Cardinality(0..Cardinality(L)) <= Cardinality(L)
  BY FS_Subset
<1> QED BY <1>1, <1>2, <1>3

\* What the predicates say of a stack with the handler f on top of s.
LEMMA OnTop ==
  ASSUME NEW c, NEW f \in Frames, NEW s \in Seq(Frames)
  PROVE  /\ \A t : KickIn(<<f>> \o s, t) <=> (Kicks(f, t) \/ KickIn(s, t))
         /\ \A x : HeldIn(<<f>> \o s, x) <=> (Has(f, x) \/ HeldIn(s, x))
         /\ HeldOnce(<<f>> \o s)
              <=> (HeldOnce(s) /\ (HoldsPendirq(f) => ~HeldIn(s, f.pend.id)))
         /\ BelowOK(c, <<f>> \o s)
              <=> (BelowOK(c, s) /\ FrameOK(c, f) /\ f.kind # "inject" /\ f.pc # "store")
<1> DEFINE q == <<f>> \o s
<1>1. /\ Len(s) \in Nat /\ Len(q) = Len(s) + 1
      /\ q[1] = f /\ \A i \in 1..Len(s) : q[i + 1] = s[i]
  BY PushFacts
<1>2. \A i \in 1..Len(q) : i = 1 \/ (i - 1 \in 1..Len(s) /\ q[i] = s[i - 1])
  BY <1>1
<1>3. 1 \in 1..Len(q) /\ \A i \in 1..Len(s) : i + 1 \in 1..Len(q)
  BY <1>1
<1> HIDE DEF q
<1>4. \A t : KickIn(q, t) <=> (Kicks(f, t) \/ KickIn(s, t))
  BY <1>1, <1>2, <1>3 DEF KickIn
<1>5. \A x : HeldIn(q, x) <=> (Has(f, x) \/ HeldIn(s, x))
  BY <1>1, <1>2, <1>3 DEF HeldIn
<1>6. HeldOnce(q) => HeldOnce(s) /\ (HoldsPendirq(f) => ~HeldIn(s, f.pend.id))
  <2> SUFFICES ASSUME HeldOnce(q)
               PROVE  HeldOnce(s) /\ (HoldsPendirq(f) => ~HeldIn(s, f.pend.id))
    OBVIOUS
  <2>1. HeldOnce(s)
    <3> SUFFICES ASSUME NEW i \in 1..Len(s), NEW j \in 1..Len(s), HoldsPendirq(s[i]),
                        HoldsPendirq(s[j]), s[i].pend.id = s[j].pend.id
                 PROVE  i = j
      BY DEF HeldOnce
    <3>1. q[i + 1] = s[i] /\ q[j + 1] = s[j] /\ i + 1 \in 1..Len(q) /\ j + 1 \in 1..Len(q)
      BY <1>1, <1>3
    <3>2. i + 1 = j + 1
      BY <3>1 DEF HeldOnce
    <3> QED BY <3>2
  <2>2. ASSUME HoldsPendirq(f), NEW i \in 1..Len(s), Has(s[i], f.pend.id) PROVE FALSE
    <3>1. q[i + 1] = s[i] /\ i + 1 \in 1..Len(q) /\ q[1] = f /\ 1 \in 1..Len(q)
      BY <1>1, <1>3
    <3>2. i + 1 = 1
      BY <3>1, <2>2 DEF HeldOnce, Has
    <3> QED BY <3>2, <1>1
  <2> QED BY <2>1, <2>2 DEF HeldIn
<1>7. ASSUME HeldOnce(s), HoldsPendirq(f) => ~HeldIn(s, f.pend.id) PROVE HeldOnce(q)
  <2> SUFFICES ASSUME NEW i \in 1..Len(q), NEW j \in 1..Len(q), HoldsPendirq(q[i]),
                      HoldsPendirq(q[j]), q[i].pend.id = q[j].pend.id
               PROVE  i = j
    BY DEF HeldOnce
  <2>1. CASE i = 1 /\ j = 1
    BY <2>1
  <2>2. CASE i = 1 /\ j # 1
    <3>1. j - 1 \in 1..Len(s) /\ q[j] = s[j - 1]
      BY <2>2, <1>2
    <3> QED BY <3>1, <2>2, <1>1, <1>7 DEF HeldIn, Has
  <2>3. CASE i # 1 /\ j = 1
    <3>1. i - 1 \in 1..Len(s) /\ q[i] = s[i - 1]
      BY <2>3, <1>2
    <3> QED BY <3>1, <2>3, <1>1, <1>7 DEF HeldIn, Has
  <2>4. CASE i # 1 /\ j # 1
    <3>1. /\ i - 1 \in 1..Len(s) /\ q[i] = s[i - 1]
          /\ j - 1 \in 1..Len(s) /\ q[j] = s[j - 1]
      BY <2>4, <1>2
    <3>2. i - 1 = j - 1
      BY <3>1, <1>7 DEF HeldOnce
    <3> QED BY <3>2, <1>1
  <2> QED BY <2>1, <2>2, <2>3, <2>4
<1>8. BelowOK(c, q) <=> (BelowOK(c, s) /\ FrameOK(c, f) /\ f.kind # "inject" /\ f.pc # "store")
  BY <1>1, <1>2, <1>3 DEF BelowOK
<1> QED BY <1>4, <1>5, <1>6, <1>7, <1>8 DEF q

\* The same of a stack that is not empty.
LEMMA OfTop ==
  ASSUME NEW c, NEW s \in Seq(Frames), s # <<>>
  PROVE  /\ Head(s) \in Frames /\ Tail(s) \in Seq(Frames)
         /\ \A t : KickIn(s, t) <=> (Kicks(Head(s), t) \/ KickIn(Tail(s), t))
         /\ \A x : HeldIn(s, x) <=> (Has(Head(s), x) \/ HeldIn(Tail(s), x))
         /\ HeldOnce(s)
              <=> (HeldOnce(Tail(s)) /\ (HoldsPendirq(Head(s)) => ~HeldIn(Tail(s), Head(s).pend.id)))
<1>1. Head(s) \in Frames /\ Tail(s) \in Seq(Frames)
  BY TopFacts
<1>2. s = <<Head(s)>> \o Tail(s)
  <2>1. /\ <<Head(s)>> \o Tail(s) \in Seq(Frames)
        /\ Len(<<Head(s)>> \o Tail(s)) = Len(s)
    BY <1>1, PushFacts, TopFacts
  <2>2. \A i \in 1..Len(s) : (<<Head(s)>> \o Tail(s))[i] = s[i]
    BY <1>1, PushFacts, TopFacts
  <2> QED BY <2>1, <2>2
<1> DEFINE P(q) ==
             /\ \A t : KickIn(q, t) <=> (Kicks(Head(s), t) \/ KickIn(Tail(s), t))
             /\ \A x : HeldIn(q, x) <=> (Has(Head(s), x) \/ HeldIn(Tail(s), x))
             /\ HeldOnce(q)
                  <=> (HeldOnce(Tail(s))
                        /\ (HoldsPendirq(Head(s)) => ~HeldIn(Tail(s), Head(s).pend.id)))
<1>3. P(<<Head(s)>> \o Tail(s))
  BY <1>1, OnTop, Zenon
<1>4. P(s)
  <2> HIDE DEF P
  <2> QED BY <1>2, <1>3, Zenon
<1> QED BY <1>1, <1>4

-----------------------------------------------------------------------------
(* Positions in a ring.                                                    *)

LEMMA DistanceIs ==
  ASSUME NEW a \in Slots, NEW b \in Slots
  PROVE  Distance(a, b) = IF a <= b THEN b - a ELSE b - a + RingSize
<1>1. RingSize \in Nat /\ RingSize > 0 /\ a \in 0..(RingSize - 1) /\ b \in 0..(RingSize - 1)
  BY VgicAssumption DEF Slots
<1>2. CASE a <= b
  <2>1. b - a \in Int /\ 0 <= b - a /\ b - a < RingSize
    BY <1>1, <1>2
  <2>2. (b - a) % RingSize = b - a
    BY <2>1, <1>1
  <2> QED BY <2>2, <1>2 DEF Distance
<1>3. CASE ~(a <= b)
  <2>1. b - a \in Int /\ b - a < 0 /\ 0 <= b - a + RingSize
    BY <1>1, <1>3
  <2>2. (b - a) % RingSize = b - a + RingSize
    BY <2>1, <1>1
  <2> QED BY <2>2, <1>3 DEF Distance
<1> QED BY <1>2, <1>3

LEMMA NextSlotIs ==
  ASSUME NEW i \in Slots
  PROVE  /\ NextSlot(i) \in Slots
         /\ NextSlot(i) = IF i + 1 = RingSize THEN 0 ELSE i + 1
<1>1. RingSize \in Nat /\ RingSize > 0 /\ i \in 0..(RingSize - 1)
  BY VgicAssumption DEF Slots
<1>2. CASE i + 1 = RingSize
  <2>1. RingSize % RingSize = 0
    BY <1>1
  <2> QED BY <2>1, <1>1, <1>2 DEF NextSlot, Slots
<1>3. CASE i + 1 # RingSize
  <2>1. i + 1 \in Nat /\ i + 1 < RingSize
    BY <1>1, <1>3
  <2>2. (i + 1) % RingSize = i + 1
    BY <2>1, <1>1
  <2> QED BY <2>1, <2>2, <1>1, <1>3 DEF NextSlot, Slots
<1> QED BY <1>2, <1>3

\* The slots in use between head and tail.
Used(head, tail) == {i \in Slots : Distance(head, i) < Distance(head, tail)}

\* An empty ring has none; a store takes the slot at the tail, if the ring is
\* not full; an interrupt taken out leaves the slot at the head.
LEMMA RingFacts ==
  ASSUME NEW head \in Slots, NEW tail \in Slots
  PROVE  /\ head = tail => Used(head, tail) = {}
         /\ NextSlot(tail) # head =>
              tail \notin Used(head, tail)
                /\ Used(head, NextSlot(tail)) = Used(head, tail) \cup {tail}
         /\ head # tail =>
              head \notin Used(NextSlot(head), tail)
                /\ Used(head, tail) = Used(NextSlot(head), tail) \cup {head}
<1>0. RingSize \in Nat /\ RingSize > 0 /\ Slots \subseteq Nat
  BY VgicAssumption DEF Slots
<1>a. Slots = 0..(RingSize - 1)
  BY DEF Slots
<1>1. head = tail => Used(head, tail) = {}
  <2>1. \A i \in Slots : Distance(head, i) = IF head <= i THEN i - head ELSE i - head + RingSize
    BY DistanceIs
  <2>2. \A i \in Slots : Distance(head, i) \in Nat
    BY <2>1, <1>0, <1>a
  <2>3. Distance(head, head) = 0
    BY <2>1, <1>0, <1>a
  <2>4. \A i \in Slots : ~(Distance(head, i) < Distance(head, head))
    BY <2>2, <2>3
  <2> QED BY <2>4 DEF Used
<1>2. ASSUME NextSlot(tail) # head
      PROVE  /\ tail \notin Used(head, tail)
             /\ Used(head, NextSlot(tail)) = Used(head, tail) \cup {tail}
  <2>1. tail \notin Used(head, tail)
    BY DistanceIs, <1>0 DEF Used
  <2>2. ASSUME NEW i \in Slots
        PROVE  Distance(head, i) < Distance(head, NextSlot(tail))
                 <=> (Distance(head, i) < Distance(head, tail) \/ i = tail)
    <3>1. /\ Distance(head, i) = IF head <= i THEN i - head ELSE i - head + RingSize
          /\ Distance(head, tail) = IF head <= tail THEN tail - head ELSE tail - head + RingSize
          /\ Distance(head, NextSlot(tail))
               = IF head <= NextSlot(tail) THEN NextSlot(tail) - head
                 ELSE NextSlot(tail) - head + RingSize
      BY DistanceIs, NextSlotIs
    <3>2. NextSlot(tail) = IF tail + 1 = RingSize THEN 0 ELSE tail + 1
      BY NextSlotIs
    <3> QED BY <3>1, <3>2, <1>2, <1>0, <1>a
  <2>3. tail \in Slots
    OBVIOUS
  <2> QED BY <2>1, <2>2, <2>3 DEF Used
<1>3. ASSUME head # tail
      PROVE  /\ head \notin Used(NextSlot(head), tail)
             /\ Used(head, tail) = Used(NextSlot(head), tail) \cup {head}
  <2>1. ASSUME NEW i \in Slots
        PROVE  /\ Distance(head, i) < Distance(head, tail)
                 <=> (Distance(NextSlot(head), i) < Distance(NextSlot(head), tail) \/ i = head)
               /\ ~(Distance(NextSlot(head), head) < Distance(NextSlot(head), tail))
    <3>1. /\ Distance(head, i) = IF head <= i THEN i - head ELSE i - head + RingSize
          /\ Distance(head, tail) = IF head <= tail THEN tail - head ELSE tail - head + RingSize
      BY DistanceIs
    <3>2. /\ NextSlot(head) = IF head + 1 = RingSize THEN 0 ELSE head + 1
          /\ NextSlot(head) \in Slots
      BY NextSlotIs
    <3>3. /\ Distance(NextSlot(head), i)
               = IF NextSlot(head) <= i THEN i - NextSlot(head)
                 ELSE i - NextSlot(head) + RingSize
          /\ Distance(NextSlot(head), tail)
               = IF NextSlot(head) <= tail THEN tail - NextSlot(head)
                 ELSE tail - NextSlot(head) + RingSize
          /\ Distance(NextSlot(head), head)
               = IF NextSlot(head) <= head THEN head - NextSlot(head)
                 ELSE head - NextSlot(head) + RingSize
      BY <3>2, DistanceIs
    <3> QED BY <3>1, <3>2, <3>3, <1>3, <1>0, <1>a
  <2>2. head \in Slots
    OBVIOUS
  <2> QED BY <2>1, <2>2 DEF Used
<1> QED BY <1>1, <1>2, <1>3

-----------------------------------------------------------------------------
(* What a step does to the stack of cpu c.                                 *)

\* The innermost handler becomes f.
LEMMA SetFacts ==
  ASSUME NEW c \in Cpus, Shapes, HandlersOK, ~InGuest(c),
         NEW f \in Frames, FrameOK(c, f), Set(c, f)
  PROVE  /\ stack' \in [Cpus -> Seq(Frames)]
         /\ \A d \in Cpus \ {c} : stack'[d] = stack[d]
         /\ stack'[c] # <<>> /\ Head(stack'[c]) = f
         /\ StackOK(c, stack'[c])
         /\ \A t : KickIn(stack'[c], t) <=> (Kicks(f, t) \/ KickIn(Tail(stack[c]), t))
         /\ \A x : HeldIn(stack'[c], x) <=> (Has(f, x) \/ HeldIn(Tail(stack[c]), x))
         /\ HeldOnce(stack'[c])
              <=> (HeldOnce(Tail(stack[c])) /\ (HoldsPendirq(f) => ~HeldIn(Tail(stack[c]), f.pend.id)))
<1>1. stack \in [Cpus -> Seq(Frames)] /\ stack[c] \in Seq(Frames) /\ stack[c] # <<>>
  BY DEF Shapes, InGuest
<1>2. Tail(stack[c]) \in Seq(Frames) /\ BelowOK(c, Tail(stack[c]))
  BY <1>1, TopFacts DEF HandlersOK, StackOK
<1>3. PICK r \in Seq(Frames) : r = Tail(stack[c])
  BY <1>2
<1>4. PICK q : q = <<f>> \o r
  OBVIOUS
<1>5. q \in Seq(Frames) /\ q # <<>> /\ Head(q) = f /\ Tail(q) = r
  BY <1>4, PushFacts
<1>6. stack' = [stack EXCEPT ![c] = q]
  BY <1>3, <1>4, <1>1 DEF Set
<1>7. stack' \in [Cpus -> Seq(Frames)] /\ stack'[c] = q /\ \A d \in Cpus \ {c} : stack'[d] = stack[d]
  BY <1>6, <1>5, <1>1
<1>8. StackOK(c, q)
  BY <1>5, <1>2, <1>3 DEF StackOK
<1>9. /\ \A t : KickIn(q, t) <=> (Kicks(f, t) \/ KickIn(r, t))
      /\ \A x : HeldIn(q, x) <=> (Has(f, x) \/ HeldIn(r, x))
      /\ HeldOnce(q) <=> (HeldOnce(r) /\ (HoldsPendirq(f) => ~HeldIn(r, f.pend.id)))
  BY <1>4, OnTop, Zenon
<1> QED BY <1>3, <1>5, <1>7, <1>8, <1>9, Zenon

\* An interrupt is taken, with the handler f.
LEMMA InterruptFacts ==
  ASSUME NEW c \in Cpus, Shapes, HandlersOK,
         NEW f \in Frames, FrameOK(c, f), ~HoldsPendirq(f), Interrupt(c, f)
  PROVE  /\ stack' \in [Cpus -> Seq(Frames)]
         /\ \A d \in Cpus \ {c} : stack'[d] = stack[d]
         /\ stack'[c] # <<>> /\ Head(stack'[c]) = f
         /\ StackOK(c, stack'[c])
         /\ \A t : KickIn(stack'[c], t) <=> (Kicks(f, t) \/ KickIn(stack[c], t))
         /\ \A x : HeldIn(stack'[c], x) <=> HeldIn(stack[c], x)
         /\ HeldOnce(stack'[c]) <=> HeldOnce(stack[c])
         /\ stack[c] # <<>> => Head(stack[c]).kind # "inject" /\ Head(stack[c]).pc # "store"
<1>1. stack \in [Cpus -> Seq(Frames)] /\ stack[c] \in Seq(Frames)
  BY DEF Shapes
<1>2. stack[c] # <<>> => Head(stack[c]).kind # "inject" /\ Head(stack[c]).pc # "store"
  BY DEF Interrupt, Masked, InGuest, Top
<1>3. BelowOK(c, stack[c])
  <2>1. CASE stack[c] = <<>>
    BY <2>1 DEF BelowOK
  <2>2. CASE stack[c] # <<>>
    <3>1. StackOK(c, stack[c])
      BY DEF HandlersOK
    <3>2. FrameOK(c, Head(stack[c])) /\ BelowOK(c, Tail(stack[c]))
      BY <3>1, <2>2 DEF StackOK
    <3>3. \A i \in 1..Len(stack[c]) : i = 1 \/ (i - 1 \in 1..Len(Tail(stack[c]))
                                                 /\ Tail(stack[c])[i - 1] = stack[c][i])
      BY <1>1, <2>2, TopFacts
    <3>4. Head(stack[c]) = stack[c][1]
      BY <1>1, <2>2, TopFacts
    <3> QED BY <3>2, <3>3, <3>4, <1>2, <2>2 DEF BelowOK
  <2> QED BY <2>1, <2>2
<1>4. PICK r \in Seq(Frames) : r = stack[c]
  BY <1>1
<1>5. PICK q : q = <<f>> \o r
  OBVIOUS
<1>6. q \in Seq(Frames) /\ q # <<>> /\ Head(q) = f /\ Tail(q) = r
  BY <1>5, PushFacts
<1>7. stack' = [stack EXCEPT ![c] = q]
  BY <1>4, <1>5, <1>1 DEF Interrupt
<1>8. stack' \in [Cpus -> Seq(Frames)] /\ stack'[c] = q /\ \A d \in Cpus \ {c} : stack'[d] = stack[d]
  BY <1>7, <1>6, <1>1
<1>9. StackOK(c, q)
  BY <1>6, <1>3, <1>4 DEF StackOK
<1>10. /\ \A t : KickIn(q, t) <=> (Kicks(f, t) \/ KickIn(r, t))
       /\ \A x : HeldIn(q, x) <=> (Has(f, x) \/ HeldIn(r, x))
       /\ HeldOnce(q) <=> (HeldOnce(r) /\ (HoldsPendirq(f) => ~HeldIn(r, f.pend.id)))
  BY <1>5, OnTop, Zenon
<1>11. \A x : ~Has(f, x)
  BY DEF Has
<1> QED BY <1>2, <1>4, <1>6, <1>8, <1>9, <1>10, <1>11, Zenon

\* vgic_emulate_sgi begins with the least target.
LEMMA SgiFrameFacts ==
  ASSUME NEW c, NEW v \in Sgis \cup {Timer, None}, NEW T, T \subseteq Nat, T # {}
  PROVE  /\ SgiFrame(v, T) \in Frames /\ FrameOK(c, SgiFrame(v, T))
         /\ SgiFrame(v, T).kind = "sgi" /\ SgiFrame(v, T).pc = "virq"
<1> DEFINE t == CHOOSE d \in T : \A e \in T : d <= e
<1>1. t \in T
  BY LeastExists
<1>2. SgiFrame(v, T) = [Frame("sgi", "virq", v) EXCEPT !.to = t, !.targets = T \ {t}]
  BY Zenon DEF SgiFrame
<1> HIDE DEF t
<1>4. SgiFrame(v, T) = [kind |-> "sgi", pc |-> "virq", virq |-> v, to |-> t, targets |-> T \ {t},
                        pend |-> NoPend, seen |-> None]
  BY <1>2 DEF Frame
<1>3. NoPend \in Pendirqs /\ None \in Int
  BY DEF NoPend, None, Pendirqs
<1> QED BY <1>1, <1>3, <1>4 DEF Frames, FrameOK, Pcs

\* The innermost handler has served a target.
LEMMA DoneFacts ==
  ASSUME NEW c \in Cpus, Shapes, HandlersOK, ~InGuest(c), Done(c)
  PROVE  /\ stack' \in [Cpus -> Seq(Frames)]
         /\ \A d \in Cpus \ {c} : stack'[d] = stack[d]
         /\ StackOK(c, stack'[c])
         /\ stack'[c] # <<>> => Head(stack'[c]).kind # "inject" /\ Head(stack'[c]).pc \notin {"store", "drain"}
         /\ \A t : KickIn(stack'[c], t) <=> KickIn(Tail(stack[c]), t)
         /\ \A x : HeldIn(stack'[c], x) <=> HeldIn(Tail(stack[c]), x)
         /\ HeldOnce(stack'[c]) <=> HeldOnce(Tail(stack[c]))
<1>1. stack \in [Cpus -> Seq(Frames)] /\ stack[c] \in Seq(Frames) /\ stack[c] # <<>>
  BY DEF Shapes, InGuest
<1>2. /\ Head(stack[c]) \in Frames /\ Tail(stack[c]) \in Seq(Frames)
      /\ FrameOK(c, Head(stack[c])) /\ BelowOK(c, Tail(stack[c]))
  BY <1>1, TopFacts DEF HandlersOK, StackOK
<1>3. CASE Top(c).targets # {}
  <2> DEFINE f == SgiFrame(Top(c).virq, Top(c).targets)
  <2>1. Top(c).virq \in Sgis \cup {Timer, None} /\ Top(c).targets \subseteq Nat
    BY <1>2 DEF Top, Frames
  <2>2. f \in Frames /\ FrameOK(c, f) /\ f.kind = "sgi" /\ f.pc = "virq"
    BY <2>1, <1>3, SgiFrameFacts
  <2>3. Set(c, f)
    BY <1>3 DEF Done
  <2> HIDE DEF f
  <2>4. ~HoldsPendirq(f) /\ (\A t : ~Kicks(f, t)) /\ (\A x : ~Has(f, x))
    BY <2>2 DEF HoldsPendirq, Kicks, Has
  <2>5. f.kind # "inject" /\ f.pc \notin {"store", "drain"}
    BY <2>2
  <2> QED BY <2>2, <2>3, <2>4, <2>5, SetFacts, Zenon
<1>4. CASE Top(c).targets = {}
  <2>1. stack' = [stack EXCEPT ![c] = Tail(stack[c])]
    BY <1>4, <1>1 DEF Done
  <2>2. stack' \in [Cpus -> Seq(Frames)] /\ stack'[c] = Tail(stack[c])
          /\ \A d \in Cpus \ {c} : stack'[d] = stack[d]
    BY <2>1, <1>1, <1>2
  <2>3. PICK r \in Seq(Frames) : r = Tail(stack[c])
    BY <1>2
  <2>4. BelowOK(c, r)
    BY <2>3, <1>2
  <2>5. ASSUME r # <<>>
        PROVE  /\ FrameOK(c, Head(r)) /\ BelowOK(c, Tail(r))
               /\ Head(r).kind # "inject" /\ Head(r).pc \notin {"store", "drain"}
    <3>1. /\ Head(r) = r[1] /\ 1 \in 1..Len(r)
          /\ \A i \in 1..Len(Tail(r)) : i + 1 \in 1..Len(r) /\ Tail(r)[i] = r[i + 1]
      BY <2>5, TopFacts
    <3>2. FrameOK(c, Head(r)) /\ Head(r).kind # "inject" /\ Head(r).pc # "store"
      BY <3>1, <2>4 DEF BelowOK
    <3>3. BelowOK(c, Tail(r))
      BY <3>1, <2>4 DEF BelowOK
    <3> QED BY <3>2, <3>3 DEF FrameOK
  <2>6. StackOK(c, r)
    BY <2>5 DEF StackOK
  <2> QED BY <2>2, <2>3, <2>5, <2>6, Zenon
<1> QED BY <1>3, <1>4

-----------------------------------------------------------------------------
(* What keeps the parts of the invariant.                                  *)

LEMMA HandlersKept ==
  ASSUME NEW c \in Cpus, HandlersOK, StackOK(c, stack'[c]),
         \A d \in Cpus \ {c} : stack'[d] = stack[d]
  PROVE  HandlersOK'
BY Zenon DEF HandlersOK

\* Cpu c holds no ring after the step; no other cpu lost one it works on.
LEMMA LockKept ==
  ASSUME NEW c \in Cpus, LockOK, \A d \in Cpus \ {c} : stack'[d] = stack[d],
         stack'[c] # <<>> => Head(stack'[c]).pc \notin {"store", "drain"},
         \A d, t \in Cpus : d # c /\ Inside(d, t) =>
           locked'[t] = locked[t] /\ ring'[t].tail = ring[t].tail
  PROVE  LockOK'
<1>1. \A t \in Cpus : ~Inside(c, t)'
  BY DEF Inside, InGuest, Top
<1>2. \A d, t \in Cpus : d # c => (Inside(d, t)' <=> Inside(d, t)) /\ Top(d)' = Top(d)
  BY DEF Inside, InGuest, Top
<1> QED BY <1>1, <1>2 DEF LockOK

\* Cpu c takes the free lock of the ring of k.
LEMMA LockTaken ==
  ASSUME NEW c \in Cpus, NEW k \in Cpus, LockOK, locked \in [Cpus -> BOOLEAN], ~locked[k],
         \A d \in Cpus \ {c} : stack'[d] = stack[d],
         \A t \in Cpus : Inside(c, t)' => t = k,
         Top(c)'.pc = "store" => Top(c)'.seen = ring[k].tail,
         locked' = [locked EXCEPT ![k] = TRUE], ring' = ring
  PROVE  LockOK'
<1>1. \A d, t \in Cpus : d # c => (Inside(d, t)' <=> Inside(d, t)) /\ Top(d)' = Top(d)
  BY DEF Inside, InGuest, Top
<1>2. \A d \in Cpus : ~Inside(d, k)
  BY DEF LockOK
<1>3. \A t \in Cpus : locked'[t] <=> (locked[t] \/ t = k)
  OBVIOUS
<1> QED BY <1>1, <1>2, <1>3 DEF LockOK

\* SGI_INJECT is pending at t, its handler runs or it is about to be sent.
Announced(t) ==
  \/ inject[t]
  \/ ~InGuest(t) /\ Top(t).kind = "inject"
  \/ \E d \in Cpus : KickIn(stack[d], t)

LEMMA KickedIs ==
  ASSUME Kicked
  PROVE  \A t \in Cpus : ring[t].head # ring[t].tail /\ ~dead => Announced(t)
BY DEF Kicked, Announced, KickIn, Kicks

LEMMA KickedKept ==
  ASSUME Kicked, dead => dead',
         \A t \in Cpus : ring'[t].head # ring'[t].tail =>
           \/ Announced(t)'
           \/ ring[t].head # ring[t].tail /\ (Announced(t) => Announced(t)')
  PROVE  Kicked'
<1>1. \A t \in Cpus : ring'[t].head # ring'[t].tail /\ ~dead' => Announced(t)'
  BY KickedIs
<1> QED BY <1>1 DEF Kicked, Announced, KickIn, Kicks

LEMMA AnnouncedKept ==
  ASSUME NEW c \in Cpus, NEW t \in Cpus, \A d \in Cpus \ {c} : stack'[d] = stack[d],
         inject[t] => Announced(t)',
         t = c /\ stack[c] # <<>> /\ Head(stack[c]).kind = "inject" => Announced(t)',
         KickIn(stack[c], t) => Announced(t)'
  PROVE  Announced(t) => Announced(t)'
<1> SUFFICES ASSUME Announced(t) PROVE Announced(t)'
  OBVIOUS
<1>1. CASE inject[t]
  BY <1>1
<1>2. CASE ~InGuest(t) /\ Top(t).kind = "inject"
  <2>1. CASE t = c
    BY <1>2, <2>1 DEF InGuest, Top
  <2>2. CASE t # c
    BY <1>2, <2>2 DEF InGuest, Top, Announced
  <2> QED BY <2>1, <2>2
<1>3. ASSUME NEW d \in Cpus, KickIn(stack[d], t) PROVE Announced(t)'
  <2>1. CASE d = c
    BY <1>3, <2>1
  <2>2. CASE d # c
    <3>1. KickIn(stack'[d], t)
      BY <1>3, <2>2
    <3> QED BY <3>1 DEF Announced
  <2> QED BY <2>1, <2>2
<1> QED BY <1>1, <1>2, <1>3 DEF Announced

\* The ring of d is used between the same positions and holds the same.
LEMMA RingKept ==
  ASSUME NEW d \in Cpus, RingHead(d)' = RingHead(d),
         ring'[d].tail = ring[d].tail, ring'[d].irqs = ring[d].irqs
  PROVE  /\ \A x : Stored(d, x)' <=> Stored(d, x)
         /\ StoredOnce(d)' <=> StoredOnce(d)
<1>1. InRing(d)' = InRing(d)
  BY DEF InRing
<1> QED BY <1>1, Zenon DEF Stored, StoredOnce

\* Cpu c changes its stack, no ring, and is not emptying one.
LEMMA RingsKept ==
  ASSUME NEW c \in Cpus, \A d \in Cpus \ {c} : stack'[d] = stack[d], ring' = ring,
         stack[c] # <<>> => Head(stack[c]).pc # "drain",
         stack'[c] # <<>> => Head(stack'[c]).pc # "drain"
  PROVE  \A d \in Cpus : /\ \A x : Stored(d, x)' <=> Stored(d, x)
                         /\ StoredOnce(d)' <=> StoredOnce(d)
<1> SUFFICES ASSUME NEW d \in Cpus
             PROVE  /\ \A x : Stored(d, x)' <=> Stored(d, x)
                    /\ StoredOnce(d)' <=> StoredOnce(d)
  OBVIOUS
<1>1. RingHead(d)' = RingHead(d)
  BY DEF RingHead, Draining, InGuest, Top
<1> QED BY <1>1, RingKept

\* Nobody gets or gives up a pending interrupt.
LEMMA OwnersKept ==
  ASSUME OwnersOK, live' = live,
         \A d \in Cpus, x \in Int : (HeldIn(stack'[d], x) <=> HeldIn(stack[d], x))
                                      /\ (Stored(d, x)' <=> Stored(d, x)),
         \A d \in Cpus : (HeldOnce(stack[d]) => HeldOnce(stack'[d]))
                           /\ (StoredOnce(d) => StoredOnce(d)'),
         live \subseteq Nat
  PROVE  OwnersOK'
<1>1. \A c \in Cpus : HeldOnce(stack'[c]) /\ StoredOnce(c)'
  BY DEF OwnersOK
<1>2. \A c \in Cpus, x \in Int : HeldIn(stack'[c], x) \/ Stored(c, x)' => x \in live'
  BY DEF OwnersOK
<1>3. \A x \in live' : \E c \in Cpus : HeldIn(stack'[c], x) \/ Stored(c, x)'
  BY DEF OwnersOK
<1>4. /\ \A c, d \in Cpus, x \in Int : HeldIn(stack'[c], x) /\ HeldIn(stack'[d], x) => c = d
      /\ \A c, d \in Cpus, x \in Int : Stored(c, x)' /\ Stored(d, x)' => c = d
      /\ \A c, d \in Cpus, x \in Int : ~(HeldIn(stack'[c], x) /\ Stored(d, x)')
  BY DEF OwnersOK
<1> QED BY <1>1, <1>2, <1>3, <1>4 DEF OwnersOK

\* The handler of cpu c allocates k.
LEMMA OwnersAllocate ==
  ASSUME OwnersOK, NEW c \in Cpus, NEW k \in Nat, k \notin live, live \subseteq Nat,
         live' = live \cup {k},
         \A d \in Cpus, x \in Int : HeldIn(stack'[d], x) <=> (HeldIn(stack[d], x) \/ (d = c /\ x = k)),
         \A d \in Cpus, x \in Int : Stored(d, x)' <=> Stored(d, x),
         \A d \in Cpus : (HeldOnce(stack[d]) => HeldOnce(stack'[d]))
                           /\ (StoredOnce(d) => StoredOnce(d)')
  PROVE  OwnersOK'
<1>0. \A d \in Cpus : ~HeldIn(stack[d], k) /\ ~Stored(d, k)
  BY DEF OwnersOK
<1>1. \A d \in Cpus : HeldOnce(stack'[d]) /\ StoredOnce(d)'
  BY DEF OwnersOK
<1>2. \A d \in Cpus, x \in Int : HeldIn(stack'[d], x) \/ Stored(d, x)' => x \in live'
  BY DEF OwnersOK
<1>3. \A x \in live' : \E d \in Cpus : HeldIn(stack'[d], x) \/ Stored(d, x)'
  BY DEF OwnersOK
<1>4. /\ \A e, d \in Cpus, x \in Int : HeldIn(stack'[e], x) /\ HeldIn(stack'[d], x) => e = d
      /\ \A e, d \in Cpus, x \in Int : Stored(e, x)' /\ Stored(d, x)' => e = d
      /\ \A e, d \in Cpus, x \in Int : ~(HeldIn(stack'[e], x) /\ Stored(d, x)')
  BY <1>0 DEF OwnersOK
<1> QED BY <1>1, <1>2, <1>3, <1>4 DEF OwnersOK

\* k is freed.
LEMMA OwnersFree ==
  ASSUME OwnersOK, NEW k \in Int, live \subseteq Nat, live' = live \ {k},
         \A d \in Cpus, x \in Int : HeldIn(stack'[d], x) <=> (HeldIn(stack[d], x) /\ x # k),
         \A d \in Cpus, x \in Int : Stored(d, x)' <=> (Stored(d, x) /\ x # k),
         \A d \in Cpus : (HeldOnce(stack[d]) => HeldOnce(stack'[d]))
                           /\ (StoredOnce(d) => StoredOnce(d)')
  PROVE  OwnersOK'
<1>1. \A d \in Cpus : HeldOnce(stack'[d]) /\ StoredOnce(d)'
  BY DEF OwnersOK
<1>2. \A d \in Cpus, x \in Int : HeldIn(stack'[d], x) \/ Stored(d, x)' => x \in live'
  BY DEF OwnersOK
<1>3. \A x \in live' : \E d \in Cpus : HeldIn(stack'[d], x) \/ Stored(d, x)'
  BY DEF OwnersOK
<1>4. /\ \A e, d \in Cpus, x \in Int : HeldIn(stack'[e], x) /\ HeldIn(stack'[d], x) => e = d
      /\ \A e, d \in Cpus, x \in Int : Stored(e, x)' /\ Stored(d, x)' => e = d
      /\ \A e, d \in Cpus, x \in Int : ~(HeldIn(stack'[e], x) /\ Stored(d, x)')
  BY DEF OwnersOK
<1> QED BY <1>1, <1>2, <1>3, <1>4 DEF OwnersOK

\* k goes from the handler of cpu c to the ring of t.
LEMMA OwnersMove ==
  ASSUME OwnersOK, NEW k \in Int, NEW c \in Cpus, NEW t \in Cpus,
         live \subseteq Nat, live' = live, HeldIn(stack[c], k),
         \A d \in Cpus, x \in Int : HeldIn(stack'[d], x) <=> (HeldIn(stack[d], x) /\ x # k),
         \A d \in Cpus, x \in Int : Stored(d, x)' <=> (Stored(d, x) \/ (d = t /\ x = k)),
         \A d \in Cpus : (HeldOnce(stack[d]) => HeldOnce(stack'[d]))
                           /\ (StoredOnce(d) => StoredOnce(d)')
  PROVE  OwnersOK'
<1>0. k \in live /\ \A d \in Cpus : ~Stored(d, k)
  BY DEF OwnersOK
<1>1. \A d \in Cpus : HeldOnce(stack'[d]) /\ StoredOnce(d)'
  BY DEF OwnersOK
<1>2. \A d \in Cpus, x \in Int : HeldIn(stack'[d], x) \/ Stored(d, x)' => x \in live'
  BY <1>0 DEF OwnersOK
<1>3. \A x \in live' : \E d \in Cpus : HeldIn(stack'[d], x) \/ Stored(d, x)'
  BY DEF OwnersOK
<1>4. /\ \A e, d \in Cpus, x \in Int : HeldIn(stack'[e], x) /\ HeldIn(stack'[d], x) => e = d
      /\ \A e, d \in Cpus, x \in Int : Stored(e, x)' /\ Stored(d, x)' => e = d
      /\ \A e, d \in Cpus, x \in Int : ~(HeldIn(stack'[e], x) /\ Stored(d, x)')
  BY <1>0 DEF OwnersOK
<1> QED BY <1>1, <1>2, <1>3, <1>4 DEF OwnersOK

-----------------------------------------------------------------------------
(* Steps.                                                                  *)

\* What is known of a cpu that runs a handler.
LEMMA TopIs ==
  ASSUME NEW c \in Cpus, Shapes, HandlersOK, ~InGuest(c)
  PROVE  /\ stack[c] \in Seq(Frames) /\ stack[c] # <<>>
         /\ Top(c) = Head(stack[c]) /\ Top(c) \in Frames /\ FrameOK(c, Top(c))
         /\ \A t : KickIn(stack[c], t) <=> (Kicks(Top(c), t) \/ KickIn(Tail(stack[c]), t))
         /\ \A x : HeldIn(stack[c], x) <=> (Has(Top(c), x) \/ HeldIn(Tail(stack[c]), x))
         /\ HeldOnce(stack[c])
              <=> (HeldOnce(Tail(stack[c]))
                     /\ (HoldsPendirq(Top(c)) => ~HeldIn(Tail(stack[c]), Top(c).pend.id)))
<1>1. stack[c] \in Seq(Frames) /\ stack[c] # <<>> /\ Top(c) = Head(stack[c])
  BY DEF Shapes, InGuest, Top
<1>2. FrameOK(c, Head(stack[c]))
  BY <1>1 DEF HandlersOK, StackOK
<1>3. PICK s \in Seq(Frames) : s = stack[c]
  BY <1>1
<1>4. /\ Head(s) \in Frames
      /\ \A t : KickIn(s, t) <=> (Kicks(Head(s), t) \/ KickIn(Tail(s), t))
      /\ \A x : HeldIn(s, x) <=> (Has(Head(s), x) \/ HeldIn(Tail(s), x))
      /\ HeldOnce(s)
           <=> (HeldOnce(Tail(s)) /\ (HoldsPendirq(Head(s)) => ~HeldIn(Tail(s), Head(s).pend.id)))
  BY <1>1, <1>3, OfTop, Zenon
<1> QED BY <1>1, <1>2, <1>3, <1>4, Zenon

\* No handler and no ring is touched.
LEMMA IdleStep ==
  ASSUME VgicInv, UNCHANGED <<stack, ring, locked, inject, live>>,
         dead => dead', dead' \in BOOLEAN, timer' \in [Cpus -> {"idle", "pending", "active"}]
  PROVE  VgicInv'
<1>1. Shapes'
  BY DEF VgicInv, Shapes
<1>2. HandlersOK'
  BY DEF VgicInv, HandlersOK
<1>3. LockOK'
  BY DEF VgicInv, LockOK, Inside, InGuest, Top
<1>4. Kicked'
  BY DEF VgicInv, Kicked, InGuest, Top
<1>5. OwnersOK'
  <2>1. \A d \in Cpus : (\A x : Stored(d, x)' <=> Stored(d, x)) /\ (StoredOnce(d)' <=> StoredOnce(d))
    <3> SUFFICES ASSUME NEW d \in Cpus
                 PROVE  (\A x : Stored(d, x)' <=> Stored(d, x)) /\ (StoredOnce(d)' <=> StoredOnce(d))
      OBVIOUS
    <3>1. RingHead(d)' = RingHead(d)
      BY DEF RingHead, Draining, InGuest, Top
    <3> QED BY <3>1, RingKept
  <2>2. OwnersOK /\ live \subseteq Nat
    BY DEF VgicInv, Shapes
  <2> QED BY <2>1, <2>2, OwnersKept
<1> QED BY <1>1, <1>2, <1>3, <1>4, <1>5 DEF VgicInv

\* Cpu c begins, goes on with or ends a handler that neither holds a ring nor
\* gets or gives up a pending interrupt.
LEMMA QuietStep ==
  ASSUME VgicInv, NEW c \in Cpus, stack' \in [Cpus -> Seq(Frames)],
         \A d \in Cpus \ {c} : stack'[d] = stack[d], StackOK(c, stack'[c]),
         UNCHANGED <<ring, locked, live, dead>>, inject' \in [Cpus -> BOOLEAN],
         timer' \in [Cpus -> {"idle", "pending", "active"}],
         stack[c] # <<>> => Head(stack[c]).pc # "drain",
         stack'[c] # <<>> => Head(stack'[c]).pc \notin {"store", "drain"},
         \A x : HeldIn(stack'[c], x) <=> HeldIn(stack[c], x),
         HeldOnce(stack'[c]) <=> HeldOnce(stack[c]),
         \A t \in Cpus : Announced(t) => Announced(t)'
  PROVE  VgicInv'
<1>1. Shapes'
  BY DEF VgicInv, Shapes
<1>2. HandlersOK'
  BY HandlersKept DEF VgicInv
<1>3. LockOK'
  BY LockKept DEF VgicInv
<1>4. Kicked'
  BY KickedKept DEF VgicInv
<1>5. OwnersOK'
  <2>1. \A d \in Cpus : (\A x : Stored(d, x)' <=> Stored(d, x)) /\ (StoredOnce(d)' <=> StoredOnce(d))
    BY RingsKept
  <2>2. \A d \in Cpus : (\A x : HeldIn(stack'[d], x) <=> HeldIn(stack[d], x))
                          /\ (HeldOnce(stack'[d]) <=> HeldOnce(stack[d]))
    <3> TAKE d \in Cpus
    <3>1. CASE d = c
      BY <3>1, Zenon
    <3>2. CASE d # c
      <4>1. stack'[d] = stack[d]
        BY <3>2
      <4> QED BY <4>1, Zenon
    <3> QED BY <3>1, <3>2
  <2>3. OwnersOK /\ live \subseteq Nat /\ live' = live
    BY DEF VgicInv, Shapes
  <2> QED BY <2>1, <2>2, <2>3, OwnersKept
<1> QED BY <1>1, <1>2, <1>3, <1>4, <1>5 DEF VgicInv

LEMMA InjectIrqStep ==
  ASSUME VgicInv, NEW c \in Cpus, InjectIrq(c)
  PROVE  VgicInv'
<1> DEFINE f == Frame("inject", "drainlock", None)
<1>0. Shapes /\ HandlersOK
  BY DEF VgicInv
<1>1. f = [kind |-> "inject", pc |-> "drainlock", virq |-> None, to |-> None, targets |-> {},
           pend |-> NoPend, seen |-> None]
  BY DEF Frame
<1>2. Interrupt(c, f) /\ inject' = [inject EXCEPT ![c] = FALSE]
      /\ UNCHANGED <<ring, locked, timer, live, dead>>
  BY DEF InjectIrq
<1> HIDE DEF f
<1>3. f \in Frames
  BY <1>1 DEF Frames, Pcs, NoPend, None, Pendirqs
<1>4. FrameOK(c, f) /\ ~HoldsPendirq(f)
  BY <1>1 DEF FrameOK, HoldsPendirq
<1>5. /\ stack' \in [Cpus -> Seq(Frames)]
      /\ \A d \in Cpus \ {c} : stack'[d] = stack[d]
      /\ stack'[c] # <<>> /\ Head(stack'[c]) = f
      /\ StackOK(c, stack'[c])
      /\ \A t : KickIn(stack'[c], t) <=> (Kicks(f, t) \/ KickIn(stack[c], t))
      /\ \A x : HeldIn(stack'[c], x) <=> HeldIn(stack[c], x)
      /\ HeldOnce(stack'[c]) <=> HeldOnce(stack[c])
      /\ stack[c] # <<>> => Head(stack[c]).kind # "inject" /\ Head(stack[c]).pc # "store"
  BY <1>0, <1>2, <1>3, <1>4, InterruptFacts, Zenon
<1>6. inject' \in [Cpus -> BOOLEAN] /\ \A t \in Cpus \ {c} : inject'[t] = inject[t]
  BY <1>0, <1>2 DEF Shapes
<1>7. stack[c] # <<>> => Head(stack[c]).pc # "drain"
  BY <1>0, <1>5, TopIs DEF InGuest, FrameOK, Top
<1>8. Announced(c)'
  BY <1>1, <1>5 DEF Announced, InGuest, Top
<1>9. ASSUME NEW t \in Cpus PROVE Announced(t) => Announced(t)'
  <2>1. inject[t] => Announced(t)'
    BY <1>6, <1>8 DEF Announced
  <2>2. KickIn(stack[c], t) => Announced(t)'
    BY <1>5 DEF Announced
  <2> QED BY <1>5, <1>8, <2>1, <2>2, AnnouncedKept
<1>10. timer' \in [Cpus -> {"idle", "pending", "active"}]
  BY <1>0, <1>2 DEF Shapes
<1>11. stack'[c] # <<>> => Head(stack'[c]).pc \notin {"store", "drain"}
  BY <1>5, <1>1
<1> QED BY <1>2, <1>5, <1>6, <1>7, <1>9, <1>10, <1>11, QuietStep

\* The interrupts whose handlers begin with vgic_inject_virq.
LEMMA VirqIrqStep ==
  ASSUME VgicInv, NEW c \in Cpus, NEW f \in Frames, f.kind # "inject", f.pc = "virq",
         Interrupt(c, f), UNCHANGED <<ring, locked, inject, live, dead>>,
         timer' \in [Cpus -> {"idle", "pending", "active"}]
  PROVE  VgicInv'
<1>0. Shapes /\ HandlersOK
  BY DEF VgicInv
<1>1. FrameOK(c, f) /\ ~HoldsPendirq(f)
  BY DEF FrameOK, HoldsPendirq
<1>2. /\ stack' \in [Cpus -> Seq(Frames)]
      /\ \A d \in Cpus \ {c} : stack'[d] = stack[d]
      /\ stack'[c] # <<>> /\ Head(stack'[c]) = f
      /\ StackOK(c, stack'[c])
      /\ \A t : KickIn(stack'[c], t) <=> (Kicks(f, t) \/ KickIn(stack[c], t))
      /\ \A x : HeldIn(stack'[c], x) <=> HeldIn(stack[c], x)
      /\ HeldOnce(stack'[c]) <=> HeldOnce(stack[c])
      /\ stack[c] # <<>> => Head(stack[c]).kind # "inject" /\ Head(stack[c]).pc # "store"
  BY <1>0, <1>1, InterruptFacts, Zenon
<1>3. stack[c] # <<>> => Head(stack[c]).pc # "drain"
  BY <1>0, <1>2, TopIs DEF InGuest, FrameOK, Top
<1>4. ASSUME NEW t \in Cpus PROVE Announced(t) => Announced(t)'
  BY <1>2, AnnouncedKept DEF Announced
<1>5. inject' \in [Cpus -> BOOLEAN]
  BY <1>0 DEF Shapes
<1>6. stack'[c] # <<>> => Head(stack'[c]).pc \notin {"store", "drain"}
  BY <1>2
<1> QED BY <1>2, <1>3, <1>4, <1>5, <1>6, QuietStep

LEMMA IrqStep ==
  ASSUME VgicInv, NEW c \in Cpus, Irq(c)
  PROVE  VgicInv'
<1>0. Shapes /\ HandlersOK
  BY DEF VgicInv
<1>1. CASE InjectIrq(c)
  BY <1>1, InjectIrqStep
<1>2. CASE TimerIrq(c)
  <2> DEFINE f == [Frame("timer", "virq", Timer) EXCEPT !.to = c]
  <2>1. f \in Frames /\ f.kind = "timer" /\ f.pc = "virq"
    BY VgicAssumption DEF Frame, Frames, Pcs, NoPend, None, Pendirqs
  <2>2. timer' \in [Cpus -> {"idle", "pending", "active"}]
    BY <1>0, <1>2 DEF Shapes, TimerIrq
  <2>3. Interrupt(c, f) /\ UNCHANGED <<ring, locked, inject, live, dead>>
    BY <1>2 DEF TimerIrq
  <2> HIDE DEF f
  <2> QED BY <2>1, <2>2, <2>3, VirqIrqStep
<1>3. ASSUME NEW to \in MsgVcpus, NEW v \in Sgis, RecvSgiMsg(c, to, v) PROVE VgicInv'
  <2> DEFINE f == [Frame("msg", "virq", v) EXCEPT !.to = to]
  <2>1. f \in Frames /\ f.kind = "msg" /\ f.pc = "virq"
    BY VgicAssumption DEF Frame, Frames, Pcs, NoPend, None, Pendirqs
  <2>2. timer' \in [Cpus -> {"idle", "pending", "active"}]
    BY <1>0, <1>3 DEF Shapes, RecvSgiMsg
  <2>3. Interrupt(c, f) /\ UNCHANGED <<ring, locked, inject, live, dead>>
    BY <1>3 DEF RecvSgiMsg
  <2> HIDE DEF f
  <2> QED BY <2>1, <2>2, <2>3, VirqIrqStep
<1> QED BY <1>1, <1>2, <1>3 DEF Irq

\* The guest, TimerFires and vgic_cpu_init.
LEMMA EmulateSgiStep ==
  ASSUME VgicInv, NEW c \in Cpus, NEW v \in Sgis, NEW T \in Targets[c], EmulateSgi(c, v, T)
  PROVE  VgicInv'
<1> DEFINE f == SgiFrame(v, T)
<1>0. Shapes /\ HandlersOK
  BY DEF VgicInv
<1>1. T # {} /\ T \subseteq Nat
  BY VgicAssumption
<1>2. f \in Frames /\ FrameOK(c, f) /\ f.kind = "sgi" /\ f.pc = "virq"
  BY <1>1, SgiFrameFacts
<1>3. stack[c] = <<>> /\ stack' = [stack EXCEPT ![c] = <<f>>]
  BY DEF EmulateSgi, InGuest
<1> HIDE DEF f
<1>4. ~HoldsPendirq(f)
  BY <1>2 DEF HoldsPendirq
<1>5. <<f>> \in Seq(Frames) /\ <<f>> # <<>> /\ Head(<<f>>) = f /\ Tail(<<f>>) = <<>>
      /\ Len(<<f>>) = 1 /\ <<f>>[1] = f
  BY <1>2
<1>6. /\ stack' \in [Cpus -> Seq(Frames)] /\ stack'[c] = <<f>>
      /\ \A d \in Cpus \ {c} : stack'[d] = stack[d]
  BY <1>0, <1>3, <1>5 DEF Shapes
<1>7. StackOK(c, stack'[c])
  BY <1>2, <1>5, <1>6 DEF StackOK, BelowOK
<1>8. PICK g : g = <<f>>
  OBVIOUS
<1>9. (\A x : ~HeldIn(g, x) /\ ~HeldIn(<<>>, x)) /\ HeldOnce(g) /\ HeldOnce(<<>>)
  BY <1>4, <1>5, <1>8 DEF HeldIn, HeldOnce, Has
<1>10. /\ \A x : HeldIn(stack'[c], x) <=> HeldIn(stack[c], x)
       /\ HeldOnce(stack'[c]) <=> HeldOnce(stack[c])
  BY <1>3, <1>6, <1>8, <1>9, Zenon
<1>11. \A t : ~KickIn(stack[c], t)
  BY <1>3 DEF KickIn
<1>12. inject' = inject /\ timer' = timer /\ UNCHANGED <<ring, locked, live, dead>>
  BY DEF EmulateSgi
<1>13. ASSUME NEW t \in Cpus PROVE Announced(t) => Announced(t)'
  BY <1>3, <1>6, <1>11, <1>12, AnnouncedKept DEF Announced
<1>14. inject' \in [Cpus -> BOOLEAN] /\ timer' \in [Cpus -> {"idle", "pending", "active"}]
  BY <1>0, <1>12 DEF Shapes
<1>15. stack'[c] # <<>> => Head(stack'[c]).pc \notin {"store", "drain"}
  BY <1>2, <1>5, <1>6
<1> QED BY <1>3, <1>6, <1>7, <1>10, <1>12, <1>13, <1>14, <1>15, QuietStep

LEMMA OutsideStep ==
  ASSUME VgicInv, NEW c \in Cpus, Guest(c) \/ vgic_cpu_init(c) \/ TimerFires(c)
  PROVE  VgicInv'
<1>0. timer \in [Cpus -> {"idle", "pending", "active"}] /\ dead \in BOOLEAN
  BY DEF VgicInv, Shapes
<1>1. ASSUME NEW v \in Sgis, NEW T \in Targets[c], EmulateSgi(c, v, T) PROVE VgicInv'
  BY <1>1, EmulateSgiStep
<1>2. ASSUME NEW i \in Lrs, GuestAck(c, i) \/ GuestEoi(c, i) PROVE VgicInv'
  <2>1. /\ UNCHANGED <<stack, ring, locked, inject, live, dead>>
        /\ timer' \in [Cpus -> {"idle", "pending", "active"}]
    BY <1>0, <1>2 DEF GuestAck, GuestEoi
  <2> QED BY <2>1, <1>0, IdleStep
<1>3. CASE vgic_cpu_init(c)
  BY <1>3, <1>0, IdleStep DEF vgic_cpu_init
<1>4. CASE TimerFires(c)
  <2>1. /\ UNCHANGED <<stack, ring, locked, inject, live, dead>>
        /\ timer' \in [Cpus -> {"idle", "pending", "active"}]
    BY <1>0, <1>4 DEF TimerFires
  <2> QED BY <2>1, <1>0, IdleStep
<1> QED BY <1>1, <1>2, <1>3, <1>4 DEF Guest

LEMMA PanicStep ==
  ASSUME VgicInv, Panic, timer' = timer
  PROVE  VgicInv'
BY IdleStep DEF Panic, VgicInv, Shapes

\* A target has been served without a list register or a ring.
LEMMA ServedStep ==
  ASSUME VgicInv, NEW c \in Cpus, ~InGuest(c), Top(c).pc \in {"virq", "kick"}, Done(c),
         UNCHANGED <<ring, locked, live, dead, timer>>, inject' \in [Cpus -> BOOLEAN],
         \A t \in Cpus : inject[t] \/ Kicks(Top(c), t) => inject'[t]
  PROVE  VgicInv'
<1>0. Shapes /\ HandlersOK
  BY DEF VgicInv
<1>1. /\ stack' \in [Cpus -> Seq(Frames)]
      /\ \A d \in Cpus \ {c} : stack'[d] = stack[d]
      /\ StackOK(c, stack'[c])
      /\ stack'[c] # <<>> => Head(stack'[c]).kind # "inject" /\ Head(stack'[c]).pc \notin {"store", "drain"}
      /\ \A t : KickIn(stack'[c], t) <=> KickIn(Tail(stack[c]), t)
      /\ \A x : HeldIn(stack'[c], x) <=> HeldIn(Tail(stack[c]), x)
      /\ HeldOnce(stack'[c]) <=> HeldOnce(Tail(stack[c]))
  BY <1>0, DoneFacts, Zenon
<1>2. /\ stack[c] # <<>> /\ Top(c) = Head(stack[c]) /\ FrameOK(c, Top(c))
      /\ \A t : KickIn(stack[c], t) <=> (Kicks(Top(c), t) \/ KickIn(Tail(stack[c]), t))
      /\ \A x : HeldIn(stack[c], x) <=> (Has(Top(c), x) \/ HeldIn(Tail(stack[c]), x))
      /\ HeldOnce(stack[c])
           <=> (HeldOnce(Tail(stack[c]))
                  /\ (HoldsPendirq(Top(c)) => ~HeldIn(Tail(stack[c]), Top(c).pend.id)))
  BY <1>0, TopIs, Zenon
<1>3. ~HoldsPendirq(Top(c)) /\ \A x : ~Has(Top(c), x)
  BY DEF HoldsPendirq, Has
<1>4. /\ \A x : HeldIn(stack'[c], x) <=> HeldIn(stack[c], x)
      /\ HeldOnce(stack'[c]) <=> HeldOnce(stack[c])
  BY <1>1, <1>2, <1>3, Zenon
<1>5. ASSUME NEW t \in Cpus PROVE Announced(t) => Announced(t)'
  <2>1. inject[t] => Announced(t)'
    BY DEF Announced
  <2>2. KickIn(stack[c], t) => Announced(t)'
    BY <1>1, <1>2 DEF Announced
  <2>3. Head(stack[c]).kind # "inject"
    BY <1>2 DEF FrameOK
  <2> QED BY <1>1, <2>1, <2>2, <2>3, AnnouncedKept
<1>6. timer' \in [Cpus -> {"idle", "pending", "active"}]
  BY <1>0 DEF Shapes
<1>7. stack[c] # <<>> => Head(stack[c]).pc # "drain"
  BY <1>2
<1> QED BY <1>1, <1>4, <1>5, <1>6, <1>7, QuietStep

LEMMA SendInjectSgiStep ==
  ASSUME VgicInv, NEW c \in Cpus, SendInjectSgi(c)
  PROVE  VgicInv'
<1>0. Shapes /\ HandlersOK
  BY DEF VgicInv
<1>1. ~InGuest(c) /\ Top(c).pc = "kick" /\ Done(c) /\ UNCHANGED <<ring, locked, live, dead, timer>>
  BY DEF SendInjectSgi, At
<1>2. Top(c).to \in Cpus
  BY <1>0, <1>1, TopIs DEF FrameOK
<1>3. inject' = [inject EXCEPT ![Top(c).to] = TRUE] /\ inject \in [Cpus -> BOOLEAN]
  BY <1>0 DEF SendInjectSgi, Shapes
<1>4. /\ inject' \in [Cpus -> BOOLEAN]
      /\ \A t \in Cpus : inject[t] \/ Kicks(Top(c), t) => inject'[t]
  BY <1>2, <1>3 DEF Kicks
<1> QED BY <1>1, <1>4, ServedStep

LEMMA SendSgiMsgStep ==
  ASSUME VgicInv, NEW c \in Cpus, SendSgiMsg(c)
  PROVE  VgicInv'
<1>1. /\ ~InGuest(c) /\ Top(c).pc = "virq" /\ Done(c)
      /\ UNCHANGED <<ring, locked, live, dead, timer, inject>>
  BY DEF SendSgiMsg, At
<1>2. inject' \in [Cpus -> BOOLEAN] /\ \A t \in Cpus : inject[t] \/ Kicks(Top(c), t) => inject'[t]
  BY <1>1 DEF Kicks, VgicInv, Shapes
<1> QED BY <1>1, <1>2, ServedStep

\* malloc in vgic_inject_virq.
LEMMA NewPendirqFacts ==
  ASSUME NEW c \in Cpus, Shapes, Top(c) \in Frames
  PROVE  /\ NewPendirq(c) \in Pendirqs /\ NewPendirq(c).id \in Nat
         /\ NewPendirq(c).id \notin live
<1> DEFINE k == CHOOSE i \in 0..Cardinality(live) : i \notin live
<1>1. live \subseteq Nat /\ IsFiniteSet(live)
  BY DEF Shapes
<1>2. \E i \in 0..Cardinality(live) : i \notin live
  BY <1>1, FreshExists
<1>3. k \in 0..Cardinality(live) /\ k \notin live
  BY <1>2
<1>4. Cardinality(live) \in Nat
  BY <1>1, FS_CardinalityType
<1>5. NewPendirq(c) = [id |-> k, virq |-> Top(c).virq]
  BY Zenon DEF NewPendirq
<1> HIDE DEF k
<1>6. Top(c).virq \in Int
  <2>1. Sgis \subseteq Int
    BY VgicAssumption
  <2>2. Timer \in Int /\ None \in Int
    BY DEF Timer, None
  <2>3. Top(c).virq \in Sgis \cup {Timer, None}
    BY DEF Frames
  <2> QED BY <2>1, <2>2, <2>3
<1> QED BY <1>3, <1>4, <1>5, <1>6 DEF Pendirqs

LEMMA LiveFacts ==
  ASSUME Shapes, NEW k
  PROVE  /\ live \ {k} \subseteq Nat /\ IsFiniteSet(live \ {k})
         /\ k \in Nat => live \cup {k} \subseteq Nat /\ IsFiniteSet(live \cup {k})
<1>1. live \subseteq Nat /\ IsFiniteSet(live)
  BY DEF Shapes
<1>2. IsFiniteSet(live \ {k}) /\ IsFiniteSet(live \cup {k})
  BY <1>1, FS_AddElement, FS_RemoveElement
<1> QED BY <1>1, <1>2

\* The innermost handler of cpu c allocates a pending interrupt and becomes f.
LEMMA AllocateFacts ==
  ASSUME VgicInv, NEW c \in Cpus, ~InGuest(c), Top(c).pc = "virq",
         NEW f \in Frames, FrameOK(c, f), f.pc \in {"write", "store"}, f.kind = Top(c).kind,
         f.pend = NewPendirq(c), Set(c, f), ring' = ring,
         live' = live \cup {NewPendirq(c).id}
  PROVE  /\ stack' \in [Cpus -> Seq(Frames)]
         /\ \A d \in Cpus \ {c} : stack'[d] = stack[d]
         /\ stack'[c] # <<>> /\ Head(stack'[c]) = f
         /\ live' \subseteq Nat /\ IsFiniteSet(live')
         /\ HandlersOK' /\ OwnersOK'
         /\ \A t : KickIn(stack'[c], t) <=> KickIn(stack[c], t)
<1>0. Shapes /\ HandlersOK /\ OwnersOK
  BY DEF VgicInv
<1>1. /\ stack[c] # <<>> /\ Top(c) = Head(stack[c]) /\ Top(c) \in Frames
      /\ \A t : KickIn(stack[c], t) <=> (Kicks(Top(c), t) \/ KickIn(Tail(stack[c]), t))
      /\ \A x : HeldIn(stack[c], x) <=> (Has(Top(c), x) \/ HeldIn(Tail(stack[c]), x))
      /\ HeldOnce(stack[c])
           <=> (HeldOnce(Tail(stack[c]))
                  /\ (HoldsPendirq(Top(c)) => ~HeldIn(Tail(stack[c]), Top(c).pend.id)))
  BY <1>0, TopIs, Zenon
<1>2. /\ stack' \in [Cpus -> Seq(Frames)]
      /\ \A d \in Cpus \ {c} : stack'[d] = stack[d]
      /\ stack'[c] # <<>> /\ Head(stack'[c]) = f
      /\ StackOK(c, stack'[c])
      /\ \A t : KickIn(stack'[c], t) <=> (Kicks(f, t) \/ KickIn(Tail(stack[c]), t))
      /\ \A x : HeldIn(stack'[c], x) <=> (Has(f, x) \/ HeldIn(Tail(stack[c]), x))
      /\ HeldOnce(stack'[c])
           <=> (HeldOnce(Tail(stack[c])) /\ (HoldsPendirq(f) => ~HeldIn(Tail(stack[c]), f.pend.id)))
  BY <1>0, SetFacts, Zenon
<1>3. PICK k : k = NewPendirq(c).id
  OBVIOUS
<1>4. k \in Nat /\ k \notin live /\ live' = live \cup {k} /\ f.pend.id = k
  BY <1>0, <1>1, <1>3, NewPendirqFacts
<1>5. /\ ~HoldsPendirq(Top(c)) /\ (\A x : ~Has(Top(c), x)) /\ (\A t : ~Kicks(Top(c), t))
      /\ (\A x : Has(f, x) <=> x = k) /\ (\A t : ~Kicks(f, t))
  BY <1>4 DEF HoldsPendirq, Has, Kicks
<1>6. HandlersOK'
  BY <1>0, <1>2, HandlersKept
<1>7. live' \subseteq Nat /\ IsFiniteSet(live')
  BY <1>0, <1>4, LiveFacts
<1>8. \A x : HeldIn(stack'[c], x) <=> (HeldIn(stack[c], x) \/ x = k)
  BY <1>1, <1>2, <1>5, Zenon
<1>9. ~HeldIn(stack[c], k)
  <2>1. k \in Int
    BY <1>4
  <2> QED BY <1>0, <1>4, <2>1 DEF OwnersOK
<1>10. HeldOnce(stack[c]) => HeldOnce(stack'[c])
  BY <1>1, <1>2, <1>4, <1>5, <1>9, Zenon
<1>11. OwnersOK'
  <2>1. \A d \in Cpus : (\A x : Stored(d, x)' <=> Stored(d, x)) /\ (StoredOnce(d)' <=> StoredOnce(d))
    BY <1>1, <1>2, RingsKept
  <2>2. \A d \in Cpus, x \in Int : HeldIn(stack'[d], x) <=> (HeldIn(stack[d], x) \/ (d = c /\ x = k))
    BY <1>2, <1>8
  <2>3. \A d \in Cpus : HeldOnce(stack[d]) => HeldOnce(stack'[d])
    BY <1>2, <1>10
  <2>4. live \subseteq Nat
    BY <1>0 DEF Shapes
  <2> QED BY <2>1, <2>2, <2>3, <2>4, <1>0, <1>4, OwnersAllocate
<1>12. \A t : KickIn(stack'[c], t) <=> KickIn(stack[c], t)
  BY <1>1, <1>2, <1>5, Zenon
<1> QED BY <1>2, <1>6, <1>7, <1>11, <1>12

LEMMA ScanLrsStep ==
  ASSUME VgicInv, NEW c \in Cpus, ScanLrs(c)
  PROVE  VgicInv'
<1>0. Shapes /\ HandlersOK /\ LockOK /\ Kicked
  BY DEF VgicInv
<1>1. ~dead /\ ~InGuest(c) /\ Top(c).pc = "virq" /\ timer' = timer
  BY DEF ScanLrs, At
<1>2. CASE Busy(c, Top(c).virq)
  <2>1. Done(c) /\ UNCHANGED <<ring, locked, inject, live, dead>>
    BY <1>2 DEF ScanLrs
  <2>2. inject' \in [Cpus -> BOOLEAN] /\ \A t \in Cpus : inject[t] \/ Kicks(Top(c), t) => inject'[t]
    BY <2>1, <1>0, <1>1 DEF Kicks, Shapes
  <2> QED BY <1>1, <2>1, <2>2, ServedStep
<1>3. CASE ~Busy(c, Top(c).virq) /\ FreeLrs(c) = {}
  BY <1>1, <1>3, PanicStep DEF ScanLrs
<1>4. CASE ~Busy(c, Top(c).virq) /\ FreeLrs(c) # {}
  <2> DEFINE f == [Top(c) EXCEPT !.pc = "write", !.seen = FreeLr(c), !.pend = NewPendirq(c)]
  <2>1. /\ Set(c, f) /\ live' = live \cup {NewPendirq(c).id}
        /\ UNCHANGED <<ring, locked, inject, dead>>
    BY <1>4 DEF ScanLrs
  <2>2. Top(c) \in Frames /\ FrameOK(c, Top(c)) /\ stack[c] # <<>> /\ Top(c) = Head(stack[c])
    BY <1>0, <1>1, TopIs
  <2>3. FreeLr(c) \in Int
    <3>1. FreeLrs(c) \subseteq Nat
      BY VgicAssumption DEF FreeLrs
    <3>2. \E i \in FreeLrs(c) : \A j \in FreeLrs(c) : i <= j
      BY <3>1, <1>4, LeastExists
    <3>3. FreeLr(c) \in FreeLrs(c)
      BY <3>2 DEF FreeLr
    <3> QED BY <3>1, <3>3
  <2>4. NewPendirq(c) \in Pendirqs
    BY <1>0, <2>2, NewPendirqFacts
  <2>5. f \in Frames /\ f.pc = "write" /\ f.kind = Top(c).kind /\ f.pend = NewPendirq(c)
        /\ f.targets = Top(c).targets
    BY <2>2, <2>3, <2>4 DEF Frames, Pcs
  <2>6. FrameOK(c, f)
    BY <2>2, <2>5, <1>1 DEF FrameOK
  <2> HIDE DEF f
  <2>7. /\ stack' \in [Cpus -> Seq(Frames)]
        /\ \A d \in Cpus \ {c} : stack'[d] = stack[d]
        /\ stack'[c] # <<>> /\ Head(stack'[c]) = f
        /\ live' \subseteq Nat /\ IsFiniteSet(live')
        /\ HandlersOK' /\ OwnersOK'
        /\ \A t : KickIn(stack'[c], t) <=> KickIn(stack[c], t)
    BY <1>1, <2>1, <2>5, <2>6, AllocateFacts
  <2>8. Shapes'
    BY <2>7, <2>1, <1>0, <1>1 DEF Shapes
  <2>9. LockOK'
    BY <2>7, <2>1, <2>5, <1>0, LockKept
  <2>10. Head(stack[c]).kind # "inject"
    BY <2>2, <1>1 DEF FrameOK
  <2>11. ASSUME NEW t \in Cpus PROVE Announced(t) => Announced(t)'
    BY <2>7, <2>1, <2>10, AnnouncedKept DEF Announced
  <2>12. Kicked'
    BY <2>11, <2>1, <1>0, KickedKept
  <2> QED BY <2>7, <2>8, <2>9, <2>12 DEF VgicInv
<1> QED BY <1>2, <1>3, <1>4

LEMMA LockRingStep ==
  ASSUME VgicInv, NEW c \in Cpus, LockRing(c)
  PROVE  VgicInv'
<1>0. Shapes /\ HandlersOK /\ LockOK /\ Kicked
  BY DEF VgicInv
<1>1. PICK k : k = Top(c).to
  OBVIOUS
<1> DEFINE f == [Top(c) EXCEPT !.pc = "store", !.seen = ring[k].tail, !.pend = NewPendirq(c)]
<1>2. /\ ~dead /\ ~InGuest(c) /\ Top(c).pc = "virq" /\ k \in Cpus \ {c} /\ ~locked[k]
      /\ locked' = [locked EXCEPT ![k] = TRUE] /\ Set(c, f)
      /\ live' = live \cup {NewPendirq(c).id} /\ UNCHANGED <<ring, inject, timer, dead>>
  BY <1>1 DEF LockRing, At
<1>3. Top(c) \in Frames /\ FrameOK(c, Top(c)) /\ stack[c] # <<>> /\ Top(c) = Head(stack[c])
  BY <1>0, <1>2, TopIs
<1>4. NewPendirq(c) \in Pendirqs
  BY <1>0, <1>3, NewPendirqFacts
<1>5. ring[k].tail \in Int
  BY <1>0, <1>2, VgicAssumption DEF Shapes, Slots
<1>6. /\ f \in Frames /\ f.pc = "store" /\ f.kind = Top(c).kind /\ f.pend = NewPendirq(c)
      /\ f.targets = Top(c).targets /\ f.to = k /\ f.seen = ring[k].tail
  BY <1>1, <1>3, <1>4, <1>5 DEF Frames, Pcs
<1>7. FrameOK(c, f)
  BY <1>3, <1>6, <1>2 DEF FrameOK
<1> HIDE DEF f
<1>8. /\ stack' \in [Cpus -> Seq(Frames)]
      /\ \A d \in Cpus \ {c} : stack'[d] = stack[d]
      /\ stack'[c] # <<>> /\ Head(stack'[c]) = f
      /\ live' \subseteq Nat /\ IsFiniteSet(live')
      /\ HandlersOK' /\ OwnersOK'
      /\ \A t : KickIn(stack'[c], t) <=> KickIn(stack[c], t)
  BY <1>2, <1>6, <1>7, AllocateFacts
<1>9. Shapes'
  BY <1>8, <1>2, <1>0 DEF Shapes
<1>10. LockOK'
  <2>1. Top(c)' = f
    BY <1>8 DEF Top
  <2>2. \A t \in Cpus : Inside(c, t)' => t = k
    BY <2>1, <1>6 DEF Inside
  <2>3. locked \in [Cpus -> BOOLEAN]
    BY <1>0 DEF Shapes
  <2> QED BY <2>1, <2>2, <2>3, <1>0, <1>2, <1>6, <1>8, LockTaken
<1>11. Head(stack[c]).kind # "inject"
  BY <1>3, <1>2 DEF FrameOK
<1>12. ASSUME NEW t \in Cpus PROVE Announced(t) => Announced(t)'
  BY <1>8, <1>2, <1>11, AnnouncedKept DEF Announced
<1>13. Kicked'
  BY <1>12, <1>2, <1>0, KickedKept
<1> QED BY <1>8, <1>9, <1>10, <1>13 DEF VgicInv

LEMMA WriteLrStep ==
  ASSUME VgicInv, NEW c \in Cpus, WriteLr(c)
  PROVE  VgicInv'
<1>0. Shapes /\ HandlersOK /\ LockOK /\ Kicked /\ OwnersOK
  BY DEF VgicInv
<1>1. PICK k : k = Top(c).pend.id
  OBVIOUS
<1>2. /\ ~dead /\ ~InGuest(c) /\ Top(c).pc = "write" /\ Done(c)
      /\ live' = live \ {k} /\ UNCHANGED <<ring, locked, inject, timer, dead>>
  BY <1>1 DEF WriteLr, At, FreePendirq
<1>3. /\ stack[c] # <<>> /\ Top(c) = Head(stack[c]) /\ Top(c) \in Frames /\ FrameOK(c, Top(c))
      /\ \A t : KickIn(stack[c], t) <=> (Kicks(Top(c), t) \/ KickIn(Tail(stack[c]), t))
      /\ \A x : HeldIn(stack[c], x) <=> (Has(Top(c), x) \/ HeldIn(Tail(stack[c]), x))
      /\ HeldOnce(stack[c])
           <=> (HeldOnce(Tail(stack[c]))
                  /\ (HoldsPendirq(Top(c)) => ~HeldIn(Tail(stack[c]), Top(c).pend.id)))
  BY <1>0, <1>2, TopIs, Zenon
<1>4. /\ stack' \in [Cpus -> Seq(Frames)]
      /\ \A d \in Cpus \ {c} : stack'[d] = stack[d]
      /\ StackOK(c, stack'[c])
      /\ stack'[c] # <<>> => Head(stack'[c]).kind # "inject" /\ Head(stack'[c]).pc \notin {"store", "drain"}
      /\ \A t : KickIn(stack'[c], t) <=> KickIn(Tail(stack[c]), t)
      /\ \A x : HeldIn(stack'[c], x) <=> HeldIn(Tail(stack[c]), x)
      /\ HeldOnce(stack'[c]) <=> HeldOnce(Tail(stack[c]))
  BY <1>0, <1>2, DoneFacts, Zenon
<1>5. /\ HoldsPendirq(Top(c)) /\ (\A x : Has(Top(c), x) <=> x = k) /\ (\A t : ~Kicks(Top(c), t))
  BY <1>1, <1>2 DEF HoldsPendirq, Has, Kicks
<1>6. k \in Int
  BY <1>1, <1>3 DEF Frames, Pendirqs
<1>7. Shapes'
  BY <1>0, <1>2, <1>4, LiveFacts DEF Shapes
<1>8. HandlersOK'
  BY <1>0, <1>4, HandlersKept
<1>9. LockOK'
  BY <1>0, <1>2, <1>4, LockKept
<1>10. Kicked'
  <2>1. Head(stack[c]).kind # "inject"
    BY <1>2, <1>3 DEF FrameOK
  <2>2. ASSUME NEW t \in Cpus PROVE Announced(t) => Announced(t)'
    BY <1>2, <1>3, <1>4, <1>5, <2>1, AnnouncedKept DEF Announced
  <2> QED BY <2>2, <1>2, <1>0, KickedKept
<1>11. OwnersOK'
  <2>0. HeldOnce(stack[c]) /\ HeldIn(stack[c], k)
    BY <1>0, <1>3, <1>5 DEF OwnersOK
  <2>1. \A x : HeldIn(stack'[c], x) <=> (HeldIn(stack[c], x) /\ x # k)
    BY <2>0, <1>1, <1>3, <1>4, <1>5, Zenon
  <2>2. \A d \in Cpus, x \in Int : HeldIn(stack'[d], x) <=> (HeldIn(stack[d], x) /\ x # k)
    <3> TAKE d \in Cpus, x \in Int
    <3>1. CASE d = c
      BY <2>1, <3>1
    <3>2. CASE d # c
      BY <2>0, <3>2, <1>4, <1>0, <1>6 DEF OwnersOK
    <3> QED BY <3>1, <3>2
  <2>3. \A d \in Cpus : (\A x : Stored(d, x)' <=> Stored(d, x)) /\ (StoredOnce(d)' <=> StoredOnce(d))
    BY <1>2, <1>3, <1>4, RingsKept
  <2>4. \A d \in Cpus : ~Stored(d, k)
    BY <2>0, <1>0, <1>6 DEF OwnersOK
  <2>5. \A d \in Cpus, x \in Int : Stored(d, x)' <=> (Stored(d, x) /\ x # k)
    BY <2>3, <2>4
  <2>6. \A d \in Cpus : HeldOnce(stack[d]) => HeldOnce(stack'[d])
    BY <1>3, <1>4, <2>0
  <2>7. live \subseteq Nat
    BY <1>0 DEF Shapes
  <2> QED BY <2>2, <2>3, <2>5, <2>6, <2>7, <1>0, <1>2, <1>6, OwnersFree
<1> QED BY <1>7, <1>8, <1>9, <1>10, <1>11 DEF VgicInv

\* A slot is filled at the tail of a ring that is not full.
LEMMA RingStore ==
  ASSUME NEW t \in Cpus, Shapes, NEW p \in Pendirqs, RingHead(t) = ring[t].head,
         NextSlot(ring[t].tail) # ring[t].head, RingHead(t)' = ring'[t].head,
         ring' = [ring EXCEPT ![t].irqs[ring[t].tail] = p, ![t].tail = NextSlot(ring[t].tail)],
         StoredOnce(t), ~Stored(t, p.id)
  PROVE  /\ ring' \in [Cpus -> [irqs : [Slots -> Pendirqs], head : Slots, tail : Slots]]
         /\ \A d \in Cpus \ {t} : ring'[d] = ring[d]
         /\ \A x : Stored(t, x)' <=> (Stored(t, x) \/ x = p.id)
         /\ StoredOnce(t)'
<1>1. /\ ring \in [Cpus -> [irqs : [Slots -> Pendirqs], head : Slots, tail : Slots]]
      /\ ring[t].irqs \in [Slots -> Pendirqs] /\ ring[t].head \in Slots /\ ring[t].tail \in Slots
  BY DEF Shapes
<1>2. NextSlot(ring[t].tail) \in Slots
  BY <1>1, NextSlotIs
<1>3. PICK i \in Slots : i = ring[t].tail
  BY <1>1
<1>4. PICK n \in Slots : n = NextSlot(ring[t].tail)
  BY <1>2
<1>5. /\ ring'[t].irqs = [ring[t].irqs EXCEPT ![i] = p]
      /\ ring'[t].head = ring[t].head /\ ring'[t].tail = n
      /\ \A d \in Cpus \ {t} : ring'[d] = ring[d]
      /\ ring' \in [Cpus -> [irqs : [Slots -> Pendirqs], head : Slots, tail : Slots]]
  <2>1. ring' = [ring EXCEPT ![t] = [ring[t] EXCEPT !.irqs = [ring[t].irqs EXCEPT ![i] = p],
                                                    !.tail = n]]
    BY <1>1, <1>3, <1>4
  <2>2. [ring[t].irqs EXCEPT ![i] = p] \in [Slots -> Pendirqs]
    BY <1>1
  <2>3. PICK g \in [Slots -> Pendirqs] : g = [ring[t].irqs EXCEPT ![i] = p]
    BY <2>2
  <2>4. PICK r : r = [ring[t] EXCEPT !.irqs = g, !.tail = n]
    OBVIOUS
  <2>5. /\ r \in [irqs : [Slots -> Pendirqs], head : Slots, tail : Slots]
        /\ r.irqs = g /\ r.head = ring[t].head /\ r.tail = n
    BY <2>4, <1>1
  <2>6. ring' = [ring EXCEPT ![t] = r]
    BY <2>1, <2>3, <2>4
  <2>7. /\ ring'[t] = r /\ \A d \in Cpus \ {t} : ring'[d] = ring[d]
        /\ ring' \in [Cpus -> [irqs : [Slots -> Pendirqs], head : Slots, tail : Slots]]
    BY <2>5, <2>6, <1>1
  <2> QED BY <2>3, <2>5, <2>7
<1>6. /\ i \notin Used(ring[t].head, i)
      /\ Used(ring[t].head, n) = Used(ring[t].head, i) \cup {i}
  BY <1>1, <1>3, <1>4, RingFacts
<1>7. InRing(t) = Used(ring[t].head, i) /\ InRing(t)' = Used(ring[t].head, n)
  BY <1>3, <1>5 DEF InRing, Used, Slots
<1>8. InRing(t)' = InRing(t) \cup {i} /\ i \notin InRing(t) /\ InRing(t) \subseteq Slots
  BY <1>6, <1>7 DEF Used
<1>9. ring'[t].irqs[i] = p /\ \A j \in InRing(t) : ring'[t].irqs[j] = ring[t].irqs[j]
  BY <1>1, <1>5, <1>8
<1>10. \A x : Stored(t, x)' <=> (Stored(t, x) \/ x = p.id)
  BY <1>8, <1>9 DEF Stored
<1>11. StoredOnce(t)'
  BY <1>8, <1>9 DEF Stored, StoredOnce
<1> QED BY <1>5, <1>10, <1>11

LEMMA StorePendirqStep ==
  ASSUME VgicInv, NEW c \in Cpus, StorePendirq(c)
  PROVE  VgicInv'
<1>0. Shapes /\ HandlersOK /\ LockOK /\ Kicked /\ OwnersOK
  BY DEF VgicInv
<1>1. PICK t : t = Top(c).to
  OBVIOUS
<1>2. ~dead /\ ~InGuest(c) /\ Top(c).pc = "store" /\ timer' = timer
  BY DEF StorePendirq, At
<1>3. /\ stack[c] # <<>> /\ Top(c) = Head(stack[c]) /\ Top(c) \in Frames /\ FrameOK(c, Top(c))
      /\ \A e : KickIn(stack[c], e) <=> (Kicks(Top(c), e) \/ KickIn(Tail(stack[c]), e))
      /\ \A x : HeldIn(stack[c], x) <=> (Has(Top(c), x) \/ HeldIn(Tail(stack[c]), x))
      /\ HeldOnce(stack[c])
           <=> (HeldOnce(Tail(stack[c]))
                  /\ (HoldsPendirq(Top(c)) => ~HeldIn(Tail(stack[c]), Top(c).pend.id)))
  BY <1>0, <1>2, TopIs, Zenon
<1>4. t \in Cpus /\ t # c
  BY <1>1, <1>2, <1>3 DEF FrameOK
<1>5. Inside(c, t)
  BY <1>1, <1>2 DEF Inside
<1>6. Top(c).seen = ring[t].tail /\ \A d \in Cpus : Inside(d, t) => d = c
  BY <1>0, <1>2, <1>4, <1>5 DEF LockOK
<1>7. CASE NextSlot(Top(c).seen) = ring[t].head
  BY <1>1, <1>2, <1>7, PanicStep DEF StorePendirq
<1>8. CASE NextSlot(Top(c).seen) # ring[t].head
  <2> DEFINE f == [Top(c) EXCEPT !.pc = "kick", !.pend = NoPend, !.seen = None]
  <2>1. PICK p : p = Top(c).pend
    OBVIOUS
  <2>2. PICK k : k = p.id
    OBVIOUS
  <2>3. /\ ring' = [ring EXCEPT ![t].irqs[ring[t].tail] = p, ![t].tail = NextSlot(ring[t].tail)]
        /\ locked' = [locked EXCEPT ![t] = FALSE] /\ Set(c, f) /\ UNCHANGED <<inject, live, dead>>
    BY <1>1, <1>6, <1>8, <2>1 DEF StorePendirq
  <2>4. /\ f \in Frames /\ f.pc = "kick" /\ f.kind = Top(c).kind /\ f.targets = Top(c).targets
        /\ f.to = t
    <3>1. NoPend \in Pendirqs /\ None \in Int
      BY DEF NoPend, None, Pendirqs
    <3> QED BY <3>1, <1>1, <1>3 DEF Frames, Pcs
  <2>5. FrameOK(c, f)
    BY <1>2, <1>3, <1>4, <2>4 DEF FrameOK
  <2> HIDE DEF f
  <2>6. p \in Pendirqs /\ k \in Int
    BY <1>3, <2>1, <2>2 DEF Frames, Pendirqs
  <2>7. /\ stack' \in [Cpus -> Seq(Frames)]
        /\ \A d \in Cpus \ {c} : stack'[d] = stack[d]
        /\ stack'[c] # <<>> /\ Head(stack'[c]) = f
        /\ StackOK(c, stack'[c])
        /\ \A e : KickIn(stack'[c], e) <=> (Kicks(f, e) \/ KickIn(Tail(stack[c]), e))
        /\ \A x : HeldIn(stack'[c], x) <=> (Has(f, x) \/ HeldIn(Tail(stack[c]), x))
        /\ HeldOnce(stack'[c])
             <=> (HeldOnce(Tail(stack[c])) /\ (HoldsPendirq(f) => ~HeldIn(Tail(stack[c]), f.pend.id)))
    BY <1>0, <1>2, <2>3, <2>4, <2>5, SetFacts, Zenon
  <2>8. /\ HoldsPendirq(Top(c)) /\ (\A x : Has(Top(c), x) <=> x = k) /\ (\A e : ~Kicks(Top(c), e))
        /\ ~HoldsPendirq(f) /\ (\A x : ~Has(f, x)) /\ Kicks(f, t)
    BY <1>2, <2>1, <2>2, <2>4 DEF HoldsPendirq, Has, Kicks
  <2>9. HeldOnce(stack[c]) /\ HeldIn(stack[c], k)
    BY <1>0, <1>3, <2>8 DEF OwnersOK
  <2>10. /\ k \in live /\ (\A d \in Cpus : ~Stored(d, k)) /\ StoredOnce(t)
         /\ \A d \in Cpus : HeldIn(stack[d], k) => d = c
    BY <1>0, <1>4, <2>6, <2>9 DEF OwnersOK
  <2>11. ~Draining(t)
    BY <1>4, <1>6 DEF Draining, Inside
  <2>12. RingHead(t) = ring[t].head /\ RingHead(t)' = ring'[t].head
    BY <1>4, <2>7, <2>11 DEF RingHead, Draining, InGuest, Top
  <2>13. /\ ring' \in [Cpus -> [irqs : [Slots -> Pendirqs], head : Slots, tail : Slots]]
         /\ \A d \in Cpus \ {t} : ring'[d] = ring[d]
         /\ \A x : Stored(t, x)' <=> (Stored(t, x) \/ x = k)
         /\ StoredOnce(t)'
    <3>1. NextSlot(ring[t].tail) # ring[t].head
      BY <1>6, <1>8
    <3>2. ~Stored(t, p.id) /\ StoredOnce(t)
      BY <1>4, <2>2, <2>10
    <3>3. /\ ring' \in [Cpus -> [irqs : [Slots -> Pendirqs], head : Slots, tail : Slots]]
          /\ \A d \in Cpus \ {t} : ring'[d] = ring[d]
          /\ \A x : Stored(t, x)' <=> (Stored(t, x) \/ x = p.id)
          /\ StoredOnce(t)'
      BY <1>0, <1>4, <2>3, <2>6, <2>12, <3>1, <3>2, RingStore, Zenon
    <3> QED BY <3>3, <2>2
  <2>14. locked' \in [Cpus -> BOOLEAN] /\ \A e \in Cpus \ {t} : locked'[e] = locked[e]
    BY <1>0, <2>3 DEF Shapes
  <2>15. Shapes'
    BY <1>0, <1>2, <2>3, <2>7, <2>13, <2>14 DEF Shapes
  <2>16. HandlersOK'
    BY <1>0, <2>7, HandlersKept
  <2>17. LockOK'
    <3>1. \A d, e \in Cpus : d # c /\ Inside(d, e) =>
             locked'[e] = locked[e] /\ ring'[e].tail = ring[e].tail
      BY <1>6, <2>13, <2>14
    <3> QED BY <3>1, <1>0, <2>4, <2>7, LockKept
  <2>18. Kicked'
    <3>1. Announced(t)'
      BY <2>7, <2>8 DEF Announced
    <3>2. Head(stack[c]).kind # "inject"
      BY <1>2, <1>3 DEF FrameOK
    <3>3. ASSUME NEW e \in Cpus PROVE Announced(e) => Announced(e)'
      BY <1>3, <2>3, <2>7, <2>8, <3>2, AnnouncedKept DEF Announced
    <3> QED BY <3>1, <3>3, <1>0, <2>3, <2>13, KickedKept
  <2>19. OwnersOK'
    <3>1. \A x : HeldIn(stack'[c], x) <=> (HeldIn(stack[c], x) /\ x # k)
      BY <2>1, <2>2, <2>9, <1>3, <2>7, <2>8, Zenon
    <3>2. \A d \in Cpus, x \in Int : HeldIn(stack'[d], x) <=> (HeldIn(stack[d], x) /\ x # k)
      BY <3>1, <2>7, <2>10
    <3>3. ASSUME NEW d \in Cpus, d # t
          PROVE  (\A x : Stored(d, x)' <=> Stored(d, x)) /\ (StoredOnce(d)' <=> StoredOnce(d))
      <4>1. ring'[d] = ring[d]
        BY <2>13, <3>3
      <4>2. RingHead(d)' = RingHead(d)
        BY <4>1, <1>2, <1>3, <2>4, <2>7 DEF RingHead, Draining, InGuest, Top
      <4> QED BY <4>1, <4>2, RingKept
    <3>4. \A d \in Cpus, x \in Int : Stored(d, x)' <=> (Stored(d, x) \/ (d = t /\ x = k))
      BY <3>3, <2>13
    <3>5. \A d \in Cpus : (HeldOnce(stack[d]) => HeldOnce(stack'[d]))
                            /\ (StoredOnce(d) => StoredOnce(d)')
      BY <3>3, <1>3, <2>7, <2>8, <2>13
    <3>6. live \subseteq Nat /\ live' = live
      BY <1>0, <2>3 DEF Shapes
    <3> QED BY <3>2, <3>4, <3>5, <3>6, <1>0, <1>4, <2>6, <2>9, OwnersMove
  <2> QED BY <2>15, <2>16, <2>17, <2>18, <2>19 DEF VgicInv
<1> QED BY <1>7, <1>8

LEMMA DrainLockStep ==
  ASSUME VgicInv, NEW c \in Cpus, DrainLock(c)
  PROVE  VgicInv'
<1>0. Shapes /\ HandlersOK /\ LockOK /\ Kicked /\ OwnersOK
  BY DEF VgicInv
<1> DEFINE f == [Top(c) EXCEPT !.pc = "drain", !.seen = ring[c].head]
<1>1. /\ ~dead /\ ~InGuest(c) /\ Top(c).pc = "drainlock" /\ ~locked[c]
      /\ locked' = [locked EXCEPT ![c] = TRUE] /\ Set(c, f)
      /\ UNCHANGED <<ring, inject, timer, live, dead>>
  BY DEF DrainLock, At
<1>2. /\ stack[c] # <<>> /\ Top(c) = Head(stack[c]) /\ Top(c) \in Frames /\ FrameOK(c, Top(c))
      /\ \A e : KickIn(stack[c], e) <=> (Kicks(Top(c), e) \/ KickIn(Tail(stack[c]), e))
      /\ \A x : HeldIn(stack[c], x) <=> (Has(Top(c), x) \/ HeldIn(Tail(stack[c]), x))
      /\ HeldOnce(stack[c])
           <=> (HeldOnce(Tail(stack[c]))
                  /\ (HoldsPendirq(Top(c)) => ~HeldIn(Tail(stack[c]), Top(c).pend.id)))
  BY <1>0, <1>1, TopIs, Zenon
<1>3. ring[c].head \in Slots /\ ring[c].head \in Int
  BY <1>0, VgicAssumption DEF Shapes, Slots
<1>4. /\ f \in Frames /\ f.pc = "drain" /\ f.kind = Top(c).kind /\ f.targets = Top(c).targets
      /\ f.seen = ring[c].head
  BY <1>2, <1>3 DEF Frames, Pcs
<1>5. FrameOK(c, f)
  BY <1>1, <1>2, <1>3, <1>4 DEF FrameOK
<1> HIDE DEF f
<1>6. /\ stack' \in [Cpus -> Seq(Frames)]
      /\ \A d \in Cpus \ {c} : stack'[d] = stack[d]
      /\ stack'[c] # <<>> /\ Head(stack'[c]) = f
      /\ StackOK(c, stack'[c])
      /\ \A e : KickIn(stack'[c], e) <=> (Kicks(f, e) \/ KickIn(Tail(stack[c]), e))
      /\ \A x : HeldIn(stack'[c], x) <=> (Has(f, x) \/ HeldIn(Tail(stack[c]), x))
      /\ HeldOnce(stack'[c])
           <=> (HeldOnce(Tail(stack[c])) /\ (HoldsPendirq(f) => ~HeldIn(Tail(stack[c]), f.pend.id)))
  BY <1>0, <1>1, <1>4, <1>5, SetFacts, Zenon
<1>7. /\ ~HoldsPendirq(Top(c)) /\ (\A x : ~Has(Top(c), x)) /\ (\A e : ~Kicks(Top(c), e))
      /\ ~HoldsPendirq(f) /\ (\A x : ~Has(f, x)) /\ (\A e : ~Kicks(f, e))
  BY <1>1, <1>4 DEF HoldsPendirq, Has, Kicks
<1>8. Shapes'
  BY <1>0, <1>1, <1>6 DEF Shapes
<1>9. HandlersOK'
  BY <1>0, <1>6, HandlersKept
<1>10. LockOK'
  <2>1. Top(c)' = f
    BY <1>6 DEF Top
  <2>2. \A t \in Cpus : Inside(c, t)' => t = c
    BY <2>1, <1>4 DEF Inside
  <2>3. locked \in [Cpus -> BOOLEAN]
    BY <1>0 DEF Shapes
  <2>4. Top(c)'.pc = "store" => Top(c)'.seen = ring[c].tail
    BY <2>1, <1>4
  <2> QED BY <2>2, <2>3, <2>4, <1>0, <1>1, <1>6, LockTaken
<1>11. Kicked'
  <2>1. Top(c).kind = "inject"
    BY <1>1, <1>2 DEF FrameOK
  <2>2. Announced(c)'
    BY <2>1, <1>4, <1>6 DEF Announced, InGuest, Top
  <2>3. ASSUME NEW e \in Cpus PROVE Announced(e) => Announced(e)'
    BY <1>1, <1>2, <1>6, <1>7, <2>2, AnnouncedKept DEF Announced
  <2> QED BY <2>3, <1>0, <1>1, KickedKept
<1>12. OwnersOK'
  <2>1. ASSUME NEW d \in Cpus
        PROVE  (\A x : Stored(d, x)' <=> Stored(d, x)) /\ (StoredOnce(d)' <=> StoredOnce(d))
    <3>1. RingHead(d)' = RingHead(d)
      BY <1>1, <1>2, <1>4, <1>6 DEF RingHead, Draining, InGuest, Top
    <3> QED BY <3>1, <1>1, RingKept
  <2>2. \A d \in Cpus, x \in Int : HeldIn(stack'[d], x) <=> HeldIn(stack[d], x)
    BY <1>2, <1>6, <1>7
  <2>3. \A d \in Cpus : HeldOnce(stack[d]) => HeldOnce(stack'[d])
    BY <1>2, <1>6, <1>7
  <2>4. live \subseteq Nat /\ live' = live
    BY <1>0, <1>1 DEF Shapes
  <2> QED BY <2>1, <2>2, <2>3, <2>4, <1>0, OwnersKept
<1> QED BY <1>8, <1>9, <1>10, <1>11, <1>12 DEF VgicInv

\* The slot at the head of a ring that is not empty is taken out.
LEMMA RingTake ==
  ASSUME NEW c \in Cpus, Shapes, NEW i \in Slots, RingHead(c) = i, i # ring[c].tail,
         RingHead(c)' = NextSlot(i), ring' = [ring EXCEPT ![c].irqs[i] = NoPend], StoredOnce(c)
  PROVE  /\ ring' \in [Cpus -> [irqs : [Slots -> Pendirqs], head : Slots, tail : Slots]]
         /\ \A d \in Cpus \ {c} : ring'[d] = ring[d]
         /\ ring'[c].head = ring[c].head /\ ring'[c].tail = ring[c].tail
         /\ Stored(c, ring[c].irqs[i].id)
         /\ \A x : Stored(c, x)' <=> (Stored(c, x) /\ x # ring[c].irqs[i].id)
         /\ StoredOnce(c)'
<1>1. /\ ring \in [Cpus -> [irqs : [Slots -> Pendirqs], head : Slots, tail : Slots]]
      /\ ring[c].irqs \in [Slots -> Pendirqs] /\ ring[c].head \in Slots /\ ring[c].tail \in Slots
  BY DEF Shapes
<1>2. PICK n \in Slots : n = NextSlot(i)
  BY NextSlotIs
<1>3. NoPend \in Pendirqs
  BY DEF NoPend, None, Pendirqs
<1>4. /\ ring'[c].irqs = [ring[c].irqs EXCEPT ![i] = NoPend]
      /\ ring'[c].head = ring[c].head /\ ring'[c].tail = ring[c].tail
      /\ \A d \in Cpus \ {c} : ring'[d] = ring[d]
      /\ ring' \in [Cpus -> [irqs : [Slots -> Pendirqs], head : Slots, tail : Slots]]
  <2>1. PICK g \in [Slots -> Pendirqs] : g = [ring[c].irqs EXCEPT ![i] = NoPend]
    BY <1>1, <1>3
  <2>2. PICK r : r = [ring[c] EXCEPT !.irqs = g]
    OBVIOUS
  <2>3. /\ r \in [irqs : [Slots -> Pendirqs], head : Slots, tail : Slots]
        /\ r.irqs = g /\ r.head = ring[c].head /\ r.tail = ring[c].tail
    BY <2>2, <1>1
  <2>4. ring' = [ring EXCEPT ![c] = r]
    BY <2>1, <2>2, <1>1
  <2>5. /\ ring'[c] = r /\ \A d \in Cpus \ {c} : ring'[d] = ring[d]
        /\ ring' \in [Cpus -> [irqs : [Slots -> Pendirqs], head : Slots, tail : Slots]]
    BY <2>3, <2>4, <1>1
  <2> QED BY <2>1, <2>3, <2>5
<1>5. PICK e \in Slots : e = ring[c].tail
  BY <1>1
<1>6. i \notin Used(n, e) /\ Used(i, e) = Used(n, e) \cup {i}
  BY <1>2, <1>5, RingFacts
<1>7. InRing(c) = Used(i, e) /\ InRing(c)' = Used(n, e)
  BY <1>2, <1>4, <1>5 DEF InRing, Used, Slots
<1>8. InRing(c) = InRing(c)' \cup {i} /\ i \notin InRing(c)' /\ InRing(c)' \subseteq Slots
  BY <1>6, <1>7 DEF Used
<1>9. \A j \in InRing(c)' : ring'[c].irqs[j] = ring[c].irqs[j] /\ j \in InRing(c) /\ j # i
  BY <1>1, <1>4, <1>8
<1>10. Stored(c, ring[c].irqs[i].id)
  BY <1>8 DEF Stored
<1>11. \A x : Stored(c, x)' <=> (Stored(c, x) /\ x # ring[c].irqs[i].id)
  BY <1>8, <1>9 DEF Stored, StoredOnce
<1>12. StoredOnce(c)'
  BY <1>9 DEF StoredOnce
<1> QED BY <1>4, <1>10, <1>11, <1>12

LEMMA DrainOneStep ==
  ASSUME VgicInv, NEW c \in Cpus, DrainOne(c)
  PROVE  VgicInv'
<1>0. Shapes /\ HandlersOK /\ LockOK /\ Kicked /\ OwnersOK
  BY DEF VgicInv
<1>1. PICK p : p = ring[c].irqs[Top(c).seen]
  OBVIOUS
<1>2. ~dead /\ ~InGuest(c) /\ Top(c).pc = "drain" /\ Top(c).seen # ring[c].tail /\ timer' = timer
  BY DEF DrainOne, At
<1>3. /\ stack[c] # <<>> /\ Top(c) = Head(stack[c]) /\ Top(c) \in Frames /\ FrameOK(c, Top(c))
      /\ \A e : KickIn(stack[c], e) <=> (Kicks(Top(c), e) \/ KickIn(Tail(stack[c]), e))
      /\ \A x : HeldIn(stack[c], x) <=> (Has(Top(c), x) \/ HeldIn(Tail(stack[c]), x))
      /\ HeldOnce(stack[c])
           <=> (HeldOnce(Tail(stack[c]))
                  /\ (HoldsPendirq(Top(c)) => ~HeldIn(Tail(stack[c]), Top(c).pend.id)))
  BY <1>0, <1>2, TopIs, Zenon
<1>4. CASE ~Busy(c, p.virq) /\ FreeLrs(c) = {}
  BY <1>1, <1>2, <1>4, PanicStep DEF DrainOne
<1>5. CASE ~(~Busy(c, p.virq) /\ FreeLrs(c) = {})
  <2>1. PICK i \in Slots : i = Top(c).seen
    BY <1>2, <1>3 DEF FrameOK
  <2>2. PICK n \in Slots : n = NextSlot(i)
    BY NextSlotIs
  <2> DEFINE f == [Top(c) EXCEPT !.seen = n]
  <2>3. PICK k : k = ring[c].irqs[i].id
    OBVIOUS
  <2>4. /\ Set(c, f) /\ live' = live \ {k}
        /\ ring' = [ring EXCEPT ![c].irqs[i] = NoPend] /\ UNCHANGED <<locked, inject, dead>>
    <3>1. [Top(c) EXCEPT !.seen = NextSlot(@)] = f
      BY <1>3, <2>1, <2>2 DEF Frames
    <3>2. Set(c, [Top(c) EXCEPT !.seen = NextSlot(@)])
      BY <1>1, <1>5 DEF DrainOne
    <3>3. Set(c, f)
      BY <3>1, <3>2
    <3>4. live' = live \ {k} /\ ring' = [ring EXCEPT ![c].irqs[i] = NoPend]
          /\ UNCHANGED <<locked, inject, dead>>
      BY <1>1, <1>5, <2>1, <2>3 DEF DrainOne, FreePendirq
    <3> QED BY <3>3, <3>4
  <2>5. /\ f \in Frames /\ f.pc = "drain" /\ f.kind = Top(c).kind /\ f.targets = Top(c).targets
        /\ f.seen = n
    <3>1. n \in Int
      BY VgicAssumption DEF Slots
    <3> QED BY <1>2, <1>3, <3>1 DEF Frames
  <2>6. FrameOK(c, f)
    BY <1>2, <1>3, <2>5 DEF FrameOK
  <2> HIDE DEF f
  <2>7. /\ stack' \in [Cpus -> Seq(Frames)]
        /\ \A d \in Cpus \ {c} : stack'[d] = stack[d]
        /\ stack'[c] # <<>> /\ Head(stack'[c]) = f
        /\ StackOK(c, stack'[c])
        /\ \A e : KickIn(stack'[c], e) <=> (Kicks(f, e) \/ KickIn(Tail(stack[c]), e))
        /\ \A x : HeldIn(stack'[c], x) <=> (Has(f, x) \/ HeldIn(Tail(stack[c]), x))
        /\ HeldOnce(stack'[c])
             <=> (HeldOnce(Tail(stack[c])) /\ (HoldsPendirq(f) => ~HeldIn(Tail(stack[c]), f.pend.id)))
    BY <1>0, <1>2, <2>4, <2>5, <2>6, SetFacts, Zenon
  <2>8. /\ ~HoldsPendirq(Top(c)) /\ (\A x : ~Has(Top(c), x)) /\ (\A e : ~Kicks(Top(c), e))
        /\ ~HoldsPendirq(f) /\ (\A x : ~Has(f, x)) /\ (\A e : ~Kicks(f, e))
    BY <1>2, <2>5 DEF HoldsPendirq, Has, Kicks
  <2>9. RingHead(c) = i /\ RingHead(c)' = NextSlot(i)
    BY <1>2, <2>1, <2>2, <2>5, <2>7 DEF RingHead, Draining, InGuest, Top
  <2>10. StoredOnce(c)
    BY <1>0 DEF OwnersOK
  <2>11. i # ring[c].tail
    BY <1>2, <2>1
  <2>12. /\ ring' \in [Cpus -> [irqs : [Slots -> Pendirqs], head : Slots, tail : Slots]]
         /\ \A d \in Cpus \ {c} : ring'[d] = ring[d]
         /\ ring'[c].head = ring[c].head /\ ring'[c].tail = ring[c].tail
         /\ Stored(c, ring[c].irqs[i].id)
         /\ \A x : Stored(c, x)' <=> (Stored(c, x) /\ x # ring[c].irqs[i].id)
         /\ StoredOnce(c)'
    BY <1>0, <2>4, <2>9, <2>10, <2>11, RingTake, Zenon
  <2>13. \A d \in Cpus : ring'[d].head = ring[d].head /\ ring'[d].tail = ring[d].tail
    BY <2>12
  <2>14. Shapes'
    BY <1>0, <1>2, <2>4, <2>7, <2>12, LiveFacts DEF Shapes
  <2>15. HandlersOK'
    BY <1>0, <2>7, HandlersKept
  <2>16. LockOK'
    <3>1. \A d, e \in Cpus : Inside(d, e)' <=> Inside(d, e)
      BY <1>2, <1>3, <2>5, <2>7 DEF Inside, InGuest, Top
    <3>2. \A d \in Cpus : d # c => Top(d)' = Top(d)
      BY <2>7 DEF Top
    <3>3. Top(c)'.pc # "store"
      BY <2>5, <2>7 DEF Top
    <3> QED BY <3>1, <3>2, <3>3, <1>0, <2>4, <2>13 DEF LockOK
  <2>17. Kicked'
    <3>1. Top(c).kind = "inject"
      BY <1>2, <1>3 DEF FrameOK
    <3>2. Announced(c)'
      BY <3>1, <2>5, <2>7 DEF Announced, InGuest, Top
    <3>3. ASSUME NEW e \in Cpus PROVE Announced(e) => Announced(e)'
      BY <1>3, <2>4, <2>7, <2>8, <3>2, AnnouncedKept DEF Announced
    <3> QED BY <3>3, <1>0, <2>4, <2>13, KickedKept
  <2>18. OwnersOK'
    <3>0. k \in Int
      BY <1>0, <2>3 DEF Shapes, Pendirqs
    <3>1. Stored(c, k) /\ \A x : Stored(c, x)' <=> (Stored(c, x) /\ x # k)
      BY <2>3, <2>12
    <3>2. \A d \in Cpus : ~HeldIn(stack[d], k) /\ (Stored(d, k) => d = c)
      BY <3>0, <3>1, <1>0 DEF OwnersOK
    <3>3. ASSUME NEW d \in Cpus, d # c
          PROVE  (\A x : Stored(d, x)' <=> Stored(d, x)) /\ (StoredOnce(d)' <=> StoredOnce(d))
      <4>1. ring'[d] = ring[d]
        BY <2>12, <3>3
      <4>2. RingHead(d)' = RingHead(d)
        BY <4>1, <2>7, <3>3 DEF RingHead, Draining, InGuest, Top
      <4> QED BY <4>1, <4>2, RingKept
    <3>4. \A d \in Cpus, x \in Int : Stored(d, x)' <=> (Stored(d, x) /\ x # k)
      BY <3>1, <3>2, <3>3
    <3>5. \A d \in Cpus, x \in Int : HeldIn(stack'[d], x) <=> HeldIn(stack[d], x)
      BY <1>3, <2>7, <2>8
    <3>6. \A d \in Cpus, x \in Int : HeldIn(stack'[d], x) <=> (HeldIn(stack[d], x) /\ x # k)
      BY <3>2, <3>5
    <3>7. \A d \in Cpus : (HeldOnce(stack[d]) => HeldOnce(stack'[d]))
                            /\ (StoredOnce(d) => StoredOnce(d)')
      BY <3>3, <1>3, <2>7, <2>8, <2>12
    <3>8. live \subseteq Nat
      BY <1>0 DEF Shapes
    <3> QED BY <3>0, <3>4, <3>6, <3>7, <3>8, <1>0, <2>4, OwnersFree
  <2> QED BY <2>14, <2>15, <2>16, <2>17, <2>18 DEF VgicInv
<1> QED BY <1>4, <1>5

LEMMA DrainEndStep ==
  ASSUME VgicInv, NEW c \in Cpus, DrainEnd(c)
  PROVE  VgicInv'
<1>0. Shapes /\ HandlersOK /\ LockOK /\ Kicked /\ OwnersOK
  BY DEF VgicInv
<1>1. /\ ~dead /\ ~InGuest(c) /\ Top(c).pc = "drain" /\ Top(c).seen = ring[c].tail
      /\ ring' = [ring EXCEPT ![c].head = Top(c).seen]
      /\ locked' = [locked EXCEPT ![c] = FALSE] /\ Done(c)
      /\ UNCHANGED <<inject, timer, live, dead>>
  BY DEF DrainEnd, At
<1>2. /\ stack[c] # <<>> /\ Top(c) = Head(stack[c]) /\ Top(c) \in Frames /\ FrameOK(c, Top(c))
      /\ \A e : KickIn(stack[c], e) <=> (Kicks(Top(c), e) \/ KickIn(Tail(stack[c]), e))
      /\ \A x : HeldIn(stack[c], x) <=> (Has(Top(c), x) \/ HeldIn(Tail(stack[c]), x))
      /\ HeldOnce(stack[c])
           <=> (HeldOnce(Tail(stack[c]))
                  /\ (HoldsPendirq(Top(c)) => ~HeldIn(Tail(stack[c]), Top(c).pend.id)))
  BY <1>0, <1>1, TopIs, Zenon
<1>3. /\ stack' \in [Cpus -> Seq(Frames)]
      /\ \A d \in Cpus \ {c} : stack'[d] = stack[d]
      /\ StackOK(c, stack'[c])
      /\ stack'[c] # <<>> => Head(stack'[c]).kind # "inject" /\ Head(stack'[c]).pc \notin {"store", "drain"}
      /\ \A t : KickIn(stack'[c], t) <=> KickIn(Tail(stack[c]), t)
      /\ \A x : HeldIn(stack'[c], x) <=> HeldIn(Tail(stack[c]), x)
      /\ HeldOnce(stack'[c]) <=> HeldOnce(Tail(stack[c]))
  BY <1>0, <1>1, DoneFacts, Zenon
<1>4. ~HoldsPendirq(Top(c)) /\ (\A x : ~Has(Top(c), x)) /\ (\A e : ~Kicks(Top(c), e))
  BY <1>1 DEF HoldsPendirq, Has, Kicks
<1>5. Top(c).seen \in Slots
  BY <1>1, <1>2 DEF FrameOK
<1>6. /\ ring' \in [Cpus -> [irqs : [Slots -> Pendirqs], head : Slots, tail : Slots]]
      /\ \A d \in Cpus \ {c} : ring'[d] = ring[d]
      /\ ring'[c].head = Top(c).seen /\ ring'[c].tail = ring[c].tail
      /\ ring'[c].irqs = ring[c].irqs
  BY <1>0, <1>1, <1>5 DEF Shapes
<1>7. Shapes'
  BY <1>0, <1>1, <1>3, <1>6 DEF Shapes
<1>8. HandlersOK'
  BY <1>0, <1>3, HandlersKept
<1>9. LockOK'
  <2>1. Inside(c, c)
    BY <1>1 DEF Inside
  <2>2. \A d, e \in Cpus : d # c /\ Inside(d, e) => e # c
    BY <2>1, <1>0 DEF LockOK
  <2>3. \A e \in Cpus \ {c} : locked'[e] = locked[e]
    BY <1>0, <1>1 DEF Shapes
  <2>4. \A d, e \in Cpus : d # c /\ Inside(d, e) =>
           locked'[e] = locked[e] /\ ring'[e].tail = ring[e].tail
    BY <2>2, <2>3, <1>6
  <2> QED BY <2>4, <1>0, <1>3, LockKept
<1>10. Kicked'
  <2>1. ASSUME NEW e \in Cpus, e # c PROVE Announced(e) => Announced(e)'
    BY <2>1, <1>1, <1>2, <1>3, <1>4, AnnouncedKept DEF Announced
  <2>2. ring'[c].head = ring'[c].tail
    BY <1>1, <1>6
  <2> QED BY <2>1, <2>2, <1>0, <1>1, <1>6, KickedKept
<1>11. OwnersOK'
  <2>1. ASSUME NEW d \in Cpus
        PROVE  (\A x : Stored(d, x)' <=> Stored(d, x)) /\ (StoredOnce(d)' <=> StoredOnce(d))
    <3>1. CASE d = c
      <4>1. RingHead(c) = Top(c).seen
        BY <1>1 DEF RingHead, Draining
      <4>2. ~Draining(c)'
        BY <1>3 DEF Draining, InGuest, Top
      <4>3. RingHead(c)' = Top(c).seen
        BY <4>2, <1>6 DEF RingHead
      <4> QED BY <3>1, <4>1, <4>3, <1>6, RingKept
    <3>2. CASE d # c
      <4>1. ring'[d] = ring[d]
        BY <1>6, <3>2
      <4>2. RingHead(d)' = RingHead(d)
        BY <4>1, <1>3, <3>2 DEF RingHead, Draining, InGuest, Top
      <4> QED BY <4>1, <4>2, RingKept
    <3> QED BY <3>1, <3>2
  <2>2. \A d \in Cpus, x \in Int : HeldIn(stack'[d], x) <=> HeldIn(stack[d], x)
    BY <1>2, <1>3, <1>4
  <2>3. \A d \in Cpus : HeldOnce(stack[d]) => HeldOnce(stack'[d])
    BY <1>2, <1>3, <1>4
  <2>4. live \subseteq Nat /\ live' = live
    BY <1>0, <1>1 DEF Shapes
  <2> QED BY <2>1, <2>2, <2>3, <2>4, <1>0, OwnersKept
<1> QED BY <1>7, <1>8, <1>9, <1>10, <1>11 DEF VgicInv

LEMMA HandlerStep ==
  ASSUME VgicInv, NEW c \in Cpus, Handler(c)
  PROVE  VgicInv'
<1>1. CASE SgiFailed(c)
  BY <1>1, PanicStep DEF SgiFailed
<1>2. CASE ScanLrs(c)
  BY <1>2, ScanLrsStep
<1>3. CASE WriteLr(c)
  BY <1>3, WriteLrStep
<1>4. CASE LockRing(c)
  BY <1>4, LockRingStep
<1>5. CASE StorePendirq(c)
  BY <1>5, StorePendirqStep
<1>6. CASE SendInjectSgi(c)
  BY <1>6, SendInjectSgiStep
<1>7. CASE SendSgiMsg(c)
  BY <1>7, SendSgiMsgStep
<1>8. CASE DrainLock(c)
  BY <1>8, DrainLockStep
<1>9. CASE DrainOne(c)
  BY <1>9, DrainOneStep
<1>10. CASE DrainEnd(c)
  BY <1>10, DrainEndStep
<1> QED
  BY <1>1, <1>2, <1>3, <1>4, <1>5, <1>6, <1>7, <1>8, <1>9, <1>10 DEF Handler

LEMMA VgicInit == Init => VgicInv
<1> SUFFICES ASSUME Init PROVE VgicInv
  OBVIOUS
<1>1. RingSize \in Nat /\ RingSize > 0 /\ 0 \in Slots
  BY VgicAssumption DEF Slots
<1>2. NoPend \in Pendirqs
  BY DEF NoPend, None, Pendirqs
<1>3. ring \in [Cpus -> [irqs : [Slots -> Pendirqs], head : Slots, tail : Slots]]
  BY <1>1, <1>2 DEF Init, Slots
<1>4. Shapes
  <2>1. IsFiniteSet({})
    BY FS_EmptySet
  <2>2. <<>> \in Seq(Frames)
    OBVIOUS
  <2>3. stack \in [Cpus -> Seq(Frames)]
    BY <2>2 DEF Init
  <2>4. /\ locked \in [Cpus -> BOOLEAN] /\ inject \in [Cpus -> BOOLEAN]
        /\ timer \in [Cpus -> {"idle", "pending", "active"}]
    BY DEF Init
  <2>5. live \subseteq Nat /\ IsFiniteSet(live) /\ dead \in BOOLEAN
    BY <2>1 DEF Init
  <2> QED BY <1>3, <2>3, <2>4, <2>5 DEF Shapes
<1>5. \A c \in Cpus : stack[c] = <<>> /\ ring[c].head = 0 /\ ring[c].tail = 0
  BY DEF Init
<1>6. HandlersOK
  BY <1>5 DEF HandlersOK, StackOK
<1>7. LockOK
  BY <1>5 DEF LockOK, Inside, InGuest
<1>8. Kicked
  BY <1>5 DEF Kicked
<1>9. OwnersOK
  <2>1. \A c \in Cpus : RingHead(c) = 0
    BY <1>5 DEF RingHead, Draining, InGuest
  <2>2. Used(0, 0) = {}
    BY <1>1, RingFacts
  <2>3. \A c \in Cpus : InRing(c) = {}
    BY <2>1, <2>2, <1>5 DEF InRing, Used, Slots
  <2>4. \A c \in Cpus : StoredOnce(c) /\ \A x : ~Stored(c, x)
    BY <2>3 DEF StoredOnce, Stored
  <2>5. HeldOnce(<<>>) /\ \A x : ~HeldIn(<<>>, x)
    BY DEF HeldOnce, HeldIn
  <2>6. \A c \in Cpus : HeldOnce(stack[c]) /\ \A x : ~HeldIn(stack[c], x)
    BY <2>5, <1>5
  <2>7. live = {}
    BY DEF Init
  <2> QED BY <2>4, <2>6, <2>7 DEF OwnersOK
<1> QED BY <1>4, <1>6, <1>7, <1>8, <1>9 DEF VgicInv

(* The stacks, the ring locks, the announcements and the owners of the     *)
(* pending interrupts fit together in every reachable state: a handler     *)
(* that works on a ring is innermost and alone has its lock.               *)
THEOREM VgicInvHolds == Spec => []VgicInv
<1>1. Init => VgicInv
  BY VgicInit
<1>2. VgicInv /\ [Next]_vars => VgicInv'
  <2> SUFFICES ASSUME VgicInv, [Next]_vars PROVE VgicInv'
    OBVIOUS
  <2>1. ASSUME NEW c \in Cpus,
               Handler(c) \/ Irq(c) \/ Guest(c) \/ vgic_cpu_init(c) \/ TimerFires(c)
        PROVE  VgicInv'
    BY <2>1, HandlerStep, IrqStep, OutsideStep
  <2>2. CASE UNCHANGED vars
    BY <2>2, IdleStep DEF vars, VgicInv, Shapes
  <2> QED BY <2>1, <2>2 DEF Next
<1> QED BY <1>1, <1>2, PTL DEF Spec

(* An interrupt in the ring of a vCPU is always announced to its cpu: the  *)
(* physical SGI_INJECT of vgic_inject_virq_local is pending, about to be   *)
(* sent or being handled.                                                  *)
THEOREM KickedHolds == Spec => []Kicked
<1>1. VgicInv => Kicked
  BY DEF VgicInv
<1> QED BY <1>1, VgicInvHolds, PTL

\* Every owner is a handler of some cpu or a slot in use of its ring.
LEMMA HoldersAre ==
  ASSUME NEW h
  PROVE  h \in Holders <=>
           \E c \in Cpus :
             \/ \E i \in 1..Len(stack[c]) : HoldsPendirq(stack[c][i]) /\ h = <<c, "handler", i>>
             \/ \E i \in InRing(c) : h = <<c, "ring", i>>
BY DEF Holders

LEMMA OwnersAreUnique ==
  ASSUME VgicInv
  PROVE  PendirqOnce
<1>0. Shapes /\ OwnersOK
  BY DEF VgicInv
<1>1. \A c, i : PendirqOf(<<c, "handler", i>>) = stack[c][i].pend
  BY DEF PendirqOf
<1>2. \A c, i : PendirqOf(<<c, "ring", i>>) = ring[c].irqs[i]
  BY DEF PendirqOf
<1>3. ASSUME NEW c \in Cpus, NEW i \in 1..Len(stack[c]), HoldsPendirq(stack[c][i])
      PROVE  stack[c][i].pend.id \in Int /\ HeldIn(stack[c], stack[c][i].pend.id)
  <2>1. stack[c] \in Seq(Frames)
    BY <1>0 DEF Shapes
  <2>2. stack[c][i] \in Frames
    BY <2>1
  <2>3. stack[c][i].pend.id \in Int
    BY <2>2 DEF Frames, Pendirqs
  <2> QED BY <1>3, <2>3 DEF HeldIn, Has
<1>4. ASSUME NEW c \in Cpus, NEW i \in InRing(c)
      PROVE  ring[c].irqs[i].id \in Int /\ Stored(c, ring[c].irqs[i].id)
  <2>1. i \in Slots
    BY DEF InRing, Slots
  <2>2. ring[c].irqs[i].id \in Int
    BY <2>1, <1>0 DEF Shapes, Pendirqs
  <2> QED BY <2>2 DEF Stored
<1>5. ASSUME NEW h \in Holders PROVE PendirqOf(h).id \in live
  <2>1. ASSUME NEW c \in Cpus, NEW i \in 1..Len(stack[c]), HoldsPendirq(stack[c][i]),
               h = <<c, "handler", i>>
        PROVE  PendirqOf(h).id \in live
    BY <2>1, <1>0, <1>1, <1>3 DEF OwnersOK
  <2>2. ASSUME NEW c \in Cpus, NEW i \in InRing(c), h = <<c, "ring", i>>
        PROVE  PendirqOf(h).id \in live
    BY <2>2, <1>0, <1>2, <1>4 DEF OwnersOK
  <2> QED BY <2>1, <2>2, HoldersAre
<1>6. ASSUME NEW x \in live PROVE \E h \in Holders : PendirqOf(h).id = x
  <2>1. PICK c \in Cpus : HeldIn(stack[c], x) \/ Stored(c, x)
    BY <1>0 DEF OwnersOK
  <2>2. CASE HeldIn(stack[c], x)
    <3>1. PICK i \in 1..Len(stack[c]) : HoldsPendirq(stack[c][i]) /\ stack[c][i].pend.id = x
      BY <2>2 DEF HeldIn, Has
    <3>2. <<c, "handler", i>> \in Holders
      BY <3>1, HoldersAre
    <3> QED BY <3>1, <3>2, <1>1
  <2>3. CASE Stored(c, x)
    <3>1. PICK i \in InRing(c) : ring[c].irqs[i].id = x
      BY <2>3 DEF Stored
    <3>2. <<c, "ring", i>> \in Holders
      BY HoldersAre
    <3> QED BY <3>1, <3>2, <1>2
  <2> QED BY <2>1, <2>2, <2>3
<1>7. ASSUME NEW g \in Holders, NEW h \in Holders, PendirqOf(g).id = PendirqOf(h).id
      PROVE  g = h
  <2>1. ASSUME NEW c \in Cpus, NEW i \in 1..Len(stack[c]), HoldsPendirq(stack[c][i]),
               g = <<c, "handler", i>>,
               NEW d \in Cpus, NEW j \in 1..Len(stack[d]), HoldsPendirq(stack[d][j]),
               h = <<d, "handler", j>>
        PROVE  g = h
    <3>1. stack[c][i].pend.id = stack[d][j].pend.id
      BY <2>1, <1>7, <1>1
    <3>2. c = d
      BY <2>1, <3>1, <1>0, <1>3 DEF OwnersOK
    <3>3. i = j
      BY <2>1, <3>1, <3>2, <1>0 DEF OwnersOK, HeldOnce
    <3> QED BY <2>1, <3>2, <3>3
  <2>2. ASSUME NEW c \in Cpus, NEW i \in InRing(c), g = <<c, "ring", i>>,
               NEW d \in Cpus, NEW j \in InRing(d), h = <<d, "ring", j>>
        PROVE  g = h
    <3>1. ring[c].irqs[i].id = ring[d].irqs[j].id
      BY <2>2, <1>7, <1>2
    <3>2. c = d
      BY <3>1, <1>0, <1>4 DEF OwnersOK
    <3>3. i = j
      BY <3>1, <3>2, <1>0 DEF OwnersOK, StoredOnce
    <3> QED BY <2>2, <3>2, <3>3
  <2>3. ASSUME NEW c \in Cpus, NEW i \in 1..Len(stack[c]), HoldsPendirq(stack[c][i]),
               NEW d \in Cpus, NEW j \in InRing(d)
        PROVE  stack[c][i].pend.id # ring[d].irqs[j].id
    BY <2>3, <1>0, <1>3, <1>4 DEF OwnersOK
  <2>4. ASSUME NEW c \in Cpus, NEW i \in 1..Len(stack[c]), HoldsPendirq(stack[c][i]),
               NEW d \in Cpus, NEW j \in InRing(d)
        PROVE  ~(g = <<c, "handler", i>> /\ h = <<d, "ring", j>>)
                 /\ ~(h = <<c, "handler", i>> /\ g = <<d, "ring", j>>)
    BY <2>3, <2>4, <1>1, <1>2, <1>7
  <2>5. PICK c \in Cpus :
          \/ \E i \in 1..Len(stack[c]) : HoldsPendirq(stack[c][i]) /\ g = <<c, "handler", i>>
          \/ \E i \in InRing(c) : g = <<c, "ring", i>>
    BY HoldersAre
  <2>6. PICK d \in Cpus :
          \/ \E i \in 1..Len(stack[d]) : HoldsPendirq(stack[d][i]) /\ h = <<d, "handler", i>>
          \/ \E i \in InRing(d) : h = <<d, "ring", i>>
    BY HoldersAre
  <2> QED BY <2>1, <2>2, <2>4, <2>5, <2>6
<1> QED BY <1>5, <1>6, <1>7 DEF PendirqOnce

(* Every struct gic_pending_irq has exactly one owner from the malloc in   *)
(* vgic_inject_virq to its free, a handler or a slot of a ring: no leak,   *)
(* no second free and no slot overwritten, for any number of senders.      *)
THEOREM PendirqOnceHolds == Spec => []PendirqOnce
<1>1. VgicInv => PendirqOnce
  BY OwnersAreUnique
<1> QED BY <1>1, VgicInvHolds, PTL
=============================================================================
